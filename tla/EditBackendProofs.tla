-------------------------- MODULE EditBackendProofs ---------------------------
(***************************************************************************)
(* Theorems about the edit commands, for any number of calls, files, texts *)
(* and external changes: types, the snapshot cache against the disk, the   *)
(* registry against the disk, and the undo store against what the files    *)
(* held.                                                                   *)
(***************************************************************************)
EXTENDS EditBackend, HashRegistryProofs, SequenceTheorems

(***************************************************************************)
(* Types.                                                                  *)
(***************************************************************************)
\* batch_edits reaches the undo store only with entries to push.
BatchHasEntries ==
    \A p \in Proc : job[p].at \in {"batchPush", "batchPushRest"} => job[p].done # << >>

\* What batch_edits writes replaces a text it read.
BatchReadText ==
    \A p \in Proc : job[p].at \in {"batchWrite", "batchRecord"} => job[p].old \in Hash

\* A hash the registry lists for a file can be looked up.
ListedKnown == \A f \in File : \A k \in DOMAIN bySource[f] : entries[bySource[f][k]] \in Entry

TypeInv == TypeOK /\ BatchHasEntries /\ BatchReadText /\ ListedKnown

Jobs == [Proc -> Working \cup {Idle}]

\* What the calls other than p do while p changes file f, and while it does not.
Others(p, f) ==
    \A q \in Proc \ {p} :
        IF job[q] = Idle THEN job'[q] = Idle
        ELSE /\ job'[q] # Idle
             /\ job'[q].at = job[q].at /\ job'[q].f = job[q].f
             /\ job'[q].text = job[q].text /\ job'[q].done = job[q].done
             /\ job'[q].old = job[q].old
             /\ job'[q].late = (job[q].late \/ job[q].f = f)

OthersRest(p) == \A q \in Proc \ {p} : job'[q] = job[q]

LEMMA RemoveAtType ==
    ASSUME NEW S, NEW s \in Seq(S), NEW i \in DOMAIN s
    PROVE  RemoveAt(s, i) \in Seq(S) /\ Len(RemoveAt(s, i)) = Len(s) - 1
<1>1. i \in 1..Len(s) /\ Len(s) \in Nat OBVIOUS
<1>2. SubSeq(s, 1, i-1) \in Seq(S) /\ Len(SubSeq(s, 1, i-1)) = i - 1
  BY <1>1
<1>3. SubSeq(s, i+1, Len(s)) \in Seq(S) /\ Len(SubSeq(s, i+1, Len(s))) = Len(s) - i
  BY <1>1, SubSeqProperties
<1>4. /\ SubSeq(s, 1, i-1) \o SubSeq(s, i+1, Len(s)) \in Seq(S)
      /\ Len(SubSeq(s, 1, i-1) \o SubSeq(s, i+1, Len(s))) = (i - 1) + (Len(s) - i)
  BY <1>2, <1>3, ConcatProperties
<1>5. (i - 1) + (Len(s) - i) = Len(s) - 1 BY <1>1
<1> QED BY <1>4, <1>5 DEF RemoveAt

LEMMA PushedType ==
    ASSUME NEW S, NEW s \in Seq(S), NEW e \in S, Len(s) <= MaxEntries
    PROVE  Pushed(s, e) \in Seq(S) /\ Len(Pushed(s, e)) <= MaxEntries
<1>1. CASE Len(s) >= MaxEntries
  <2>1. s # << >> /\ Tail(s) \in Seq(S) /\ Len(Tail(s)) = Len(s) - 1
    BY <1>1, BoundsAssumption
  <2> QED BY <1>1, <2>1, BoundsAssumption DEF Pushed
<1>2. CASE ~(Len(s) >= MaxEntries)
  BY <1>2, BoundsAssumption DEF Pushed
<1> QED BY <1>1, <1>2

LEMMA IdleNotWorking == Idle \notin Working /\ Idle.at = "idle"
BY DEF Idle, Working, Place

LEMMA WorkType ==
    ASSUME NEW at \in Place, NEW f \in File, NEW text \in Hash,
           NEW old \in Hash \cup {None},
           NEW done \in Seq(DoneEdit)
    PROVE  Work(at, f, text, old, done) \in Working
BY DEF Work, Working

LEMMA QuietlyFacts ==
    ASSUME job \in Jobs, NEW p \in Proc, NEW j \in Working \cup {Idle}, Quietly(p, j)
    PROVE  job' \in Jobs /\ job'[p] = j /\ OthersRest(p)
BY DEF Quietly, Jobs, OthersRest

LEMMA GoesFacts ==
    ASSUME job \in Jobs, NEW p \in Proc, NEW f \in File,
           NEW j \in Working \cup {Idle}, Goes(p, f, j)
    PROVE  job' \in Jobs /\ job'[p] = j /\ Others(p, f)
<1>1. \A q \in Proc : job[q] # Idle => [job[q] EXCEPT !.late = TRUE] \in Working
  BY DEF Working, Jobs
<1>2. Overtaken(p, f) \in Jobs
  BY <1>1 DEF Overtaken, Jobs
<1>3. job' \in Jobs /\ job'[p] = j
  BY <1>2 DEF Goes, Jobs
<1>4. ASSUME NEW q \in Proc \ {p}
      PROVE  IF job[q] = Idle THEN job'[q] = Idle
             ELSE /\ job'[q] # Idle
                  /\ job'[q].at = job[q].at /\ job'[q].f = job[q].f
                  /\ job'[q].text = job[q].text /\ job'[q].done = job[q].done
                  /\ job'[q].old = job[q].old
                  /\ job'[q].late = (job[q].late \/ job[q].f = f)
  <2>1. job'[q] = Overtaken(p, f)[q]
    BY <1>2 DEF Goes, Jobs
  <2>2. job'[q] = IF job[q] # Idle /\ job[q].f = f
                  THEN [job[q] EXCEPT !.late = TRUE] ELSE job[q]
    BY <2>1 DEF Overtaken
  <2>3. job[q] # Idle => job[q] \in Working /\ job[q].late \in BOOLEAN
    BY DEF Jobs, Working
  <2>4. CASE job[q] # Idle /\ job[q].f = f
    <3>1. job'[q] = [job[q] EXCEPT !.late = TRUE] BY <2>2, <2>4
    <3>2. job'[q] \in Working BY <1>1, <2>4, <3>1
    <3> QED BY <2>3, <2>4, <3>1, <3>2, IdleNotWorking DEF Working
  <2>5. CASE ~(job[q] # Idle /\ job[q].f = f)
    BY <2>2, <2>3, <2>5
  <2> QED BY <2>4, <2>5
<1> QED BY <1>3, <1>4 DEF Others

LEMMA WriteType ==
    ASSUME disk \in [File -> Hash \cup {None}], cached \in [File -> Cached \cup {None}],
           had \in [File -> SUBSET Hash], NEW f \in File, NEW text \in Hash \cup {None},
           Write(f, text)
    PROVE  /\ disk' \in [File -> Hash \cup {None}]
           /\ cached' \in [File -> Cached \cup {None}]
           /\ had' \in [File -> SUBSET Hash]
<1>1. cached[f] # None => [cached[f] EXCEPT !.current = FALSE] \in Cached
  BY DEF Cached
<1> QED BY <1>1 DEF Write

\* What a command does to the registry is a registration or an invalidation.
LEMMA NextIsRegistryStep ==
    ASSUME TypeOK, [Next]_vars
    PROVE  [RegistryNext]_registry
<1> USE DEF RegistryNext
<1>1. CASE UNCHANGED vars
  BY <1>1 DEF vars, registry
<1>2. ASSUME NEW p \in Proc, Steps(p) PROVE [RegistryNext]_registry
  <2>1. job[p] # Idle => job[p].f \in File /\ job[p].text \in Hash
    BY DEF TypeOK, Working
  <2>2. job[p].at # "idle" => job[p] # Idle
    BY DEF Idle
  <2>3. CASE LineEditsWrite(p) \/ LineEditsRecord(p) \/ LineEditsPush(p)
    BY <2>3 DEF LineEditsWrite, LineEditsRecord, LineEditsPush, GivesUp
  <2>4. CASE LineEditsRegister(p) \/ PublishAndReturn(p) \/ ContextRegister(p)
    BY <2>1, <2>2, <2>4 DEF LineEditsRegister, PublishAndReturn, ContextRegister, Publish
  <2>5. CASE DraftRegister(p)
    BY <2>1, <2>2, <2>5 DEF DraftRegister
  <2>6. CASE DraftWrite(p) \/ BatchWrite(p) \/ BatchFails(p) \/ BatchPush(p) \/ CreateRecord(p)
    BY <2>6 DEF DraftWrite, BatchWrite, BatchFails, BatchPush, CreateRecord, GivesUp
  <2>7. CASE FlushPublish(p)
    <3>1. disk[job[p].f] # None => disk[job[p].f] \in Hash
      BY <2>1, <2>2, <2>7 DEF FlushPublish, TypeOK
    <3> QED BY <2>1, <2>2, <2>7, <3>1 DEF FlushPublish, Publish
  <2>8. CASE BatchRecord(p)
    BY <2>1, <2>2, <2>8 DEF BatchRecord, Publish
  <2>9. CASE DeleteInvalidate(p)
    BY <2>1, <2>2, <2>9 DEF DeleteInvalidate
  <2> QED BY <1>2, <2>3, <2>4, <2>5, <2>6, <2>7, <2>8, <2>9 DEF Steps
<1>3. ASSUME NEW p \in Proc, Calls(p) PROVE UNCHANGED registry
  BY <1>3 DEF Calls, LineEditsRead, Draft, Revise, BatchRead, CreateFile, WriteFile,
     Flush, Undo, DeletePath, ContextRead
<1>4. CASE \E f \in File : \/ \E text \in Hash \cup {None} : ExternalChange(f, text)
                           \/ WatcherInvalidates(f)
  BY <1>4 DEF ExternalChange, WatcherInvalidates
<1> QED BY <1>1, <1>2, <1>3, <1>4 DEF Next

LEMMA RegistryTypeStep ==
    ASSUME TypeOKRegistry, [RegistryNext]_registry
    PROVE  TypeOKRegistry'
<1>1. CASE UNCHANGED registry
  BY <1>1 DEF registry, TypeOKRegistry
<1>2. ASSUME NEW f \in File, InvalidateSource(f) PROVE TypeOKRegistry'
  BY <1>2 DEF TypeOKRegistry, InvalidateSource
<1> QED BY <1>1, <1>2, RegisterKeepsType DEF RegistryNext

LEMMA ListedKnownStep ==
    ASSUME TypeOKRegistry, ListedKnown, [RegistryNext]_registry
    PROVE  ListedKnown'
<1>1. CASE UNCHANGED registry
  BY <1>1 DEF registry, ListedKnown
<1>2. ASSUME NEW f \in File, InvalidateSource(f) PROVE ListedKnown'
  BY <1>2 DEF TypeOKRegistry, ListedKnown, InvalidateSource
<1>3. ASSUME NEW h \in Hash, NEW text \in Hash, NEW f \in File, Register(h, text, f)
      PROVE  ListedKnown'
  <2>1. \A k \in Hash : entries[k] \in Entry => entries'[k] \in Entry
    BY <1>3 DEF Register, TypeOKRegistry, Entry
  <2>2. entries'[h] \in Entry
    BY <1>3 DEF Register, TypeOKRegistry, Entry
  <2>3. ASSUME NEW g \in File, NEW k \in DOMAIN bySource'[g]
        PROVE  entries'[bySource'[g][k]] \in Entry
    <3>1. bySource[g] \in Seq(Hash) BY DEF TypeOKRegistry
    <3>2. CASE bySource'[g] = bySource[g]
      BY <2>1, <3>1, <3>2 DEF ListedKnown
    <3>3. CASE bySource'[g] = Append(bySource[g], h)
      <4>1. CASE k \in DOMAIN bySource[g]
        BY <2>1, <3>1, <3>3, <4>1 DEF ListedKnown
      <4>2. CASE k \notin DOMAIN bySource[g]
        BY <2>2, <3>1, <3>3, <4>2
      <4> QED BY <4>1, <4>2
    <3> QED BY <1>3, <3>2, <3>3 DEF Register, TypeOKRegistry
  <2> QED BY <2>3 DEF ListedKnown
<1> QED BY <1>1, <1>2, <1>3 DEF RegistryNext

(***************************************************************************)
(* What a step of p has to show of the types, variable by variable.        *)
(***************************************************************************)
JobsTyped(p) ==
    /\ job' \in Jobs
    /\ OthersRest(p) \/ \E f \in File : Others(p, f)
    /\ job'[p].at \in {"batchPush", "batchPushRest"} => job'[p].done # << >>
    /\ job'[p].at \in {"batchWrite", "batchRecord"} => job'[p].old \in Hash

FilesTyped ==
    /\ disk' \in [File -> Hash \cup {None}]
    /\ cached' \in [File -> Cached \cup {None}]
    /\ had' \in [File -> SUBSET Hash]

UndoTyped ==
    /\ undo' \in [File -> Seq(UndoEntry)]
    /\ \A f \in File : Len(undo'[f]) <= MaxEntries

CountsTyped == calls' \in 0..MaxCalls /\ events' \in 0..MaxEvents

MarksTyped == torn' \subseteq File /\ adrift' \subseteq File

LEMMA StepType ==
    ASSUME TypeInv, [Next]_vars, NEW p \in Proc,
           JobsTyped(p), FilesTyped, UndoTyped, CountsTyped, MarksTyped
    PROVE  TypeInv'
<1>1. TypeOKRegistry'
  BY NextIsRegistryStep, RegistryTypeStep DEF TypeInv, TypeOK
<1>2. BatchHasEntries'
  <2>1. ASSUME NEW q \in Proc \ {p}
        PROVE  job'[q].at \in {"batchPush", "batchPushRest"} => job'[q].done # << >>
    BY IdleNotWorking DEF TypeInv, BatchHasEntries, Others, OthersRest, JobsTyped
  <2> QED BY <2>1 DEF BatchHasEntries, JobsTyped
<1>4. BatchReadText'
  <2>1. ASSUME NEW q \in Proc \ {p}
        PROVE  job'[q].at \in {"batchWrite", "batchRecord"} => job'[q].old \in Hash
    BY IdleNotWorking DEF TypeInv, BatchReadText, Others, OthersRest, JobsTyped
  <2> QED BY <2>1 DEF BatchReadText, JobsTyped
<1>3. ListedKnown'
  BY NextIsRegistryStep, ListedKnownStep DEF TypeInv, TypeOK
<1> QED BY <1>1, <1>2, <1>3, <1>4
    DEF TypeInv, TypeOK, Jobs, JobsTyped, FilesTyped, UndoTyped, CountsTyped, MarksTyped

LEMMA JobTyped ==
    ASSUME TypeInv, NEW p \in Proc, NEW f \in File, NEW j \in Working \cup {Idle},
           j.at \notin {"batchPush", "batchPushRest"} \/ j.done # << >>,
           j.at \notin {"batchWrite", "batchRecord"} \/ j.old \in Hash,
           Quietly(p, j) \/ Goes(p, f, j)
    PROVE  JobsTyped(p)
<1>1. job \in Jobs BY DEF TypeInv, TypeOK, Jobs
<1>2. CASE Quietly(p, j) BY <1>1, <1>2, QuietlyFacts DEF JobsTyped
<1>3. CASE Goes(p, f, j) BY <1>1, <1>3, GoesFacts DEF JobsTyped
<1> QED BY <1>2, <1>3

LEMMA JobIdleTyped ==
    ASSUME TypeInv, NEW p \in Proc, NEW f \in File, Quietly(p, Idle) \/ Goes(p, f, Idle)
    PROVE  JobsTyped(p)
BY JobTyped, IdleNotWorking

LEMMA FilesKept ==
    ASSUME TypeInv, UNCHANGED << disk, cached, had >>
    PROVE  FilesTyped
BY DEF TypeInv, TypeOK, FilesTyped

LEMMA FilesWritten ==
    ASSUME TypeInv, NEW f \in File, NEW text \in Hash \cup {None}, Write(f, text)
    PROVE  FilesTyped
BY WriteType DEF TypeInv, TypeOK, FilesTyped

LEMMA FilesRecorded ==
    ASSUME TypeInv, NEW p \in Proc, NEW f \in File, NEW text \in Hash,
           RecordWrite(p, f, text), UNCHANGED << disk, had >>
    PROVE  FilesTyped /\ torn' \subseteq File
<1>1. [text |-> text, current |-> TRUE] \in Cached BY DEF Cached
<1> QED BY <1>1 DEF RecordWrite, TypeInv, TypeOK, FilesTyped

LEMMA FilesRead ==
    ASSUME TypeInv, NEW f \in File, ReadSnapshot(f), UNCHANGED << disk, had >>
    PROVE  FilesTyped /\ torn' \subseteq File /\ SnapshotText(f) \in Hash
<1>1. SnapshotText(f) \in Hash
  BY DEF SnapshotText, ReadSnapshot, TypeInv, TypeOK, Cached
<1>2. [text |-> SnapshotText(f), current |-> TRUE] \in Cached
  BY <1>1 DEF Cached
<1> QED BY <1>1, <1>2 DEF ReadSnapshot, TypeInv, TypeOK, FilesTyped

LEMMA UndoKept ==
    ASSUME TypeInv, undo' = undo
    PROVE  UndoTyped
BY DEF TypeInv, TypeOK, UndoTyped

LEMMA UndoPushed ==
    ASSUME TypeInv, NEW f \in File, NEW e \in UndoEntry,
           undo' = [undo EXCEPT ![f] = Pushed(@, e)]
    PROVE  UndoTyped
<1>1. undo[f] \in Seq(UndoEntry) /\ Len(undo[f]) <= MaxEntries
  BY DEF TypeInv, TypeOK
<1>2. Pushed(undo[f], e) \in Seq(UndoEntry) /\ Len(Pushed(undo[f], e)) <= MaxEntries
  BY <1>1, PushedType
<1> QED BY <1>2 DEF TypeInv, TypeOK, UndoTyped

LEMMA CountsKept ==
    ASSUME TypeInv, GoOn
    PROVE  CountsTyped
BY DEF TypeInv, TypeOK, GoOn, CountsTyped

LEMMA CallCounted ==
    ASSUME TypeInv, calls < MaxCalls, calls' = calls + 1, UNCHANGED events
    PROVE  CountsTyped
BY BoundsAssumption DEF TypeInv, TypeOK, CountsTyped

LEMMA MarksKept ==
    ASSUME TypeInv, NEW f \in File,
           torn' = torn \/ torn' \subseteq File,
           adrift' \in {adrift, adrift \cup {f}, adrift \ {f}}
    PROVE  MarksTyped
BY DEF TypeInv, TypeOK, MarksTyped

LEMMA AtWork ==
    ASSUME TypeInv, NEW p \in Proc, job[p].at # "idle"
    PROVE  /\ job[p] \in Working /\ job[p] # Idle
           /\ job[p].f \in File /\ job[p].text \in Hash
           /\ job[p].old \in Hash \cup {None} /\ job[p].late \in BOOLEAN
           /\ job[p].done \in Seq(DoneEdit)
<1>1. job[p] \in Working /\ job[p] # Idle
  BY IdleNotWorking DEF TypeInv, TypeOK
<1> QED BY <1>1 DEF Working

LEMMA Places ==
    /\ "write" \in Place /\ "record" \in Place /\ "register" \in Place
    /\ "push" \in Place /\ "draftRegister" \in Place /\ "draftWrite" \in Place
    /\ "publish" \in Place /\ "flushPublish" \in Place /\ "batchWrite" \in Place
    /\ "batchRecord" \in Place /\ "batchNext" \in Place /\ "batchPush" \in Place
    /\ "batchPushRest" \in Place /\ "contextRegister" \in Place
    /\ "createRecord" \in Place /\ "invalidate" \in Place
BY DEF Place

LEMMA EmptyDone == << >> \in Seq(DoneEdit)
OBVIOUS

LEMMA MovesOn ==
    ASSUME NEW w \in Working, NEW at \in Place
    PROVE  /\ [w EXCEPT !.at = at] \in Working
           /\ [w EXCEPT !.at = at].at = at
           /\ [w EXCEPT !.at = at, !.late = FALSE] \in Working
           /\ [w EXCEPT !.at = at, !.late = FALSE].at = at
BY DEF Working

LEMMA KeepsOld ==
    ASSUME NEW w \in Working, NEW at \in Place
    PROVE  [w EXCEPT !.at = at, !.late = FALSE].old = w.old
BY DEF Working

LEMMA GivesUpKeepsType ==
    ASSUME TypeInv, [Next]_vars, NEW p \in Proc, job[p].at # "idle", GivesUp(p)
    PROVE  TypeInv'
BY AtWork, StepType, JobIdleTyped, FilesKept, UndoKept, CountsKept, MarksKept DEF GivesUp

LEMMA MarkedEntry ==
    ASSUME NEW e \in UndoEntry
    PROVE  [e EXCEPT !.flushed = TRUE] \in UndoEntry
BY DEF UndoEntry

LEMMA MarkedType ==
    ASSUME NEW s \in Seq(UndoEntry)
    PROVE  /\ [s EXCEPT ![Len(s)].flushed = TRUE] \in Seq(UndoEntry)
           /\ Len([s EXCEPT ![Len(s)].flushed = TRUE]) = Len(s)
<1>1. Len(s) \in Nat /\ DOMAIN s = 1..Len(s) OBVIOUS
<1>2. CASE Len(s) = 0
  <2>1. [s EXCEPT ![Len(s)].flushed = TRUE] = s BY <1>1, <1>2
  <2> QED BY <2>1
<1>3. CASE Len(s) # 0
  <2>1. s[Len(s)] \in UndoEntry BY <1>1, <1>3
  <2>2. [s[Len(s)] EXCEPT !.flushed = TRUE] \in UndoEntry BY <2>1, MarkedEntry
  <2> QED BY <1>1, <1>3, <2>2, ExceptSeq
<1> QED BY <1>2, <1>3

LEMMA LineEditsKeepsType ==
    ASSUME TypeInv, [Next]_vars, NEW p \in Proc,
           \/ \E f \in File, text \in Hash : LineEditsRead(p, f, text)
           \/ LineEditsWrite(p) \/ LineEditsRecord(p)
           \/ LineEditsRegister(p) \/ LineEditsPush(p)
    PROVE  TypeInv'
<1>1. ASSUME NEW f \in File, NEW text \in Hash, LineEditsRead(p, f, text)
      PROVE  TypeInv'
  <2> DEFINE j == Work("write", f, text, disk[f], << >>)
  <2>1. disk[f] \in Hash BY <1>1 DEF LineEditsRead, TypeInv, TypeOK
  <2>2. j \in Working /\ j.at = "write" BY <2>1, WorkType, Places, EmptyDone DEF Work
  <2>3. JobsTyped(p) BY <1>1, <2>2, JobTyped DEF LineEditsRead
  <2> QED BY <1>1, <2>3, StepType, FilesKept, UndoKept, CallCounted, MarksKept
      DEF LineEditsRead, Start
<1>2. CASE LineEditsWrite(p)
  <2>1. job[p].at # "idle" BY <1>2 DEF LineEditsWrite
  <2> DEFINE j == [job[p] EXCEPT !.at = "record", !.late = FALSE]
  <2>2. CASE Write(job[p].f, job[p].text) /\ Goes(p, job[p].f, j)
              /\ GoOn /\ UNCHANGED << registry, undo, torn, adrift >>
    <3>1. j \in Working /\ j.at = "record" BY <2>1, AtWork, MovesOn, Places
    <3>2. JobsTyped(p) BY <2>1, <2>2, <3>1, AtWork, JobTyped
    <3>3. FilesTyped BY <2>1, <2>2, AtWork, FilesWritten
    <3> QED BY <2>1, <2>2, <3>2, <3>3, AtWork, StepType, UndoKept, CountsKept, MarksKept
  <2> QED BY <1>2, <2>1, <2>2, GivesUpKeepsType DEF LineEditsWrite
<1>3. CASE LineEditsRecord(p)
  <2> DEFINE j == [job[p] EXCEPT !.at = "register"]
  <2>1. job[p].at # "idle" BY <1>3 DEF LineEditsRecord
  <2>2. j \in Working /\ j.at = "register" BY <2>1, AtWork, MovesOn, Places
  <2>3. JobsTyped(p) BY <1>3, <2>1, <2>2, AtWork, JobTyped DEF LineEditsRecord
  <2>4. FilesTyped /\ torn' \subseteq File
    BY <1>3, <2>1, AtWork, FilesRecorded DEF LineEditsRecord
  <2> QED BY <1>3, <2>1, <2>3, <2>4, AtWork, StepType, UndoKept, CountsKept, MarksKept
      DEF LineEditsRecord
<1>4. CASE LineEditsRegister(p)
  <2> DEFINE j == [job[p] EXCEPT !.at = "push"]
  <2>1. job[p].at # "idle" BY <1>4 DEF LineEditsRegister
  <2>2. j \in Working /\ j.at = "push" BY <2>1, AtWork, MovesOn, Places
  <2>3. JobsTyped(p) BY <1>4, <2>1, <2>2, AtWork, JobTyped DEF LineEditsRegister
  <2> QED BY <1>4, <2>1, <2>3, AtWork, StepType, FilesKept, UndoKept, CountsKept, MarksKept
      DEF LineEditsRegister, Publish
<1>5. CASE LineEditsPush(p)
  <2> DEFINE e == Entry4(job[p].text, None, job[p].old, TRUE)
  <2>1. job[p].at # "idle" BY <1>5 DEF LineEditsPush
  <2>2. e \in UndoEntry BY <2>1, AtWork DEF Entry4, UndoEntry
  <2>3. UndoTyped BY <1>5, <2>1, <2>2, AtWork, UndoPushed DEF LineEditsPush
  <2> QED BY <1>5, <2>1, <2>3, AtWork, StepType, JobIdleTyped, FilesKept, CountsKept, MarksKept
      DEF LineEditsPush
<1> QED BY <1>1, <1>2, <1>3, <1>4, <1>5

LEMMA DraftKeepsType ==
    ASSUME TypeInv, [Next]_vars, NEW p \in Proc,
           \/ \E f \in File, text \in Hash : Draft(p, f, text)
           \/ DraftRegister(p) \/ DraftWrite(p)
    PROVE  TypeInv'
<1>1. ASSUME NEW f \in File, NEW text \in Hash, Draft(p, f, text)
      PROVE  TypeInv'
  <2> DEFINE j == Work("draftRegister", f, text, disk[f], << >>)
             e == Entry4(text, disk[f], disk[f], FALSE)
  <2>1. disk[f] \in Hash \cup {None} BY DEF TypeInv, TypeOK
  <2>2. j \in Working /\ j.at = "draftRegister" BY <2>1, WorkType, Places, EmptyDone DEF Work
  <2>3. JobsTyped(p) BY <1>1, <2>2, JobTyped DEF Draft
  <2>4. e \in UndoEntry BY <2>1 DEF Entry4, UndoEntry
  <2>5. UndoTyped BY <1>1, <2>4, UndoPushed DEF Draft
  <2> QED BY <1>1, <2>3, <2>5, StepType, FilesKept, CallCounted, MarksKept DEF Draft, Start
<1>2. CASE DraftRegister(p)
  <2> DEFINE j == [job[p] EXCEPT !.at = "draftWrite", !.late = FALSE]
  <2>1. job[p].at # "idle" BY <1>2 DEF DraftRegister
  <2>2. j \in Working /\ j.at = "draftWrite" BY <2>1, AtWork, MovesOn, Places
  <2>3. JobsTyped(p)
    <3>1. CASE Goes(p, job[p].f, j) BY <2>1, <2>2, <3>1, AtWork, JobTyped
    <3>2. CASE Goes(p, job[p].f, Idle) BY <2>1, <3>2, AtWork, JobIdleTyped
    <3> QED BY <1>2, <3>1, <3>2 DEF DraftRegister
  <2> QED BY <1>2, <2>1, <2>3, AtWork, StepType, FilesKept, UndoKept, CountsKept, MarksKept
      DEF DraftRegister
<1>3. CASE DraftWrite(p)
  <2>1. job[p].at # "idle" BY <1>3 DEF DraftWrite
  <2>2. CASE /\ Write(job[p].f, job[p].text)
             /\ undo' = [undo EXCEPT ![job[p].f] = [@ EXCEPT ![Len(@)].flushed = TRUE]]
             /\ adrift' \in {adrift \cup {job[p].f}, adrift \ {job[p].f}}
             /\ Goes(p, job[p].f, Idle) /\ GoOn /\ UNCHANGED << registry, torn >>
    <3>1. UndoTyped
      <4>1. undo[job[p].f] \in Seq(UndoEntry) /\ Len(undo[job[p].f]) <= MaxEntries
        BY <2>1, AtWork DEF TypeInv, TypeOK
      <4> DEFINE s == [undo[job[p].f] EXCEPT ![Len(undo[job[p].f])].flushed = TRUE]
      <4>2. s \in Seq(UndoEntry) /\ Len(s) <= MaxEntries
        BY <4>1, MarkedType
      <4>3. undo' = [undo EXCEPT ![job[p].f] = s] BY <2>2
      <4> HIDE DEF s
      <4> QED BY <2>1, <4>2, <4>3, AtWork DEF TypeInv, TypeOK, UndoTyped
    <3>2. FilesTyped BY <2>1, <2>2, AtWork, FilesWritten
    <3>3. JobsTyped(p) BY <2>1, <2>2, AtWork, JobIdleTyped
    <3> QED BY <2>1, <2>2, <3>1, <3>2, <3>3, AtWork, StepType, CountsKept, MarksKept
  <2> QED BY <1>3, <2>1, <2>2, GivesUpKeepsType DEF DraftWrite
<1> QED BY <1>1, <1>2, <1>3

LEMMA ReviseKeepsType ==
    ASSUME TypeInv, [Next]_vars, NEW p \in Proc, NEW f \in File,
           NEW i \in DOMAIN undo[f], NEW text \in Hash, Revise(p, f, i, text)
    PROVE  TypeInv'
<1>1. undo[f] \in Seq(UndoEntry) /\ undo[f][i] \in UndoEntry
  BY DEF TypeInv, TypeOK
<1>2. PICK flushed \in BOOLEAN :
         /\ undo' = [undo EXCEPT ![f] = Pushed(@, Entry4(text, undo[f][i].text,
                                                         undo[f][i].previous, flushed))]
         /\ IF flushed
            THEN /\ Write(f, text)
                 /\ Goes(p, f, Work("publish", f, text, None, << >>))
            ELSE /\ Quietly(p, Idle)
                 /\ UNCHANGED << disk, cached, had >>
  BY DEF Revise
<1> DEFINE e == Entry4(text, undo[f][i].text, undo[f][i].previous, flushed)
           j == Work("publish", f, text, None, << >>)
<1>3. e \in UndoEntry BY <1>1 DEF Entry4, UndoEntry
<1>4. UndoTyped BY <1>2, <1>3, UndoPushed
<1>5. j \in Working /\ j.at = "publish" BY WorkType, Places, EmptyDone DEF Work
<1>6. JobsTyped(p) BY <1>2, <1>5, JobTyped, JobIdleTyped
<1>7. FilesTyped BY <1>2, FilesKept, FilesWritten
<1> QED BY <1>4, <1>6, <1>7, StepType, CallCounted, MarksKept DEF Revise, Start

LEMMA FlushKeepsType ==
    ASSUME TypeInv, [Next]_vars, NEW p \in Proc, NEW f \in File,
           NEW i \in DOMAIN undo[f], Flush(p, f, i)
    PROVE  TypeInv'
<1> DEFINE text == undo[f][i].text
           j == Work("flushPublish", f, text, None, << >>)
<1>1. \A g \in File : /\ undo[g] \in Seq(UndoEntry) /\ Len(undo[g]) <= MaxEntries
                      /\ \A k \in DOMAIN undo[g] : undo[g][k] \in UndoEntry
  BY DEF TypeInv, TypeOK
<1>2. text \in Hash BY <1>1 DEF UndoEntry
<1>3. UndoTyped
  <2> DEFINE s(g) == [k \in DOMAIN undo[g] |->
                 IF undo[g][k].text = text /\ FoundAt(g, k)
                 THEN [undo[g][k] EXCEPT !.flushed = TRUE] ELSE undo[g][k]]
  <2>1. ASSUME NEW g \in File
        PROVE  s(g) \in Seq(UndoEntry) /\ Len(s(g)) = Len(undo[g])
    <3>1. \A k \in DOMAIN undo[g] : [undo[g][k] EXCEPT !.flushed = TRUE] \in UndoEntry
      BY <1>1, MarkedEntry
    <3>2. DOMAIN undo[g] = 1..Len(undo[g]) /\ Len(undo[g]) \in Nat BY <1>1
    <3> DEFINE mark(k) == IF undo[g][k].text = text /\ FoundAt(g, k)
                          THEN [undo[g][k] EXCEPT !.flushed = TRUE] ELSE undo[g][k]
    <3>3. \A k \in 1..Len(undo[g]) : mark(k) \in UndoEntry BY <1>1, <3>1, <3>2
    <3>4. s(g) = [k \in 1..Len(undo[g]) |-> mark(k)] BY <3>2
    <3> HIDE DEF s, mark
    <3> QED BY <3>2, <3>3, <3>4
  <2>2. undo' = [g \in File |-> s(g)] BY DEF Flush
  <2> HIDE DEF s
  <2> QED BY <1>1, <2>1, <2>2 DEF UndoTyped
<1>4. j \in Working /\ j.at = "flushPublish"
  BY <1>2, WorkType, Places, EmptyDone DEF Work
<1>5. Goes(p, f, j) /\ Write(f, text) BY DEF Flush
<1> HIDE DEF j, text
<1>6. JobsTyped(p) BY <1>4, <1>5, JobTyped
<1>7. FilesTyped BY <1>2, <1>5, FilesWritten
<1> QED BY <1>3, <1>6, <1>7, StepType, CallCounted, MarksKept DEF Flush, Start

\* What an undo can restore is a text.
LEMMA UndoneText ==
    ASSUME TypeInv, NEW f \in File, NEW e \in UndoEntry,
           NEW text \in IF e.previous # None THEN {e.previous} ELSE Fallbacks(e, f)
    PROVE  text \in Hash
<1>1. CASE e.previous # None BY <1>1 DEF UndoEntry
<1>2. CASE e.previous = None
  <2>1. \A g \in File : Range(undo[g]) \subseteq UndoEntry
    BY DEF TypeInv, TypeOK, Range
  <2>2. \A h \in Hash : GetOriginal(h) # None => GetOriginal(h).text \in Hash
    BY DEF TypeInv, TypeOK, TypeOKRegistry, GetOriginal, Entry
  <2>3. \A k \in DOMAIN bySource[f] : bySource[f][k] \in Hash
    BY DEF TypeInv, TypeOK, TypeOKRegistry
  <2>4. text \in Fallbacks(e, f) BY <1>2
  <2>5. CASE e.parent # None
    <3> DEFINE parents == {d \in UNION {Range(undo[g]) : g \in File} \ {e} : d.text = e.parent}
    <3>1. e.parent \in Hash BY <2>5 DEF UndoEntry
    <3>2. CASE parents # {}
      <4>1. PICK d \in parents : text = IF d.previous # None THEN d.previous ELSE d.text
        BY <2>4, <2>5, <3>2 DEF Fallbacks
      <4>2. d \in UndoEntry BY <2>1
      <4> QED BY <4>1, <4>2 DEF UndoEntry
    <3>3. CASE parents = {}
      <4>1. text \in IF GetOriginal(e.parent) # None
                     THEN {GetOriginal(e.parent).text} ELSE {}
        BY <2>4, <2>5, <3>3 DEF Fallbacks
      <4> QED BY <2>2, <3>1, <4>1
    <3> QED BY <3>2, <3>3
  <2>6. CASE e.parent = None
    <3>1. PICK k \in DOMAIN bySource[f] : text = GetOriginal(bySource[f][k]).text
      BY <2>4, <2>6 DEF Fallbacks
    <3>2. GetOriginal(bySource[f][k]) \in Entry
      BY DEF TypeInv, ListedKnown, GetOriginal
    <3> QED BY <3>1, <3>2 DEF Entry
  <2> QED BY <2>5, <2>6
<1> QED BY <1>1, <1>2

LEMMA UndoKeepsType ==
    ASSUME TypeInv, [Next]_vars, NEW p \in Proc, NEW f \in File,
           NEW i \in DOMAIN undo[f], Undo(p, f, i)
    PROVE  TypeInv'
<1> DEFINE e == undo[f][i]
<1>1. undo[f] \in Seq(UndoEntry) /\ Len(undo[f]) <= MaxEntries /\ e \in UndoEntry
  BY DEF TypeInv, TypeOK
<1>2. UndoTyped
  <2>1. RemoveAt(undo[f], i) \in Seq(UndoEntry) /\ Len(RemoveAt(undo[f], i)) = Len(undo[f]) - 1
    BY <1>1, RemoveAtType
  <2>2. Len(RemoveAt(undo[f], i)) <= MaxEntries BY <1>1, <2>1, BoundsAssumption
  <2>3. undo' = [undo EXCEPT ![f] = RemoveAt(undo[f], i)] BY DEF Undo
  <2> QED BY <2>1, <2>2, <2>3 DEF TypeInv, TypeOK, UndoTyped
<1>3. CASE /\ Quietly(p, Idle)
           /\ UNCHANGED << disk, cached, had >>
  BY <1>2, <1>3, StepType, JobIdleTyped, FilesKept, CallCounted, MarksKept DEF Undo, Start
<1>4. ASSUME NEW text \in IF e.previous # None THEN {e.previous} ELSE Fallbacks(e, f),
             Write(f, text), Goes(p, f, Work("publish", f, text, None, << >>))
      PROVE  TypeInv'
  <2>1. text \in Hash BY <1>1, UndoneText
  <2> DEFINE j == Work("publish", f, text, None, << >>)
  <2>2. j \in Working /\ j.at = "publish" BY <2>1, WorkType, Places, EmptyDone DEF Work
  <2>3. JobsTyped(p) BY <1>4, <2>2, JobTyped
  <2>4. FilesTyped BY <1>4, <2>1, FilesWritten
  <2> QED BY <1>2, <2>3, <2>4, StepType, CallCounted, MarksKept DEF Undo, Start
<1> QED BY <1>3, <1>4 DEF Undo

LEMMA PublishKeepsType ==
    ASSUME TypeInv, [Next]_vars, NEW p \in Proc,
           PublishAndReturn(p) \/ FlushPublish(p) \/ ContextRegister(p)
    PROVE  TypeInv'
<1>1. job[p].at # "idle" BY DEF PublishAndReturn, FlushPublish, ContextRegister
<1>2. Quietly(p, Idle) \/ Goes(p, job[p].f, Idle)
  BY DEF PublishAndReturn, FlushPublish, ContextRegister
<1>3. /\ GoOn /\ UNCHANGED << disk, cached, undo, had, torn >>
      /\ adrift' \in {adrift, adrift \cup {job[p].f}, adrift \ {job[p].f}}
  BY DEF PublishAndReturn, FlushPublish, ContextRegister, Publish
<1>4. JobsTyped(p) BY <1>1, <1>2, AtWork, JobIdleTyped
<1>5. MarksTyped BY <1>1, <1>3, AtWork, MarksKept
<1> QED BY <1>3, <1>4, <1>5, StepType, FilesKept, UndoKept, CountsKept

LEMMA BatchReadKeepsType ==
    ASSUME TypeInv, [Next]_vars, NEW p \in Proc, NEW f \in File, NEW text \in Hash,
           BatchRead(p, f, text)
    PROVE  TypeInv'
<1> DEFINE done == IF job[p] = Idle THEN << >> ELSE job[p].done
           j == Work("batchWrite", f, text, disk[f], done)
<1>1. disk[f] \in Hash BY DEF BatchRead, TypeInv, TypeOK
<1>2. done \in Seq(DoneEdit)
  <2>1. CASE job[p] = Idle BY <2>1, EmptyDone
  <2>2. CASE job[p] # Idle
    <3>1. job[p] \in Working BY <2>2 DEF TypeInv, TypeOK
    <3> QED BY <2>2, <3>1 DEF Working
  <2> QED BY <2>1, <2>2
<1>3. j \in Working /\ j.at = "batchWrite" /\ j.old \in Hash
  BY <1>1, <1>2, WorkType, Places DEF Work
<1>4. JobsTyped(p) BY <1>3, JobTyped DEF BatchRead
<1> QED BY <1>4, StepType, FilesKept, UndoKept, CallCounted, MarksKept DEF BatchRead, Start

LEMMA BatchWriteKeepsType ==
    ASSUME TypeInv, [Next]_vars, NEW p \in Proc, BatchWrite(p)
    PROVE  TypeInv'
<1> DEFINE f == job[p].f
           j == [job[p] EXCEPT !.at = "batchRecord", !.late = FALSE]
<1>1. job[p].at # "idle" BY DEF BatchWrite
<1>2. j \in Working /\ j.at = "batchRecord" /\ j.old \in Hash
  <2>1. j \in Working /\ j.at = "batchRecord" BY <1>1, AtWork, MovesOn, Places
  <2>2. j.old = job[p].old BY <1>1, AtWork, KeepsOld, Places
  <2> QED BY <2>1, <2>2 DEF BatchWrite, TypeInv, BatchReadText
<1>3. CASE /\ disk[f] # None
           /\ SnapshotText(f) = job[p].old
           /\ disk' = [disk EXCEPT ![f] = job[p].text]
           /\ cached' = [cached EXCEPT ![f] = [text |-> job[p].old, current |-> FALSE]]
           /\ had' = [had EXCEPT ![f] = @ \cup {job[p].text}]
           /\ Goes(p, f, j) /\ GoOn
           /\ UNCHANGED << registry, undo, torn, adrift >>
  <2>1. job[p].old \in Hash
    BY <1>1, <1>3, AtWork DEF SnapshotText, TypeInv, TypeOK, Cached
  <2>2. [text |-> job[p].old, current |-> FALSE] \in Cached BY <2>1 DEF Cached
  <2>3. FilesTyped BY <1>1, <1>3, <2>2, AtWork DEF TypeInv, TypeOK, FilesTyped
  <2>4. JobsTyped(p) BY <1>1, <1>2, <1>3, AtWork, JobTyped
  <2> QED BY <1>1, <1>3, <2>3, <2>4, AtWork, StepType, UndoKept, CountsKept, MarksKept
<1>4. CASE /\ ReadSnapshot(f) /\ Quietly(p, Idle) /\ GoOn
           /\ UNCHANGED << registry, disk, undo, had, adrift >>
  <2>1. FilesTyped /\ torn' \subseteq File BY <1>1, <1>4, AtWork, FilesRead
  <2> QED BY <1>1, <1>4, <2>1, AtWork, StepType, JobIdleTyped, UndoKept, CountsKept, MarksKept
<1> QED BY <1>1, <1>3, <1>4, GivesUpKeepsType DEF BatchWrite

LEMMA BatchRecordKeepsType ==
    ASSUME TypeInv, [Next]_vars, NEW p \in Proc, BatchRecord(p)
    PROVE  TypeInv'
<1>1. job[p].at # "idle" BY DEF BatchRecord
<1>2. job[p].old \in Hash BY DEF BatchRecord, TypeInv, BatchReadText
<1> DEFINE d == [f |-> job[p].f, text |-> job[p].text, old |-> job[p].old]
<1>3. PICK at \in {"batchNext", "batchPush"} :
         Goes(p, job[p].f, [job[p] EXCEPT !.at = at, !.done = Append(@, d)])
  BY DEF BatchRecord
<1> DEFINE j == [job[p] EXCEPT !.at = at, !.done = Append(@, d)]
<1>4. d \in DoneEdit BY <1>1, <1>2, AtWork DEF DoneEdit
<1>5. Append(job[p].done, d) \in Seq(DoneEdit)
      /\ Append(job[p].done, d) # << >>
  <2> HIDE DEF d
  <2> QED BY <1>1, <1>4, AtWork
<1>6. at \in Place BY Places
<1>7. j \in Working /\ j.done # << >> /\ j.at \notin {"batchWrite", "batchRecord"}
  <2>1. job[p] \in Working BY <1>1, AtWork
  <2> DEFINE done == Append(job[p].done, d)
  <2>2. done \in Seq(DoneEdit) /\ done # << >> BY <1>5
  <2> HIDE DEF done
  <2>3. j = [job[p] EXCEPT !.at = at, !.done = done] BY DEF done
  <2>4. PICK w \in Working : w = job[p] BY <2>1
  <2>5. /\ [w EXCEPT !.at = at, !.done = done] \in Working
        /\ [w EXCEPT !.at = at, !.done = done].at = at
        /\ [w EXCEPT !.at = at, !.done = done].done = done
    BY <2>2, <1>6 DEF Working
  <2> HIDE DEF j
  <2> QED BY <2>2, <2>3, <2>4, <2>5
<1>8. JobsTyped(p) BY <1>1, <1>3, <1>7, AtWork, JobTyped
<1>9. FilesTyped /\ torn' \subseteq File BY <1>1, AtWork, FilesRecorded DEF BatchRecord
<1> QED BY <1>1, <1>8, <1>9, AtWork, StepType, UndoKept, CountsKept, MarksKept
    DEF BatchRecord, Publish

LEMMA BatchPushKeepsType ==
    ASSUME TypeInv, [Next]_vars, NEW p \in Proc, BatchPush(p)
    PROVE  TypeInv'
<1> DEFINE d == Head(job[p].done)
           rest == Tail(job[p].done)
           e == Entry4(d.text, None, d.old, TRUE)
           j == [job[p] EXCEPT !.at = "batchPushRest", !.done = rest]
<1>1. job[p].at \in {"batchPush", "batchPushRest"} /\ job[p].at # "idle"
  BY DEF BatchPush
<1>2. job[p].done # << >> BY <1>1 DEF TypeInv, BatchHasEntries
<1>3. d \in DoneEdit
      /\ rest \in Seq(DoneEdit)
  BY <1>1, <1>2, AtWork
<1>4. e \in UndoEntry /\ d.f \in File BY <1>3 DEF Entry4, UndoEntry, DoneEdit
<1>5. undo' = [undo EXCEPT ![d.f] = Pushed(@, e)] BY DEF BatchPush
<1>6. UndoTyped BY <1>3, <1>4, <1>5, UndoPushed
<1>7. Quietly(p, IF rest = << >> THEN Idle ELSE j) BY DEF BatchPush
<1>8. j \in Working /\ j.done = rest /\ j.at = "batchPushRest"
  <2>1. job[p] \in Working BY <1>1, AtWork
  <2>2. rest \in Seq(DoneEdit) BY <1>3
  <2>3. "batchPushRest" \in Place BY Places
  <2> HIDE DEF rest
  <2>4. PICK w \in Working : w = job[p] BY <2>1
  <2>5. /\ [w EXCEPT !.at = "batchPushRest", !.done = rest] \in Working
        /\ [w EXCEPT !.at = "batchPushRest", !.done = rest].done = rest
        /\ [w EXCEPT !.at = "batchPushRest", !.done = rest].at = "batchPushRest"
    BY <2>2, <2>3 DEF Working
  <2>6. j = [w EXCEPT !.at = "batchPushRest", !.done = rest] BY <2>4
  <2> HIDE DEF j
  <2> QED BY <2>5, <2>6
<1>9. JobsTyped(p)
  <2> HIDE DEF j, rest
  <2>1. CASE rest = << >> BY <1>1, <1>7, <2>1, AtWork, JobIdleTyped
  <2>2. CASE rest # << >> BY <1>1, <1>7, <1>8, <2>2, AtWork, JobTyped
  <2> QED BY <2>1, <2>2
<1> QED BY <1>1, <1>6, <1>9, AtWork, StepType, FilesKept, CountsKept, MarksKept DEF BatchPush

LEMMA FileCommandsKeepType ==
    ASSUME TypeInv, [Next]_vars, NEW p \in Proc,
           \/ \E f \in File, text \in Hash : CreateFile(p, f, text) \/ WriteFile(p, f, text)
           \/ \E f \in File : DeletePath(p, f) \/ ContextRead(p, f)
           \/ CreateRecord(p) \/ DeleteInvalidate(p)
    PROVE  TypeInv'
<1>1. ASSUME NEW f \in File, NEW text \in Hash, CreateFile(p, f, text) PROVE TypeInv'
  <2> DEFINE j == Work("createRecord", f, text, None, << >>)
  <2>1. j \in Working /\ j.at = "createRecord" BY WorkType, Places, EmptyDone DEF Work
  <2>2. JobsTyped(p) BY <1>1, <2>1, JobTyped DEF CreateFile
  <2>3. FilesTyped BY <1>1, FilesWritten DEF CreateFile
  <2> QED BY <1>1, <2>2, <2>3, StepType, UndoKept, CallCounted, MarksKept
      DEF CreateFile, Start
<1>2. ASSUME NEW f \in File, NEW text \in Hash, WriteFile(p, f, text) PROVE TypeInv'
  <2> DEFINE j == Work("publish", f, text, None, << >>)
  <2>1. j \in Working /\ j.at = "publish" BY WorkType, Places, EmptyDone DEF Work
  <2>2. JobsTyped(p) BY <1>2, <2>1, JobTyped DEF WriteFile
  <2>3. FilesTyped BY <1>2, FilesWritten DEF WriteFile
  <2> QED BY <1>2, <2>2, <2>3, StepType, UndoKept, CallCounted, MarksKept
      DEF WriteFile, Start
<1>3. ASSUME NEW f \in File, DeletePath(p, f) PROVE TypeInv'
  <2> DEFINE j == Work("invalidate", f, disk[f], None, << >>)
  <2>1. disk[f] \in Hash BY <1>3 DEF DeletePath, TypeInv, TypeOK
  <2>2. j \in Working /\ j.at = "invalidate" BY <2>1, WorkType, Places, EmptyDone DEF Work
  <2>3. JobsTyped(p) BY <1>3, <2>2, JobTyped DEF DeletePath
  <2>4. FilesTyped BY <1>3, FilesWritten DEF DeletePath
  <2> QED BY <1>3, <2>3, <2>4, StepType, UndoKept, CallCounted, MarksKept
      DEF DeletePath, Start
<1>4. ASSUME NEW f \in File, ContextRead(p, f) PROVE TypeInv'
  <2> DEFINE w == Work("contextRegister", f, SnapshotText(f), None, << >>)
             j == [w EXCEPT !.late = f \in torn']
  <2>1. FilesTyped /\ torn' \subseteq File /\ SnapshotText(f) \in Hash
    BY <1>4, FilesRead DEF ContextRead
  <2>2. w \in Working /\ w.at = "contextRegister"
    BY <2>1, WorkType, Places, EmptyDone DEF Work
  <2>3. Quietly(p, j) BY <1>4 DEF ContextRead, Quietly
  <2>4. j \in Working /\ j.at = "contextRegister"
    <3>1. PICK v \in Working : v = w BY <2>2
    <3>2. ASSUME NEW b \in BOOLEAN
          PROVE  /\ [v EXCEPT !.late = b] \in Working
                 /\ [v EXCEPT !.late = b].at = v.at
      BY DEF Working
    <3> HIDE DEF w
    <3>3. (f \in torn') \in BOOLEAN OBVIOUS
    <3>4. j = [v EXCEPT !.late = f \in torn'] BY <3>1
    <3> QED BY <2>2, <3>1, <3>2, <3>3, <3>4
  <2>5. JobsTyped(p) BY <2>3, <2>4, JobTyped
  <2> QED BY <1>4, <2>1, <2>5, StepType, UndoKept, CallCounted, MarksKept
      DEF ContextRead, Start
<1>5. CASE CreateRecord(p)
  <2> DEFINE j == [job[p] EXCEPT !.at = "publish"]
  <2>1. job[p].at # "idle" BY <1>5 DEF CreateRecord
  <2>2. j \in Working /\ j.at = "publish" BY <2>1, AtWork, MovesOn, Places
  <2>3. JobsTyped(p) BY <1>5, <2>1, <2>2, AtWork, JobTyped DEF CreateRecord
  <2>4. FilesTyped /\ torn' \subseteq File
    BY <1>5, <2>1, AtWork, FilesRecorded DEF CreateRecord
  <2> QED BY <1>5, <2>1, <2>3, <2>4, AtWork, StepType, UndoKept, CountsKept, MarksKept
      DEF CreateRecord
<1>6. CASE DeleteInvalidate(p)
  <2>1. job[p].at # "idle" BY <1>6 DEF DeleteInvalidate
  <2> QED BY <1>6, <2>1, AtWork, StepType, JobIdleTyped, FilesKept, UndoKept, CountsKept,
             MarksKept DEF DeleteInvalidate
<1> QED BY <1>1, <1>2, <1>3, <1>4, <1>5, <1>6

\* A change from outside leaves every call where it is.
LEMMA WorldKeepsType ==
    ASSUME TypeInv, [Next]_vars, NEW f \in File,
           \/ \E text \in Hash \cup {None} : ExternalChange(f, text)
           \/ WatcherInvalidates(f)
    PROVE  TypeInv'
<1>1. TypeOKRegistry' /\ ListedKnown'
  BY NextIsRegistryStep, RegistryTypeStep, ListedKnownStep DEF TypeInv, TypeOK
<1>2. UndoTyped /\ CountsTyped /\ MarksTyped
  <2>1. Event /\ undo' = undo /\ torn' = torn /\ adrift' \in {adrift \cup {f}, adrift \ {f}}
    BY DEF ExternalChange, WatcherInvalidates
  <2>2. CountsTyped BY <2>1, BoundsAssumption DEF Event, CountsTyped, TypeInv, TypeOK
  <2> QED BY <2>1, <2>2, UndoKept, MarksKept
<1>3. FilesTyped
  <2>1. CASE WatcherInvalidates(f)
    BY <2>1 DEF WatcherInvalidates, FilesTyped, TypeInv, TypeOK
  <2> QED BY <2>1, FilesWritten DEF ExternalChange
<1>4. /\ job' \in Jobs
      /\ \A q \in Proc : job'[q].at = job[q].at /\ job'[q].done = job[q].done
                         /\ job'[q].old = job[q].old
  <2>1. job \in Jobs BY DEF TypeInv, TypeOK, Jobs
  <2>2. CASE WatcherInvalidates(f)
    BY <2>1, <2>2 DEF WatcherInvalidates
  <2>3. CASE job' = [q \in Proc |-> IF job[q] # Idle /\ job[q].f = f
                                    THEN [job[q] EXCEPT !.late = TRUE] ELSE job[q]]
    <3>1. ASSUME NEW q \in Proc
          PROVE  /\ job'[q] \in Working \cup {Idle}
                 /\ job'[q].at = job[q].at /\ job'[q].done = job[q].done
                 /\ job'[q].old = job[q].old
      <4>1. CASE job[q] # Idle /\ job[q].f = f
        <5>1. job'[q] = [job[q] EXCEPT !.late = TRUE] BY <2>3, <4>1
        <5>2. PICK w \in Working : w = job[q] BY <2>1, <4>1 DEF Jobs
        <5>3. /\ [w EXCEPT !.late = TRUE] \in Working
              /\ [w EXCEPT !.late = TRUE].at = w.at
              /\ [w EXCEPT !.late = TRUE].done = w.done
              /\ [w EXCEPT !.late = TRUE].old = w.old
          BY DEF Working
        <5> QED BY <5>1, <5>2, <5>3
      <4>2. CASE ~(job[q] # Idle /\ job[q].f = f)
        <5>1. job'[q] = job[q] BY <2>3, <4>2
        <5> QED BY <2>1, <5>1 DEF Jobs
      <4> QED BY <4>1, <4>2
    <3>2. DOMAIN job' = Proc /\ job' = [q \in Proc |-> job'[q]] BY <2>3
    <3> QED BY <3>1, <3>2 DEF Jobs
  <2> QED BY <2>2, <2>3 DEF ExternalChange
<1>5. BatchHasEntries' /\ BatchReadText'
  BY <1>4 DEF TypeInv, BatchHasEntries, BatchReadText
<1> QED BY <1>1, <1>2, <1>3, <1>4, <1>5
    DEF TypeInv, TypeOK, Jobs, FilesTyped, UndoTyped, CountsTyped, MarksTyped

LEMMA InitTypes == Init => TypeInv
<1> SUFFICES ASSUME Init PROVE TypeInv OBVIOUS
<1>1. TypeOKRegistry /\ ListedKnown
  BY DEF Init, RegistryInit, TypeOKRegistry, ListedKnown
<1>2. BatchHasEntries /\ BatchReadText
  BY IdleNotWorking DEF Init, BatchHasEntries, BatchReadText
<1>3. TypeOK
  BY <1>1, BoundsAssumption DEF Init, TypeOK
<1> QED BY <1>1, <1>2, <1>3 DEF TypeInv

LEMMA StepTypes == TypeInv /\ [Next]_vars => TypeInv'
<1> SUFFICES ASSUME TypeInv, [Next]_vars PROVE TypeInv' OBVIOUS
<1>1. CASE UNCHANGED vars
  BY <1>1 DEF vars, registry, TypeInv, TypeOK, TypeOKRegistry, ListedKnown,
     BatchHasEntries, BatchReadText
<1>2. ASSUME NEW p \in Proc, Calls(p) PROVE TypeInv'
  <2>1. PICK f \in File :
        \/ \E text \in Hash :
              \/ LineEditsRead(p, f, text) \/ Draft(p, f, text)
              \/ \E i \in DOMAIN undo[f] : Revise(p, f, i, text)
              \/ BatchRead(p, f, text) \/ CreateFile(p, f, text) \/ WriteFile(p, f, text)
        \/ \E i \in DOMAIN undo[f] : Flush(p, f, i) \/ Undo(p, f, i)
        \/ DeletePath(p, f) \/ ContextRead(p, f)
    BY <1>2 DEF Calls
  <2> QED BY <2>1, LineEditsKeepsType, DraftKeepsType, ReviseKeepsType, BatchReadKeepsType,
             FileCommandsKeepType, FlushKeepsType, UndoKeepsType
<1>3. ASSUME NEW p \in Proc, Steps(p) PROVE TypeInv'
  <2>1. CASE BatchFails(p)
    BY <2>1, GivesUpKeepsType DEF BatchFails
  <2> QED BY <1>3, <2>1, LineEditsKeepsType, DraftKeepsType, PublishKeepsType,
             BatchWriteKeepsType, BatchRecordKeepsType, BatchPushKeepsType,
             FileCommandsKeepType DEF Steps
<1>4. CASE \E f \in File : \/ \E text \in Hash \cup {None} : ExternalChange(f, text)
                           \/ WatcherInvalidates(f)
  BY <1>4, WorldKeepsType
<1> QED BY <1>1, <1>2, <1>3, <1>4 DEF Next

LEMMA TypesHold == Spec => []TypeInv
BY InitTypes, StepTypes, PTL DEF Spec

\* Every variable keeps its type, and no undo stack outgrows the limit
\* (push_undo_entry).
THEOREM BackendTypeCorrect == Spec => []TypeOK
<1>1. TypeInv => TypeOK BY DEF TypeInv
<1> QED BY <1>1, TypesHold, PTL

\* The commands use the registry as HashRegistry describes it.
THEOREM BackendUsesRegistry == Spec => RegistrySpec
<1>1. Init => RegistryInit BY DEF Init
<1>2. TypeInv /\ [Next]_vars => [RegistryNext]_registry
  BY NextIsRegistryStep DEF TypeInv
<1> QED BY <1>1, <1>2, TypesHold, PTL DEF Spec, RegistrySpec

\* So in the running back end, too, every listed hash leads to the latest text.
THEOREM BackendForwards == Spec => []ForwardsToLatest
BY BackendUsesRegistry, RegistryForwards, PTL

(***************************************************************************)
(* The disk, the snapshot cache and the registry.                          *)
(***************************************************************************)
\* Where a call is that registers next what it last wrote or read.
RightPlaces == {"record", "register", "publish", "flushPublish", "createRecord",
                "batchRecord", "contextRegister"}

\* Where a call is between changing a file and telling the registry.
OwnPlaces == {"record", "register", "publish", "flushPublish", "createRecord",
              "batchRecord", "invalidate"}

\* A call that nobody overtook holds what is on disk.
JobRight ==
    \A p \in Proc : job[p].at \in RightPlaces /\ ~job[p].late
        => disk[job[p].f] = job[p].text

\* A draft about to be written was the last to be registered.
DraftRight ==
    \A p \in Proc : job[p].at = "draftWrite" /\ ~job[p].late
        => latest[job[p].f] \in {job[p].text, None}

\* A registered file that is not there is about to be invalidated.
Deleted ==
    \A f \in File \ adrift : disk[f] = None /\ latest[f] # None
        => \E p \in Proc : job[p].at = "invalidate" /\ job[p].f = f

\* A file no call has still to register is registered as it is.
Settled ==
    \A f \in File \ adrift :
        latest[f] # None /\ (\A p \in Proc : job[p].at \in OwnPlaces => job[p].f # f)
            => latest[f] = disk[f]

Coherent == JobRight /\ DraftRight /\ Deleted /\ Settled /\ CacheHitIsDisk

LEMMA OthersFacts ==
    ASSUME NEW p \in Proc, NEW f \in File, Others(p, f), NEW q \in Proc, q # p
    PROVE  /\ job'[q].at = job[q].at /\ job'[q].f = job[q].f /\ job'[q].text = job[q].text
           /\ job[q].at # "idle" /\ ~job'[q].late => ~job[q].late /\ job[q].f # f
BY IdleNotWorking DEF Others

LEMMA JobGoes ==
    ASSUME TypeInv, NEW p \in Proc, NEW f \in File, NEW j \in Working \cup {Idle}, Goes(p, f, j)
    PROVE  job'[p] = j /\ Others(p, f)
BY GoesFacts DEF TypeInv, TypeOK, Jobs

LEMMA JobQuietly ==
    ASSUME TypeInv, NEW p \in Proc, NEW j \in Working \cup {Idle}, Quietly(p, j)
    PROVE  job'[p] = j /\ \A q \in Proc : q # p => job'[q] = job[q]
BY QuietlyFacts DEF TypeInv, TypeOK, Jobs, OthersRest

LEMMA DiskTypes ==
    ASSUME TypeInv
    PROVE  disk \in [File -> Hash \cup {None}] /\ latest \in [File -> Hash \cup {None}]
BY DEF TypeInv, TypeOK, TypeOKRegistry

\* A write leaves no current snapshot of the file.
LEMMA WriteUncaches ==
    ASSUME TypeInv, CacheHitIsDisk, NEW f \in File, NEW text \in Hash \cup {None},
           Write(f, text), torn' = torn
    PROVE  CacheHitIsDisk' /\ disk' = [disk EXCEPT ![f] = text]
<1>1. cached[f] # None => ~([cached[f] EXCEPT !.current = FALSE]).current
  BY DEF TypeInv, TypeOK, Cached
<1> QED BY <1>1 DEF Write, CacheHitIsDisk, TypeInv, TypeOK

\* A step that changes a file and goes on to register the change.
LEMMA WriteCoherent ==
    ASSUME TypeInv, Coherent, NEW p \in Proc, NEW f \in File, NEW j \in Working,
           NEW text \in Hash \cup {None},
           Goes(p, f, j), j.f = f, j.at \in OwnPlaces,
           IF text = None THEN j.at = "invalidate"
           ELSE j.at # "invalidate" /\ j.text = text,
           disk' = [disk EXCEPT ![f] = text], CacheHitIsDisk',
           latest' = latest, adrift' = adrift,
           job[p].at \in OwnPlaces => job[p].f = f
    PROVE  Coherent'
<1>1. job'[p] = j /\ Others(p, f) BY JobGoes
<1>2. j.at # "idle" /\ j.at # "draftWrite" BY DEF OwnPlaces
<1>3. JobRight'
  <2>1. ASSUME NEW q \in Proc, job'[q].at \in RightPlaces, ~job'[q].late
        PROVE  disk'[job'[q].f] = job'[q].text
    <3>1. CASE q = p BY <1>1, <2>1, <3>1, DiskTypes DEF RightPlaces
    <3>2. CASE q # p
      <4>1. job[q].at # "idle" BY <1>1, <2>1, <3>2, OthersFacts DEF RightPlaces
      <4>2. job[q].f \in File BY <4>1, AtWork
      <4> QED BY <1>1, <2>1, <3>2, <4>1, <4>2, OthersFacts, DiskTypes DEF Coherent, JobRight
    <3> QED BY <3>1, <3>2
  <2> QED BY <2>1 DEF JobRight
<1>4. DraftRight'
  <2>1. ASSUME NEW q \in Proc, job'[q].at = "draftWrite", ~job'[q].late
        PROVE  latest'[job'[q].f] \in {job'[q].text, None}
    <3>1. q # p BY <1>1, <1>2, <2>1
    <3> QED BY <1>1, <2>1, <3>1, OthersFacts DEF Coherent, DraftRight
  <2> QED BY <2>1 DEF DraftRight
<1>5. Deleted'
  <2>1. ASSUME NEW g \in File \ adrift, disk'[g] = None, latest[g] # None
        PROVE  \E q \in Proc : job'[q].at = "invalidate" /\ job'[q].f = g
    <3>1. CASE g = f BY <1>1, <2>1, <3>1, DiskTypes
    <3>2. CASE g # f
      <4>1. PICK q \in Proc : job[q].at = "invalidate" /\ job[q].f = g
        BY <2>1, <3>2, DiskTypes DEF Coherent, Deleted
      <4>2. q # p BY <3>2, <4>1 DEF OwnPlaces
      <4> QED BY <1>1, <4>1, <4>2, OthersFacts
    <3> QED BY <3>1, <3>2
  <2> QED BY <2>1 DEF Deleted
<1>6. Settled'
  <2>1. ASSUME NEW g \in File \ adrift, latest[g] # None,
               \A q \in Proc : job'[q].at \in OwnPlaces => job'[q].f # g
        PROVE  latest[g] = disk'[g]
    <3>1. g # f BY <1>1, <2>1
    <3>2. \A q \in Proc : job[q].at \in OwnPlaces => job[q].f # g
      BY <1>1, <2>1, <3>1, OthersFacts
    <3> QED BY <2>1, <3>1, <3>2, DiskTypes DEF Coherent, Settled
  <2> QED BY <2>1 DEF Settled
<1> QED BY <1>3, <1>4, <1>5, <1>6 DEF Coherent

\* A step that registers what its call holds.
LEMMA RegisterCoherent ==
    ASSUME TypeInv, Coherent, NEW p \in Proc, NEW j \in Working \cup {Idle},
           job[p].at \in RightPlaces, Goes(p, job[p].f, j),
           j.at \notin RightPlaces \cup {"draftWrite"},
           disk' = disk, CacheHitIsDisk',
           latest' = [latest EXCEPT ![job[p].f] = job[p].text],
           adrift' = IF job[p].late THEN adrift \cup {job[p].f} ELSE adrift \ {job[p].f}
    PROVE  Coherent'
<1> DEFINE f == job[p].f
<1>1. job[p].at # "idle" /\ job[p].at # "invalidate" BY DEF RightPlaces
<1>2. f \in File /\ job[p].text \in Hash /\ job[p].text # None
  BY <1>1, AtWork, NoneAssumption
<1>3. job'[p] = j /\ Others(p, f) BY <1>2, JobGoes
<1>4. f \notin adrift' => disk[f] = job[p].text
  BY <1>2 DEF Coherent, JobRight
<1>5. JobRight'
  <2>1. ASSUME NEW q \in Proc, job'[q].at \in RightPlaces, ~job'[q].late
        PROVE  disk'[job'[q].f] = job'[q].text
    <3>1. q # p BY <1>3, <2>1
    <3>2. job[q].at # "idle" BY <1>2, <1>3, <2>1, <3>1, OthersFacts DEF RightPlaces
    <3> QED BY <1>2, <1>3, <2>1, <3>1, <3>2, OthersFacts DEF Coherent, JobRight
  <2> QED BY <2>1 DEF JobRight
<1>6. DraftRight'
  <2>1. ASSUME NEW q \in Proc, job'[q].at = "draftWrite", ~job'[q].late
        PROVE  latest'[job'[q].f] \in {job'[q].text, None}
    <3>1. q # p BY <1>3, <2>1
    <3>2. job[q].at # "idle" BY <1>2, <1>3, <2>1, <3>1, OthersFacts
    <3>3. job[q].f # f /\ job[q].f \in File
      BY <1>2, <1>3, <2>1, <3>1, <3>2, OthersFacts, AtWork
    <3> QED BY <1>2, <1>3, <2>1, <3>1, <3>2, <3>3, OthersFacts, DiskTypes
        DEF Coherent, DraftRight
  <2> QED BY <2>1 DEF DraftRight
<1>7. Deleted'
  <2>1. ASSUME NEW g \in File, g \notin adrift', disk[g] = None, latest'[g] # None
        PROVE  \E q \in Proc : job'[q].at = "invalidate" /\ job'[q].f = g
    <3>1. g # f BY <1>2, <1>4, <2>1
    <3>2. PICK q \in Proc : job[q].at = "invalidate" /\ job[q].f = g
      BY <1>2, <2>1, <3>1, DiskTypes DEF Coherent, Deleted
    <3>3. q # p BY <1>1, <3>2
    <3> QED BY <1>2, <1>3, <3>2, <3>3, OthersFacts
  <2> QED BY <2>1 DEF Deleted
<1>8. Settled'
  <2>1. ASSUME NEW g \in File, g \notin adrift', latest'[g] # None,
               \A q \in Proc : job'[q].at \in OwnPlaces => job'[q].f # g
        PROVE  latest'[g] = disk[g]
    <3>1. CASE g = f BY <1>2, <1>4, <2>1, <3>1, DiskTypes
    <3>2. CASE g # f
      <4>1. \A q \in Proc : job[q].at \in OwnPlaces => job[q].f # g
        BY <1>2, <1>3, <2>1, <3>2, OthersFacts
      <4> QED BY <1>2, <2>1, <3>2, <4>1, DiskTypes DEF Coherent, Settled
    <3> QED BY <3>1, <3>2
  <2> QED BY <2>1 DEF Settled
<1> QED BY <1>5, <1>6, <1>7, <1>8 DEF Coherent

\* A step that changes no file and registers nothing.
LEMMA QuietCoherent ==
    ASSUME TypeInv, Coherent, NEW p \in Proc, NEW j \in Working \cup {Idle}, Quietly(p, j),
           j.at \notin {"draftWrite", "invalidate"},
           j.at \in RightPlaces /\ ~j.late => disk[j.f] = j.text,
           job[p].at \in OwnPlaces
               => job[p].at # "invalidate" /\ j.at \in OwnPlaces /\ j.f = job[p].f,
           disk' = disk, latest' = latest, adrift' = adrift, CacheHitIsDisk'
    PROVE  Coherent'
<1>1. job'[p] = j /\ \A q \in Proc : q # p => job'[q] = job[q] BY JobQuietly
<1>2. JobRight' /\ DraftRight'
  BY <1>1 DEF Coherent, JobRight, DraftRight
<1>3. Deleted'
  <2>1. ASSUME NEW q \in Proc, job[q].at = "invalidate" PROVE q # p
    BY <2>1 DEF OwnPlaces
  <2> QED BY <1>1, <2>1 DEF Coherent, Deleted
<1>4. Settled'
  <2>1. ASSUME NEW g \in File, \A q \in Proc : job'[q].at \in OwnPlaces => job'[q].f # g
        PROVE  \A q \in Proc : job[q].at \in OwnPlaces => job[q].f # g
    BY <1>1, <2>1
  <2> QED BY <2>1 DEF Coherent, Settled
<1> QED BY <1>2, <1>3, <1>4 DEF Coherent

LEMMA LatestKept ==
    ASSUME UNCHANGED registry
    PROVE  latest' = latest
BY DEF registry

LEMMA CacheKept ==
    ASSUME CacheHitIsDisk, UNCHANGED << disk, cached, torn >>
    PROVE  CacheHitIsDisk'
BY DEF CacheHitIsDisk

\* A call that records its write knows what is on disk, or the file is torn.
LEMMA RecordCaches ==
    ASSUME TypeInv, Coherent, NEW p \in Proc, job[p].at \in RightPlaces,
           RecordWrite(p, job[p].f, job[p].text), disk' = disk
    PROVE  CacheHitIsDisk'
<1>1. job[p].at # "idle" BY DEF RightPlaces
<1>2. job[p].f \in File BY <1>1, AtWork
<1>3. ~job[p].late => disk[job[p].f] = job[p].text BY DEF Coherent, JobRight
<1> QED BY <1>2, <1>3 DEF RecordWrite, Coherent, CacheHitIsDisk, TypeInv, TypeOK

LEMMA ReadCaches ==
    ASSUME TypeInv, CacheHitIsDisk, NEW f \in File, ReadSnapshot(f), disk' = disk
    PROVE  CacheHitIsDisk' /\ (f \notin torn' => SnapshotText(f) = disk[f])
BY DEF ReadSnapshot, SnapshotText, CacheHitIsDisk, TypeInv, TypeOK

LEMMA GivesUpCoherent ==
    ASSUME TypeInv, Coherent, NEW p \in Proc, job[p].at \notin OwnPlaces, GivesUp(p)
    PROVE  Coherent'
BY QuietCoherent, IdleNotWorking, CacheKept, LatestKept DEF GivesUp, RightPlaces, Coherent

LEMMA CallsCoherent ==
    ASSUME TypeInv, Coherent, NEW p \in Proc, Calls(p)
    PROVE  Coherent'
<1> USE IdleNotWorking
<1>1. ASSUME NEW f \in File, NEW text \in Hash, LineEditsRead(p, f, text) PROVE Coherent'
  <2> DEFINE j == Work("write", f, text, disk[f], << >>)
  <2>1. disk[f] \in Hash BY <1>1 DEF LineEditsRead, TypeInv, TypeOK
  <2>2. j \in Working /\ j.at = "write" BY <2>1, WorkType, Places, EmptyDone DEF Work
  <2>3. job[p].at \notin OwnPlaces BY <1>1 DEF LineEditsRead, Start, OwnPlaces
  <2> QED BY <1>1, <2>2, <2>3, QuietCoherent, CacheKept, LatestKept
      DEF LineEditsRead, RightPlaces, Coherent
<1>2. ASSUME NEW f \in File, NEW text \in Hash, Draft(p, f, text) PROVE Coherent'
  <2> DEFINE j == Work("draftRegister", f, text, disk[f], << >>)
  <2>1. disk[f] \in Hash \cup {None} BY DEF TypeInv, TypeOK
  <2>2. j \in Working /\ j.at = "draftRegister" BY <2>1, WorkType, Places, EmptyDone DEF Work
  <2>3. job[p].at \notin OwnPlaces BY <1>2 DEF Draft, Start, OwnPlaces
  <2> QED BY <1>2, <2>2, <2>3, QuietCoherent, CacheKept, LatestKept
      DEF Draft, RightPlaces, Coherent
<1>3. ASSUME NEW f \in File, NEW text \in Hash, NEW at \in OwnPlaces \ {"invalidate"},
             job[p] = Idle, Write(f, text), Goes(p, f, Work(at, f, text, None, << >>)),
             UNCHANGED << registry, torn, adrift >>
      PROVE  Coherent'
  <2> DEFINE j == Work(at, f, text, None, << >>)
  <2>1. at \in Place BY DEF OwnPlaces, Place
  <2>2. j \in Working BY <2>1, WorkType, EmptyDone
  <2>3. j.at = at /\ j.f = f /\ j.text = text BY DEF Work
  <2>4. CacheHitIsDisk' /\ disk' = [disk EXCEPT ![f] = text]
    BY <1>3, WriteUncaches DEF Coherent
  <2>5. job[p].at \notin OwnPlaces BY <1>3 DEF OwnPlaces
  <2> HIDE DEF j
  <2> QED BY <1>3, <2>2, <2>3, <2>4, <2>5, WriteCoherent, LatestKept, NoneAssumption DEF j
<1>4. ASSUME NEW f \in File, NEW text \in Hash, CreateFile(p, f, text) PROVE Coherent'
  <2>1. "createRecord" \in OwnPlaces \ {"invalidate"} BY DEF OwnPlaces
  <2> QED BY <1>3, <1>4, <2>1 DEF CreateFile, Start
<1>5. ASSUME NEW f \in File, NEW text \in Hash, WriteFile(p, f, text) PROVE Coherent'
  <2>1. "publish" \in OwnPlaces \ {"invalidate"} BY DEF OwnPlaces
  <2> QED BY <1>3, <1>5, <2>1 DEF WriteFile, Start
<1>6. ASSUME job[p] = Idle, Quietly(p, Idle),
             UNCHANGED << registry, disk, cached, torn, adrift >>
      PROVE  Coherent'
  <2>1. job[p].at \notin OwnPlaces /\ Idle.at \notin RightPlaces
    BY <1>6 DEF OwnPlaces, RightPlaces
  <2> QED BY <1>6, <2>1, QuietCoherent, CacheKept, LatestKept DEF Coherent
<1>7. ASSUME NEW f \in File, NEW text \in Hash, NEW i \in DOMAIN undo[f],
             Revise(p, f, i, text)
      PROVE  Coherent'
  <2>1. "publish" \in OwnPlaces \ {"invalidate"} BY DEF OwnPlaces
  <2> QED BY <1>3, <1>6, <1>7, <2>1 DEF Revise, Start
<1>8. ASSUME NEW f \in File, NEW i \in DOMAIN undo[f], Flush(p, f, i) PROVE Coherent'
  <2>1. "flushPublish" \in OwnPlaces \ {"invalidate"} BY DEF OwnPlaces
  <2>2. undo[f][i].text \in Hash
    <3>1. undo[f][i] \in UndoEntry BY DEF TypeInv, TypeOK
    <3> QED BY <3>1 DEF UndoEntry
  <2> QED BY <1>3, <1>8, <2>1, <2>2 DEF Flush, Start
<1>9. ASSUME NEW f \in File, NEW i \in DOMAIN undo[f], Undo(p, f, i) PROVE Coherent'
  <2>1. "publish" \in OwnPlaces \ {"invalidate"} BY DEF OwnPlaces
  <2>2. undo[f][i] \in UndoEntry BY DEF TypeInv, TypeOK
  <2>3. \A text \in IF undo[f][i].previous # None
                    THEN {undo[f][i].previous} ELSE Fallbacks(undo[f][i], f) : text \in Hash
    BY <2>2, UndoneText
  <2> QED BY <1>3, <1>6, <1>9, <2>1, <2>3 DEF Undo, Start
<1>10. ASSUME NEW f \in File, NEW text \in Hash, BatchRead(p, f, text) PROVE Coherent'
  <2> DEFINE done == IF job[p] = Idle THEN << >> ELSE job[p].done
             j == Work("batchWrite", f, text, disk[f], done)
  <2>1. disk[f] \in Hash BY <1>10 DEF BatchRead, TypeInv, TypeOK
  <2>2. done \in Seq(DoneEdit)
    <3>1. CASE job[p] = Idle BY <3>1, EmptyDone
    <3>2. CASE job[p] # Idle
      <4>1. job[p] \in Working BY <3>2 DEF TypeInv, TypeOK
      <4> QED BY <3>2, <4>1 DEF Working
    <3> QED BY <3>1, <3>2
  <2>3. j \in Working /\ j.at = "batchWrite" BY <2>1, <2>2, WorkType, Places DEF Work
  <2>4. job[p].at \notin OwnPlaces BY <1>10 DEF BatchRead, Start, OwnPlaces
  <2> HIDE DEF done
  <2> QED BY <1>10, <2>3, <2>4, QuietCoherent, CacheKept, LatestKept
      DEF BatchRead, RightPlaces, Coherent, done
<1>11. ASSUME NEW f \in File, DeletePath(p, f) PROVE Coherent'
  <2> DEFINE j == Work("invalidate", f, disk[f], None, << >>)
  <2>1. disk[f] \in Hash BY <1>11 DEF DeletePath, TypeInv, TypeOK
  <2>2. j \in Working BY <2>1, WorkType, Places, EmptyDone
  <2>3. j.at = "invalidate" /\ j.f = f /\ j.at \in OwnPlaces BY DEF Work, OwnPlaces
  <2>4. CacheHitIsDisk' /\ disk' = [disk EXCEPT ![f] = None]
    BY <1>11, WriteUncaches DEF Coherent, DeletePath
  <2>5. job[p].at \notin OwnPlaces BY <1>11 DEF DeletePath, Start, OwnPlaces
  <2>6. Goes(p, f, j) /\ latest' = latest /\ adrift' = adrift
    BY <1>11, LatestKept DEF DeletePath
  <2> HIDE DEF j
  <2> QED BY <2>2, <2>3, <2>4, <2>5, <2>6, WriteCoherent
<1>12. ASSUME NEW f \in File, ContextRead(p, f) PROVE Coherent'
  <2> DEFINE w == Work("contextRegister", f, SnapshotText(f), None, << >>)
             j == [w EXCEPT !.late = f \in torn']
  <2>1. SnapshotText(f) \in Hash BY <1>12, FilesRead DEF ContextRead
  <2>2. w \in Working /\ w.at = "contextRegister" /\ w.f = f /\ w.text = SnapshotText(f)
    BY <2>1, WorkType, Places, EmptyDone DEF Work
  <2>3. /\ j \in Working /\ j.at = "contextRegister" /\ j.f = f
        /\ j.text = SnapshotText(f) /\ (j.late <=> f \in torn')
    <3>1. PICK v \in Working : v = w BY <2>2
    <3>2. ASSUME NEW b \in BOOLEAN
          PROVE  /\ [v EXCEPT !.late = b] \in Working
                 /\ [v EXCEPT !.late = b].at = v.at /\ [v EXCEPT !.late = b].f = v.f
                 /\ [v EXCEPT !.late = b].text = v.text /\ [v EXCEPT !.late = b].late = b
      BY DEF Working
    <3> HIDE DEF w
    <3>3. (f \in torn') \in BOOLEAN OBVIOUS
    <3>4. j = [v EXCEPT !.late = f \in torn'] BY <3>1
    <3> QED BY <2>2, <3>1, <3>2, <3>3, <3>4
  <2>4. CacheHitIsDisk' /\ (f \notin torn' => SnapshotText(f) = disk[f])
    BY <1>12, ReadCaches DEF ContextRead, Coherent
  <2>5. Quietly(p, j) /\ disk' = disk /\ latest' = latest /\ adrift' = adrift
    BY <1>12, LatestKept DEF ContextRead, Quietly
  <2>6. job[p].at \notin OwnPlaces BY <1>12 DEF ContextRead, Start, OwnPlaces
  <2> HIDE DEF j, w
  <2> QED BY <2>3, <2>4, <2>5, <2>6, QuietCoherent DEF RightPlaces
<1> QED BY <1>1, <1>2, <1>4, <1>5, <1>7, <1>8, <1>9, <1>10, <1>11, <1>12 DEF Calls

LEMMA KeepsData ==
    ASSUME NEW w \in Working, NEW at \in Place
    PROVE  /\ [w EXCEPT !.at = at].f = w.f /\ [w EXCEPT !.at = at].text = w.text
           /\ [w EXCEPT !.at = at].late = w.late
           /\ [w EXCEPT !.at = at, !.late = FALSE].f = w.f
           /\ [w EXCEPT !.at = at, !.late = FALSE].text = w.text
           /\ [w EXCEPT !.at = at, !.late = FALSE].late = FALSE
BY DEF Working

\* What draft registers is not on disk yet.
LEMMA DraftRegisterCoherent ==
    ASSUME TypeInv, Coherent, NEW p \in Proc, DraftRegister(p)
    PROVE  Coherent'
<1> USE IdleNotWorking
<1> DEFINE f == job[p].f
           w == [job[p] EXCEPT !.at = "draftWrite", !.late = FALSE]
<1>1. job[p].at = "draftRegister" BY DEF DraftRegister
<1>2. f \in File /\ job[p].text \in Hash BY <1>1, AtWork
<1>3. w \in Working /\ w.at = "draftWrite" /\ w.f = f /\ w.text = job[p].text
  <2>1. w \in Working /\ w.at = "draftWrite"
    <3>1. job[p] \in Working /\ "draftWrite" \in Place BY <1>1, AtWork, Places
    <3> QED BY <3>1, MovesOn
  <2>2. w.f = f /\ w.text = job[p].text BY <1>1, AtWork, Places, KeepsData
  <2> QED BY <2>1, <2>2
<1>4. PICK j \in Working \cup {Idle} :
        Goes(p, f, j) /\ (j = Idle \/ (j.at = "draftWrite" /\ j.f = f /\ j.text = job[p].text))
  BY <1>3 DEF DraftRegister
<1>5. job'[p] = j /\ Others(p, f) BY <1>2, <1>4, JobGoes
<1>6. /\ disk' = disk /\ adrift' = adrift \cup {f}
      /\ latest' = [latest EXCEPT ![f] = job[p].text]
      /\ CacheHitIsDisk'
  BY CacheKept DEF DraftRegister, Register, Coherent
<1>7. JobRight'
  <2>1. ASSUME NEW q \in Proc, job'[q].at \in RightPlaces, ~job'[q].late
        PROVE  disk'[job'[q].f] = job'[q].text
    <3>1. q # p BY <1>4, <1>5, <2>1 DEF RightPlaces
    <3>2. job[q].at # "idle" BY <1>2, <1>5, <2>1, <3>1, OthersFacts DEF RightPlaces
    <3> QED BY <1>2, <1>5, <1>6, <2>1, <3>1, <3>2, OthersFacts DEF Coherent, JobRight
  <2> QED BY <2>1 DEF JobRight
<1>8. DraftRight'
  <2>1. ASSUME NEW q \in Proc, job'[q].at = "draftWrite", ~job'[q].late
        PROVE  latest'[job'[q].f] \in {job'[q].text, None}
    <3>1. CASE q = p BY <1>2, <1>4, <1>5, <1>6, <2>1, <3>1, DiskTypes
    <3>2. CASE q # p
      <4>1. job[q].at # "idle" BY <1>2, <1>5, <2>1, <3>2, OthersFacts
      <4>2. job[q].f # f /\ job[q].f \in File
        BY <1>2, <1>5, <2>1, <3>2, <4>1, OthersFacts, AtWork
      <4> QED BY <1>2, <1>5, <1>6, <2>1, <3>2, <4>1, <4>2, OthersFacts, DiskTypes
          DEF Coherent, DraftRight
    <3> QED BY <3>1, <3>2
  <2> QED BY <2>1 DEF DraftRight
<1>9. Deleted'
  <2>1. ASSUME NEW g \in File, g \notin adrift', disk[g] = None, latest'[g] # None
        PROVE  \E q \in Proc : job'[q].at = "invalidate" /\ job'[q].f = g
    <3>1. g # f /\ g \notin adrift BY <1>6, <2>1
    <3>2. PICK q \in Proc : job[q].at = "invalidate" /\ job[q].f = g
      BY <1>2, <1>6, <2>1, <3>1, DiskTypes DEF Coherent, Deleted
    <3>3. q # p BY <1>1, <3>2
    <3> QED BY <1>2, <1>5, <3>2, <3>3, OthersFacts
  <2> QED BY <1>6, <2>1 DEF Deleted
<1>10. Settled'
  <2>1. ASSUME NEW g \in File, g \notin adrift', latest'[g] # None,
               \A q \in Proc : job'[q].at \in OwnPlaces => job'[q].f # g
        PROVE  latest'[g] = disk[g]
    <3>1. g # f /\ g \notin adrift BY <1>6, <2>1
    <3>2. \A q \in Proc : job[q].at \in OwnPlaces => job[q].f # g
      BY <1>1, <1>2, <1>5, <2>1, <3>1, OthersFacts DEF OwnPlaces
    <3> QED BY <1>2, <1>6, <2>1, <3>1, <3>2, DiskTypes DEF Coherent, Settled
  <2> QED BY <1>6, <2>1 DEF Settled
<1> QED BY <1>6, <1>7, <1>8, <1>9, <1>10 DEF Coherent

\* draft writes what it registered before.
LEMMA DraftWriteCoherent ==
    ASSUME TypeInv, Coherent, NEW p \in Proc, DraftWrite(p)
    PROVE  Coherent'
<1> USE IdleNotWorking
<1> DEFINE f == job[p].f
<1>1. job[p].at = "draftWrite" BY DEF DraftWrite
<1>2. f \in File /\ job[p].text \in Hash /\ job[p].text # None
  BY <1>1, AtWork, NoneAssumption
<1>3. CASE GivesUp(p) BY <1>1, <1>3, GivesUpCoherent DEF OwnPlaces
<1>4. CASE /\ Write(f, job[p].text) /\ Goes(p, f, Idle)
           /\ adrift' = IF job[p].late THEN adrift \cup {f} ELSE adrift \ {f}
           /\ UNCHANGED << registry, torn >>
  <2>1. job'[p] = Idle /\ Others(p, f) BY <1>2, <1>4, JobGoes
  <2>2. CacheHitIsDisk' /\ disk' = [disk EXCEPT ![f] = job[p].text]
    BY <1>2, <1>4, WriteUncaches DEF Coherent
  <2>3. latest' = latest BY <1>4, LatestKept
  <2>4. JobRight'
    <3>1. ASSUME NEW q \in Proc, job'[q].at \in RightPlaces, ~job'[q].late
          PROVE  disk'[job'[q].f] = job'[q].text
      <4>1. q # p BY <2>1, <3>1 DEF RightPlaces
      <4>2. job[q].at # "idle" BY <1>2, <2>1, <3>1, <4>1, OthersFacts DEF RightPlaces
      <4>3. job[q].f \in File BY <4>2, AtWork
      <4> QED BY <1>2, <2>1, <2>2, <3>1, <4>1, <4>2, <4>3, OthersFacts, DiskTypes
          DEF Coherent, JobRight
    <3> QED BY <3>1 DEF JobRight
  <2>5. DraftRight'
    <3>1. ASSUME NEW q \in Proc, job'[q].at = "draftWrite", ~job'[q].late
          PROVE  latest'[job'[q].f] \in {job'[q].text, None}
      <4>1. q # p BY <2>1, <3>1
      <4> QED BY <1>2, <2>1, <2>3, <3>1, <4>1, OthersFacts DEF Coherent, DraftRight
    <3> QED BY <3>1 DEF DraftRight
  <2>6. Deleted'
    <3>1. ASSUME NEW g \in File, g \notin adrift', disk'[g] = None, latest[g] # None
          PROVE  \E q \in Proc : job'[q].at = "invalidate" /\ job'[q].f = g
      <4>1. g # f BY <1>2, <2>2, <3>1, DiskTypes
      <4>2. PICK q \in Proc : job[q].at = "invalidate" /\ job[q].f = g
        BY <1>2, <1>4, <2>2, <3>1, <4>1, DiskTypes DEF Coherent, Deleted
      <4>3. q # p BY <1>1, <4>2
      <4> QED BY <1>2, <2>1, <4>2, <4>3, OthersFacts
    <3> QED BY <2>3, <3>1 DEF Deleted
  <2>7. Settled'
    <3>1. ASSUME NEW g \in File, g \notin adrift', latest[g] # None,
                 \A q \in Proc : job'[q].at \in OwnPlaces => job'[q].f # g
          PROVE  latest[g] = disk'[g]
      <4>1. CASE g = f
        <5>1. ~job[p].late BY <1>4, <3>1, <4>1
        <5> QED BY <1>1, <1>2, <2>2, <3>1, <4>1, <5>1, DiskTypes DEF Coherent, DraftRight
      <4>2. CASE g # f
        <5>1. \A q \in Proc : job[q].at \in OwnPlaces => job[q].f # g
          BY <1>1, <1>2, <2>1, <3>1, <4>2, OthersFacts DEF OwnPlaces
        <5> QED BY <1>2, <1>4, <2>2, <3>1, <4>2, <5>1, DiskTypes DEF Coherent, Settled
      <4> QED BY <4>1, <4>2
    <3> QED BY <2>3, <3>1 DEF Settled
  <2> QED BY <2>2, <2>4, <2>5, <2>6, <2>7 DEF Coherent
<1> QED BY <1>3, <1>4 DEF DraftWrite

\* flush finds a file deleted only when somebody came in between.
LEMMA FlushPublishCoherent ==
    ASSUME TypeInv, Coherent, NEW p \in Proc, FlushPublish(p)
    PROVE  Coherent'
<1> USE IdleNotWorking
<1> DEFINE f == job[p].f
<1>1. job[p].at = "flushPublish" /\ job[p].at \in RightPlaces
  BY DEF FlushPublish, RightPlaces
<1>2. f \in File /\ job[p].text \in Hash /\ job[p].text # None
  BY <1>1, AtWork, NoneAssumption
<1>3. disk' = disk /\ CacheHitIsDisk' BY CacheKept DEF FlushPublish, Coherent
<1>4. CASE Publish(p, disk[f]) /\ Goes(p, f, Idle)
  <2>1. Idle.at \notin RightPlaces \cup {"draftWrite"} BY DEF RightPlaces
  <2> QED BY <1>1, <1>3, <1>4, <2>1, RegisterCoherent DEF Publish, Register
<1>5. CASE disk[f] = None /\ Quietly(p, Idle) /\ UNCHANGED << registry, adrift >>
  <2>1. job'[p] = Idle /\ \A q \in Proc : q # p => job'[q] = job[q]
    BY <1>5, JobQuietly
  <2>2. latest' = latest BY <1>5, LatestKept
  <2>3. JobRight' /\ DraftRight'
    BY <1>3, <2>1, <2>2 DEF Coherent, JobRight, DraftRight, RightPlaces
  <2>4. Deleted'
    BY <1>1, <1>3, <1>5, <2>1, <2>2 DEF Coherent, Deleted
  <2>5. Settled'
    <3>1. ASSUME NEW g \in File \ adrift, latest[g] # None,
                 \A q \in Proc : job'[q].at \in OwnPlaces => job'[q].f # g
          PROVE  latest[g] = disk[g]
      <4>1. CASE g = f
        <5>1. PICK q \in Proc : job[q].at = "invalidate" /\ job[q].f = g
          BY <1>5, <3>1, <4>1 DEF Coherent, Deleted
        <5>2. job'[q] = job[q] BY <1>1, <2>1, <5>1
        <5> QED BY <3>1, <5>1, <5>2 DEF OwnPlaces
      <4>2. CASE g # f
        <5>1. \A q \in Proc : job[q].at \in OwnPlaces => job[q].f # g
          BY <2>1, <3>1, <4>2
        <5> QED BY <3>1, <5>1 DEF Coherent, Settled
      <4> QED BY <4>1, <4>2
    <3> QED BY <1>3, <1>5, <2>2, <3>1 DEF Settled
  <2> QED BY <1>3, <2>3, <2>4, <2>5 DEF Coherent
<1> QED BY <1>4, <1>5 DEF FlushPublish

LEMMA BatchWriteCoherent ==
    ASSUME TypeInv, Coherent, NEW p \in Proc, BatchWrite(p)
    PROVE  Coherent'
<1> USE IdleNotWorking
<1> DEFINE f == job[p].f
           j == [job[p] EXCEPT !.at = "batchRecord", !.late = FALSE]
<1>1. job[p].at = "batchWrite" /\ job[p].at \notin OwnPlaces
  BY DEF BatchWrite, OwnPlaces
<1>2. f \in File /\ job[p].text \in Hash /\ job[p].text # None
  BY <1>1, AtWork, NoneAssumption
<1>3. CASE GivesUp(p) BY <1>1, <1>3, GivesUpCoherent
<1>4. CASE /\ disk' = [disk EXCEPT ![f] = job[p].text]
           /\ cached' = [cached EXCEPT ![f] = [text |-> job[p].old, current |-> FALSE]]
           /\ Goes(p, f, j) /\ UNCHANGED << registry, torn, adrift >>
  <2>1. j \in Working /\ j.at = "batchRecord" /\ j.f = f /\ j.text = job[p].text
    <3>1. j \in Working /\ j.at = "batchRecord" BY <1>1, AtWork, MovesOn, Places
    <3>2. j.f = f /\ j.text = job[p].text BY <1>1, AtWork, Places, KeepsData
    <3> QED BY <3>1, <3>2
  <2>2. CacheHitIsDisk'
    BY <1>2, <1>4 DEF Coherent, CacheHitIsDisk, TypeInv, TypeOK
  <2> HIDE DEF j
  <2> QED BY <1>1, <1>2, <1>4, <2>1, <2>2, WriteCoherent, LatestKept DEF OwnPlaces
<1>5. CASE /\ ReadSnapshot(f) /\ Quietly(p, Idle) /\ UNCHANGED << registry, disk, adrift >>
  <2>1. CacheHitIsDisk' BY <1>2, <1>5, ReadCaches DEF Coherent
  <2>2. Idle.at \notin RightPlaces BY DEF RightPlaces
  <2> QED BY <1>1, <1>5, <2>1, <2>2, QuietCoherent, LatestKept
<1> QED BY <1>3, <1>4, <1>5 DEF BatchWrite

LEMMA BatchRecordCoherent ==
    ASSUME TypeInv, Coherent, NEW p \in Proc, BatchRecord(p)
    PROVE  Coherent'
<1>1. job[p].at = "batchRecord" /\ job[p].at \in RightPlaces
  BY DEF BatchRecord, RightPlaces
<1>2. job[p].old \in Hash BY <1>1 DEF TypeInv, BatchReadText
<1> DEFINE d == [f |-> job[p].f, text |-> job[p].text, old |-> job[p].old]
           done == Append(job[p].done, d)
<1>3. PICK at \in {"batchNext", "batchPush"} :
         Goes(p, job[p].f, [job[p] EXCEPT !.at = at, !.done = done])
  BY DEF BatchRecord
<1> DEFINE j == [job[p] EXCEPT !.at = at, !.done = done]
<1>4. done \in Seq(DoneEdit)
  <2>1. d \in DoneEdit BY <1>1, <1>2, AtWork DEF DoneEdit
  <2> HIDE DEF d
  <2> QED BY <1>1, <2>1, AtWork
<1>5. j \in Working /\ j.at = at
  <2>1. PICK w \in Working : w = job[p] BY <1>1, AtWork
  <2>2. at \in Place BY Places
  <2> HIDE DEF done
  <2>3. [w EXCEPT !.at = at, !.done = done] \in Working
        /\ [w EXCEPT !.at = at, !.done = done].at = at
    BY <1>4, <2>2 DEF Working
  <2>4. j = [w EXCEPT !.at = at, !.done = done] BY <2>1
  <2> HIDE DEF j
  <2> QED BY <2>3, <2>4
<1>6. CacheHitIsDisk' BY <1>1, RecordCaches DEF BatchRecord
<1>7. j.at \notin RightPlaces \cup {"draftWrite"} BY <1>5 DEF RightPlaces
<1>8. Goes(p, job[p].f, j) BY <1>3
<1> HIDE DEF j
<1> QED BY <1>1, <1>5, <1>6, <1>7, <1>8, RegisterCoherent DEF BatchRecord, Publish, Register

LEMMA BatchPushCoherent ==
    ASSUME TypeInv, Coherent, NEW p \in Proc, BatchPush(p)
    PROVE  Coherent'
<1> USE IdleNotWorking
<1> DEFINE rest == Tail(job[p].done)
           j == [job[p] EXCEPT !.at = "batchPushRest", !.done = rest]
<1>1. job[p].at \in {"batchPush", "batchPushRest"} /\ job[p].at # "idle"
      /\ job[p].at \notin OwnPlaces
  BY DEF BatchPush, OwnPlaces
<1>2. rest \in Seq(DoneEdit)
  <2>1. job[p].done # << >> BY <1>1 DEF TypeInv, BatchHasEntries
  <2> QED BY <1>1, <2>1, AtWork
<1>3. j \in Working /\ j.at = "batchPushRest"
  <2>1. PICK w \in Working : w = job[p] BY <1>1, AtWork
  <2> HIDE DEF rest
  <2>2. [w EXCEPT !.at = "batchPushRest", !.done = rest] \in Working
        /\ [w EXCEPT !.at = "batchPushRest", !.done = rest].at = "batchPushRest"
    BY <1>2, Places DEF Working
  <2>3. j = [w EXCEPT !.at = "batchPushRest", !.done = rest] BY <2>1
  <2> HIDE DEF j
  <2> QED BY <2>2, <2>3
<1>4. Quietly(p, Idle) \/ Quietly(p, j) BY DEF BatchPush
<1>5. CacheHitIsDisk' /\ disk' = disk /\ latest' = latest /\ adrift' = adrift
  BY CacheKept, LatestKept DEF BatchPush, Coherent
<1>6. Idle.at \notin RightPlaces /\ j.at \notin RightPlaces BY <1>3 DEF RightPlaces
<1> HIDE DEF j
<1> QED BY <1>1, <1>3, <1>4, <1>5, <1>6, QuietCoherent

\* A file is forgotten after it was deleted.
LEMMA DeleteInvalidateCoherent ==
    ASSUME TypeInv, Coherent, NEW p \in Proc, DeleteInvalidate(p)
    PROVE  Coherent'
<1> USE IdleNotWorking
<1> DEFINE f == job[p].f
<1>1. job[p].at = "invalidate" BY DEF DeleteInvalidate
<1>2. f \in File BY <1>1, AtWork
<1>3. job'[p] = Idle /\ \A q \in Proc : q # p => job'[q] = job[q]
  BY JobQuietly DEF DeleteInvalidate
<1>4. /\ disk' = disk /\ CacheHitIsDisk' /\ adrift' = adrift \ {f}
      /\ latest' = [latest EXCEPT ![f] = None]
  BY CacheKept DEF DeleteInvalidate, InvalidateSource, Coherent
<1>5. JobRight'
  BY <1>3, <1>4 DEF Coherent, JobRight, RightPlaces
<1>6. DraftRight'
  <2>1. ASSUME NEW q \in Proc, job'[q].at = "draftWrite", ~job'[q].late
        PROVE  latest'[job'[q].f] \in {job'[q].text, None}
    <3>1. q # p /\ job'[q] = job[q] BY <1>3, <2>1
    <3>2. job[q].f \in File BY <2>1, <3>1, AtWork
    <3> QED BY <1>2, <1>4, <2>1, <3>1, <3>2, DiskTypes DEF Coherent, DraftRight
  <2> QED BY <2>1 DEF DraftRight
<1>7. Deleted'
  <2>1. ASSUME NEW g \in File, g \notin adrift', disk[g] = None, latest'[g] # None
        PROVE  \E q \in Proc : job'[q].at = "invalidate" /\ job'[q].f = g
    <3>1. g # f /\ g \notin adrift BY <1>2, <1>4, <2>1, DiskTypes
    <3>2. PICK q \in Proc : job[q].at = "invalidate" /\ job[q].f = g
      BY <1>2, <1>4, <2>1, <3>1, DiskTypes DEF Coherent, Deleted
    <3> QED BY <1>3, <3>1, <3>2
  <2> QED BY <1>4, <2>1 DEF Deleted
<1>8. Settled'
  <2>1. ASSUME NEW g \in File, g \notin adrift', latest'[g] # None,
               \A q \in Proc : job'[q].at \in OwnPlaces => job'[q].f # g
        PROVE  latest'[g] = disk[g]
    <3>1. g # f /\ g \notin adrift BY <1>2, <1>4, <2>1, DiskTypes
    <3>2. \A q \in Proc : job[q].at \in OwnPlaces => job[q].f # g
      BY <1>3, <2>1, <3>1
    <3> QED BY <1>2, <1>4, <2>1, <3>1, <3>2, DiskTypes DEF Coherent, Settled
  <2> QED BY <1>4, <2>1 DEF Settled
<1> QED BY <1>4, <1>5, <1>6, <1>7, <1>8 DEF Coherent

LEMMA StepsCoherent ==
    ASSUME TypeInv, Coherent, NEW p \in Proc, Steps(p)
    PROVE  Coherent'
<1> USE IdleNotWorking
<1>1. CASE LineEditsWrite(p)
  <2> DEFINE j == [job[p] EXCEPT !.at = "record", !.late = FALSE]
  <2>1. job[p].at # "idle" /\ job[p].at \notin OwnPlaces
    BY <1>1 DEF LineEditsWrite, OwnPlaces
  <2>2. CASE /\ Write(job[p].f, job[p].text) /\ Goes(p, job[p].f, j)
             /\ UNCHANGED << registry, undo, torn, adrift >>
    <3>1. j \in Working /\ j.at = "record" /\ j.f = job[p].f /\ j.text = job[p].text
      <4>1. j \in Working /\ j.at = "record" BY <2>1, AtWork, MovesOn, Places
      <4>2. j.f = job[p].f /\ j.text = job[p].text BY <2>1, AtWork, Places, KeepsData
      <4> QED BY <4>1, <4>2
    <3>2. CacheHitIsDisk' /\ disk' = [disk EXCEPT ![job[p].f] = job[p].text]
      BY <2>1, <2>2, AtWork, WriteUncaches DEF Coherent
    <3> HIDE DEF j
    <3> QED BY <2>1, <2>2, <3>1, <3>2, AtWork, WriteCoherent, LatestKept, NoneAssumption
        DEF OwnPlaces
  <2> QED BY <1>1, <2>1, <2>2, GivesUpCoherent DEF LineEditsWrite
<1>2. ASSUME job[p].at \in {"record", "createRecord"}, NEW at \in {"register", "publish"},
             RecordWrite(p, job[p].f, job[p].text), Quietly(p, [job[p] EXCEPT !.at = at]),
             UNCHANGED << registry, disk, adrift >>
      PROVE  Coherent'
  <2> DEFINE j == [job[p] EXCEPT !.at = at]
  <2>1. job[p].at # "idle" /\ job[p].at # "invalidate" BY <1>2
  <2>2. at \in Place BY Places
  <2>3. /\ j \in Working /\ j.at = at /\ j.f = job[p].f
        /\ j.text = job[p].text /\ j.late = job[p].late
    BY <2>1, <2>2, AtWork, MovesOn, KeepsData
  <2>4. CacheHitIsDisk' BY <1>2, RecordCaches DEF RightPlaces
  <2>5. ~job[p].late => disk[job[p].f] = job[p].text
    BY <1>2 DEF Coherent, JobRight, RightPlaces
  <2>6. j.at \in OwnPlaces /\ j.at \notin {"draftWrite", "invalidate"} BY <2>3 DEF OwnPlaces
  <2>7. Quietly(p, j) /\ latest' = latest BY <1>2, LatestKept
  <2> HIDE DEF j
  <2> QED BY <1>2, <2>1, <2>3, <2>4, <2>5, <2>6, <2>7, QuietCoherent
<1>3. CASE LineEditsRecord(p) \/ CreateRecord(p)
  BY <1>2, <1>3 DEF LineEditsRecord, CreateRecord
<1>4. ASSUME NEW j \in Working \cup {Idle},
             job[p].at \in RightPlaces, Publish(p, job[p].text), Goes(p, job[p].f, j),
             j.at \in {"idle", "push", "batchNext", "batchPush"},
             disk' = disk, CacheHitIsDisk'
      PROVE  Coherent'
  <2>1. j.at \notin RightPlaces \cup {"draftWrite"} BY <1>4 DEF RightPlaces
  <2> QED BY <1>4, <2>1, RegisterCoherent DEF Publish, Register
<1>5. CASE LineEditsRegister(p)
  <2> DEFINE j == [job[p] EXCEPT !.at = "push"]
  <2>1. job[p].at # "idle" /\ job[p].at \in RightPlaces
    BY <1>5 DEF LineEditsRegister, RightPlaces
  <2>2. j \in Working /\ j.at = "push" BY <2>1, AtWork, MovesOn, Places
  <2>3. Goes(p, job[p].f, j) BY <1>5 DEF LineEditsRegister
  <2> HIDE DEF j
  <2> QED BY <1>4, <1>5, <2>1, <2>2, <2>3, CacheKept DEF LineEditsRegister, Coherent
<1>6. CASE PublishAndReturn(p) \/ ContextRegister(p)
  <2>1. job[p].at \in RightPlaces
    BY <1>6 DEF PublishAndReturn, ContextRegister, RightPlaces
  <2> QED BY <1>4, <1>6, <2>1, CacheKept DEF PublishAndReturn, ContextRegister, Coherent
<1>7. CASE LineEditsPush(p)
  <2>1. job[p].at \notin OwnPlaces /\ Idle.at \notin RightPlaces
    BY <1>7 DEF LineEditsPush, OwnPlaces, RightPlaces
  <2> QED BY <1>7, <2>1, QuietCoherent, CacheKept, LatestKept DEF LineEditsPush, Coherent
<1>8. CASE BatchFails(p)
  BY <1>8, GivesUpCoherent DEF BatchFails, OwnPlaces
<1>9. CASE DraftRegister(p) BY <1>9, DraftRegisterCoherent
<1>10. CASE DraftWrite(p) BY <1>10, DraftWriteCoherent
<1>11. CASE FlushPublish(p) BY <1>11, FlushPublishCoherent
<1>12. CASE BatchWrite(p) BY <1>12, BatchWriteCoherent
<1>13. CASE BatchRecord(p) BY <1>13, BatchRecordCoherent
<1>14. CASE BatchPush(p) BY <1>14, BatchPushCoherent
<1>15. CASE DeleteInvalidate(p) BY <1>15, DeleteInvalidateCoherent
<1> QED BY <1>1, <1>3, <1>5, <1>6, <1>7, <1>8, <1>9, <1>10, <1>11, <1>12, <1>13, <1>14, <1>15
    DEF Steps

LEMMA WorldCoherent ==
    ASSUME TypeInv, Coherent, NEW f \in File,
           \/ \E text \in Hash \cup {None} : ExternalChange(f, text)
           \/ WatcherInvalidates(f)
    PROVE  Coherent'
<1>1. CASE WatcherInvalidates(f)
  <2>1. /\ job' = job /\ disk' = disk /\ torn' = torn /\ adrift' = adrift \ {f}
        /\ latest' = [latest EXCEPT ![f] = None]
        /\ cached' = [cached EXCEPT ![f] = None]
    BY <1>1 DEF WatcherInvalidates, InvalidateSource
  <2>2. CacheHitIsDisk' BY <2>1 DEF Coherent, CacheHitIsDisk, TypeInv, TypeOK
  <2>3. JobRight' BY <2>1 DEF Coherent, JobRight
  <2>4. DraftRight' BY <2>1, AtWork, DiskTypes DEF Coherent, DraftRight
  <2>5. Deleted' BY <2>1, DiskTypes DEF Coherent, Deleted
  <2>6. Settled' BY <2>1, DiskTypes DEF Coherent, Settled
  <2> QED BY <2>2, <2>3, <2>4, <2>5, <2>6 DEF Coherent
<1>2. ASSUME NEW text \in Hash \cup {None}, ExternalChange(f, text) PROVE Coherent'
  <2>1. /\ torn' = torn /\ adrift' = adrift \cup {f} /\ latest' = latest
        /\ CacheHitIsDisk' /\ disk' = [disk EXCEPT ![f] = text]
    BY <1>2, WriteUncaches, LatestKept DEF ExternalChange, Coherent
  <2>2. ASSUME NEW q \in Proc
        PROVE  /\ job'[q].at = job[q].at /\ job'[q].f = job[q].f /\ job'[q].text = job[q].text
               /\ job[q].at # "idle" /\ ~job'[q].late => ~job[q].late /\ job[q].f # f
    <3>1. job'[q] = IF job[q] # Idle /\ job[q].f = f
                    THEN [job[q] EXCEPT !.late = TRUE] ELSE job[q]
      BY <1>2 DEF ExternalChange
    <3>2. CASE job[q] # Idle /\ job[q].f = f
      <4>1. PICK w \in Working : w = job[q] BY <3>2 DEF TypeInv, TypeOK
      <4>2. /\ [w EXCEPT !.late = TRUE].at = w.at /\ [w EXCEPT !.late = TRUE].f = w.f
            /\ [w EXCEPT !.late = TRUE].text = w.text /\ [w EXCEPT !.late = TRUE].late
        BY DEF Working
      <4> QED BY <3>1, <3>2, <4>1, <4>2
    <3>3. CASE ~(job[q] # Idle /\ job[q].f = f)
      BY <3>1, <3>3, IdleNotWorking
    <3> QED BY <3>2, <3>3
  <2>3. JobRight'
    <3>1. ASSUME NEW q \in Proc, job'[q].at \in RightPlaces, ~job'[q].late
          PROVE  disk'[job'[q].f] = job'[q].text
      <4>1. job[q].at # "idle" BY <2>2, <3>1 DEF RightPlaces
      <4>2. job[q].f \in File BY <4>1, AtWork
      <4> QED BY <2>1, <2>2, <3>1, <4>1, <4>2, DiskTypes DEF Coherent, JobRight
    <3> QED BY <3>1 DEF JobRight
  <2>4. DraftRight'
    <3>1. ASSUME NEW q \in Proc, job'[q].at = "draftWrite", ~job'[q].late
          PROVE  latest[job'[q].f] \in {job'[q].text, None}
      BY <2>2, <3>1 DEF Coherent, DraftRight
    <3> QED BY <2>1, <3>1 DEF DraftRight
  <2>5. Deleted'
    <3>1. ASSUME NEW g \in File, g \notin adrift', disk'[g] = None, latest[g] # None
          PROVE  \E q \in Proc : job'[q].at = "invalidate" /\ job'[q].f = g
      BY <2>1, <2>2, <3>1, DiskTypes DEF Coherent, Deleted
    <3> QED BY <2>1, <3>1 DEF Deleted
  <2>6. Settled'
    <3>1. ASSUME NEW g \in File, g \notin adrift', latest[g] # None,
                 \A q \in Proc : job'[q].at \in OwnPlaces => job'[q].f # g
          PROVE  latest[g] = disk'[g]
      BY <2>1, <2>2, <3>1, DiskTypes DEF Coherent, Settled
    <3> QED BY <2>1, <3>1 DEF Settled
  <2> QED BY <2>1, <2>3, <2>4, <2>5, <2>6 DEF Coherent
<1> QED BY <1>1, <1>2

LEMMA InitCoherent == Init => Coherent
<1> SUFFICES ASSUME Init PROVE Coherent OBVIOUS
<1>1. \A p \in Proc : job[p].at \notin RightPlaces \cup {"draftWrite"}
  BY IdleNotWorking DEF Init, RightPlaces
<1>2. \A f \in File : latest[f] = None BY DEF Init, RegistryInit
<1>3. CacheHitIsDisk BY DEF Init, CacheHitIsDisk
<1> QED BY <1>1, <1>2, <1>3 DEF Coherent, JobRight, DraftRight, Deleted, Settled

LEMMA StepCoherent == TypeInv /\ Coherent /\ [Next]_vars => Coherent'
<1> SUFFICES ASSUME TypeInv, Coherent, [Next]_vars PROVE Coherent' OBVIOUS
<1>1. CASE UNCHANGED vars
  BY <1>1 DEF vars, registry, Coherent, JobRight, DraftRight, Deleted, Settled, CacheHitIsDisk
<1> QED BY <1>1, CallsCoherent, StepsCoherent, WorldCoherent DEF Next

LEMMA CoherentHolds == Spec => []Coherent
BY InitCoherent, StepCoherent, TypesHold, PTL DEF Spec

\* A cached snapshot that looks current is what is on disk, unless another
\* write fell between a command's write and its stat (record_write,
\* get_resolved).
THEOREM CacheIsRight == Spec => []CacheHitIsDisk
<1>1. Coherent => CacheHitIsDisk BY DEF Coherent
<1> QED BY <1>1, CoherentHolds, PTL

\* Once no call is at work on a file, the registry's latest text of it is on
\* disk, but for drafts not written, changes from outside and calls that
\* overlapped (register).
THEOREM RegistryIsRight == Spec => []RegistryFollowsDisk
<1>1. Coherent => RegistryFollowsDisk
  <2> SUFFICES ASSUME Coherent, NEW f \in File \ adrift, latest[f] # None,
                      \A p \in Proc : job[p] # Idle => job[p].f # f
               PROVE  latest[f] = disk[f]
    BY DEF RegistryFollowsDisk
  <2>1. \A p \in Proc : job[p].at \in OwnPlaces => job[p].f # f
    BY IdleNotWorking DEF OwnPlaces
  <2> QED BY <2>1 DEF Coherent, Settled
<1> QED BY <1>1, CoherentHolds, PTL

(***************************************************************************)
(* The undo store. What an entry remembers was in a file before, because   *)
(* what a call read, what it wrote, and what batch_edits collects for the  *)
(* store was; the draft a call holds the store for is its newest entry.    *)
(***************************************************************************)
\* h tells what texts each file had. A call knows only texts the files had, except for
\* the one it is still to write.
Knows(j, h) ==
    j # Idle =>
        /\ j.old \in h[j.f] \cup {None}
        /\ j.at \in {"record", "register", "push", "batchRecord"} => j.text \in h[j.f]
        /\ \A k \in DOMAIN j.done :
              j.done[k].text \in h[j.done[k].f] /\ j.done[k].old \in h[j.done[k].f] \cup {None}

Remembers(e, f, h) ==
    /\ e.previous \in h[f] \cup {None}
    /\ e.flushed => \E g \in File : e.text \in h[g]

DiskHad == \A f \in File : disk[f] \in had[f] \cup {None}
JobsKnow == \A p \in Proc : Knows(job[p], had)
UndoRemembers == \A f \in File : \A i \in DOMAIN undo[f] : Remembers(undo[f][i], f, had)

\* Two calls never hold the undo store.
UndoHeldOnce ==
    \A p, q \in Proc :
        job[p].at \in HeldAt["undo"] /\ job[q].at \in HeldAt["undo"] => p = q

NewestIs(stack, text) == stack # << >> /\ stack[Len(stack)].text = text

DraftIsNewest ==
    \A p \in Proc : job[p].at \in {"draftRegister", "draftWrite"}
        => NewestIs(undo[job[p].f], job[p].text)

StoreInv == DiskHad /\ JobsKnow /\ UndoRemembers /\ UndoHeldOnce /\ DraftIsNewest

Grows(h, h2) == \A f \in File : h[f] \subseteq h2[f]

LEMMA RemembersGrows ==
    ASSUME NEW h, NEW h2, Grows(h, h2), NEW f \in File, NEW e, Remembers(e, f, h)
    PROVE  Remembers(e, f, h2)
BY DEF Remembers, Grows

LEMMA KnowsGrows ==
    ASSUME NEW h, NEW h2, Grows(h, h2), NEW j \in Working \cup {Idle}, Knows(j, h)
    PROVE  Knows(j, h2)
<1> SUFFICES ASSUME j \in Working PROVE Knows(j, h2) BY DEF Knows
<1>1. j.f \in File /\ j.done \in Seq(DoneEdit) BY DEF Working
<1>2. \A k \in DOMAIN j.done : j.done[k].f \in File
  <2>1. \A k \in DOMAIN j.done : j.done[k] \in DoneEdit BY <1>1
  <2> QED BY <2>1 DEF DoneEdit
<1> QED BY <1>1, <1>2 DEF Knows, Grows

LEMMA WriteHad ==
    ASSUME TypeInv, DiskHad, NEW f \in File, NEW text \in Hash \cup {None},
           disk' = [disk EXCEPT ![f] = text],
           had' = [had EXCEPT ![f] = @ \cup ({text} \ {None})]
    PROVE  /\ Grows(had, had') /\ DiskHad'
           /\ text # None => text \in had'[f]
BY DEF TypeInv, TypeOK, DiskHad, Grows

LEMMA UnwrittenHad ==
    ASSUME DiskHad, UNCHANGED << disk, had >>
    PROVE  Grows(had, had') /\ DiskHad'
BY DEF DiskHad, Grows

LEMMA UndoSame ==
    ASSUME TypeInv, UndoRemembers, Grows(had, had'), undo' = undo
    PROVE  UndoRemembers'
<1>1. ASSUME NEW f \in File, NEW i \in DOMAIN undo[f]
      PROVE  Remembers(undo[f][i], f, had')
  BY RemembersGrows DEF UndoRemembers
<1> QED BY <1>1 DEF UndoRemembers

LEMMA PushedEntries ==
    ASSUME NEW S, NEW s \in Seq(S), NEW e \in S
    PROVE  /\ \A i \in DOMAIN Pushed(s, e) :
                 Pushed(s, e)[i] = e \/ \E k \in DOMAIN s : Pushed(s, e)[i] = s[k]
           /\ Pushed(s, e) # << >> /\ Pushed(s, e)[Len(Pushed(s, e))] = e
<1>1. ASSUME NEW r \in Seq(S)
      PROVE  /\ \A i \in DOMAIN Append(r, e) :
                   Append(r, e)[i] = e \/ (i \in DOMAIN r /\ Append(r, e)[i] = r[i])
             /\ Append(r, e) # << >> /\ Append(r, e)[Len(Append(r, e))] = e
  OBVIOUS
<1>2. CASE Len(s) >= MaxEntries
  <2>1. /\ s # << >> /\ Tail(s) \in Seq(S)
        /\ \A i \in DOMAIN Tail(s) : i + 1 \in DOMAIN s /\ Tail(s)[i] = s[i + 1]
    BY <1>2, BoundsAssumption
  <2> QED BY <1>1, <1>2, <2>1 DEF Pushed
<1>3. CASE ~(Len(s) >= MaxEntries)
  BY <1>1, <1>3 DEF Pushed
<1> QED BY <1>2, <1>3

LEMMA UndoPushes ==
    ASSUME TypeInv, UndoRemembers, Grows(had, had'), NEW f \in File,
           NEW text \in Hash, NEW parent \in Hash \cup {None},
           NEW previous \in had'[f] \cup {None}, previous \in Hash \cup {None},
           NEW flushed \in BOOLEAN, flushed => \E g \in File : text \in had'[g],
           undo' = [undo EXCEPT ![f] = Pushed(@, Entry4(text, parent, previous, flushed))]
    PROVE  UndoRemembers' /\ NewestIs(undo'[f], text)
<1> DEFINE e == Entry4(text, parent, previous, flushed)
<1>1. e \in UndoEntry /\ e.text = text /\ Remembers(e, f, had')
  BY DEF Entry4, UndoEntry, Remembers
<1>2. undo \in [File -> Seq(UndoEntry)] BY DEF TypeInv, TypeOK
<1>3. undo'[f] = Pushed(undo[f], e) /\ \A g \in File \ {f} : undo'[g] = undo[g]
  BY <1>2
<1> HIDE DEF e
<1>4. /\ \A i \in DOMAIN undo'[f] :
            undo'[f][i] = e \/ \E k \in DOMAIN undo[f] : undo'[f][i] = undo[f][k]
      /\ undo'[f] # << >> /\ undo'[f][Len(undo'[f])] = e
  BY <1>1, <1>2, <1>3, PushedEntries
<1>5. ASSUME NEW g \in File, NEW k \in DOMAIN undo[g] PROVE Remembers(undo[g][k], g, had')
  BY RemembersGrows DEF UndoRemembers
<1>6. ASSUME NEW g \in File, NEW i \in DOMAIN undo'[g] PROVE Remembers(undo'[g][i], g, had')
  BY <1>1, <1>3, <1>4, <1>5
<1> QED BY <1>1, <1>4, <1>6 DEF UndoRemembers, NewestIs

LEMMA RemovedEntries ==
    ASSUME NEW S, NEW s \in Seq(S), NEW i \in DOMAIN s, NEW k \in DOMAIN RemoveAt(s, i)
    PROVE  \E m \in DOMAIN s : RemoveAt(s, i)[k] = s[m]
<1>1. i \in 1..Len(s) /\ Len(s) \in Nat /\ DOMAIN s = 1..Len(s) OBVIOUS
<1>2. PICK a : a = SubSeq(s, 1, i - 1) OBVIOUS
<1>3. PICK b : b = SubSeq(s, i + 1, Len(s)) OBVIOUS
<1>4. /\ a \in Seq(S) /\ Len(a) = i - 1 /\ \A m \in 1..(i - 1) : a[m] = s[m]
  BY <1>1, <1>2
<1>5. /\ b \in Seq(S) /\ Len(b) = Len(s) - i
      /\ \A m \in 1..(Len(s) - i) : b[m] = s[m + i]
  <2>1. i + 1 \in Int /\ Len(s) \in Int /\ \A m \in (i + 1)..Len(s) : s[m] \in S BY <1>1
  <2>2. /\ b \in Seq(S)
        /\ Len(b) = IF i + 1 <= Len(s) THEN Len(s) - (i + 1) + 1 ELSE 0
        /\ \A m \in 1..(Len(s) - (i + 1) + 1) : b[m] = s[(i + 1) + m - 1]
    BY <1>3, <2>1, SubSeqProperties
  <2>3. Len(b) = Len(s) - i
    <3>1. CASE i + 1 <= Len(s) BY <1>1, <2>2, <3>1
    <3>2. CASE ~(i + 1 <= Len(s))
      <4>1. i = Len(s) BY <1>1, <3>2
      <4>2. Len(b) = 0 BY <2>2, <3>2
      <4> QED BY <1>1, <4>1, <4>2
    <3> QED BY <3>1, <3>2
  <2>4. ASSUME NEW m \in 1..(Len(s) - i) PROVE b[m] = s[m + i]
    <3>1. m \in 1..(Len(s) - (i + 1) + 1) /\ (i + 1) + m - 1 = m + i BY <1>1
    <3> QED BY <2>2, <3>1
  <2> QED BY <2>2, <2>3, <2>4
<1>6. PICK r : r = a \o b OBVIOUS
<1>7. RemoveAt(s, i) = r BY <1>2, <1>3, <1>6 DEF RemoveAt
<1>8. /\ Len(r) = Len(a) + Len(b) /\ DOMAIN r = 1..Len(r)
      /\ \A m \in 1..(Len(a) + Len(b)) : r[m] = IF m <= Len(a) THEN a[m] ELSE b[m - Len(a)]
  BY <1>4, <1>5, <1>6, ConcatProperties
<1>9. k \in DOMAIN r BY <1>7
<1>10. k \in 1..(Len(s) - 1) /\ k \in 1..(Len(a) + Len(b))
  BY <1>1, <1>4, <1>5, <1>8, <1>9
<1>11. CASE k <= i - 1
  <2>1. r[k] = a[k] BY <1>4, <1>8, <1>10, <1>11
  <2>2. k \in 1..(i - 1) /\ k \in DOMAIN s BY <1>1, <1>10, <1>11
  <2> QED BY <1>4, <1>7, <2>1, <2>2
<1>12. CASE ~(k <= i - 1)
  <2>1. r[k] = b[k - (i - 1)] BY <1>4, <1>8, <1>10, <1>12
  <2>2. k - (i - 1) \in 1..(Len(s) - i) BY <1>1, <1>10, <1>12
  <2>3. b[k - (i - 1)] = s[k - (i - 1) + i] BY <1>5, <2>2
  <2>4. k - (i - 1) + i \in DOMAIN s BY <1>1, <1>10
  <2> QED BY <1>7, <2>1, <2>3, <2>4
<1> QED BY <1>11, <1>12

LEMMA UndoRemoves ==
    ASSUME TypeInv, UndoRemembers, Grows(had, had'), NEW f \in File, NEW i \in DOMAIN undo[f],
           undo' = [undo EXCEPT ![f] = RemoveAt(@, i)]
    PROVE  UndoRemembers'
<1>1. undo \in [File -> Seq(UndoEntry)] BY DEF TypeInv, TypeOK
<1>2. undo'[f] = RemoveAt(undo[f], i) /\ \A g \in File \ {f} : undo'[g] = undo[g]
  BY <1>1
<1>3. ASSUME NEW g \in File, NEW k \in DOMAIN undo[g] PROVE Remembers(undo[g][k], g, had')
  BY RemembersGrows DEF UndoRemembers
<1>4. \A k \in DOMAIN undo'[f] : \E m \in DOMAIN undo[f] : undo'[f][k] = undo[f][m]
  BY <1>1, <1>2, RemovedEntries
<1>5. ASSUME NEW g \in File, NEW k \in DOMAIN undo'[g] PROVE Remembers(undo'[g][k], g, had')
  BY <1>2, <1>3, <1>4
<1> QED BY <1>5 DEF UndoRemembers

\* Marking an entry is right once its text is in a file.
LEMMA MarkRemembers ==
    ASSUME NEW e \in UndoEntry, NEW f \in File, NEW h, Remembers(e, f, h),
           NEW g \in File, e.text \in h[g]
    PROVE  Remembers([e EXCEPT !.flushed = TRUE], f, h)
<1>1. /\ [e EXCEPT !.flushed = TRUE].previous = e.previous
      /\ [e EXCEPT !.flushed = TRUE].text = e.text
  BY DEF UndoEntry
<1> QED BY <1>1 DEF Remembers

\* What the calls other than p know does not change while p goes on.
LEMMA OthersKnow ==
    ASSUME TypeInv, JobsKnow, Grows(had, had'), NEW p \in Proc, NEW f \in File,
           Others(p, f) \/ OthersRest(p), Knows(job'[p], had')
    PROVE  JobsKnow'
<1>1. ASSUME NEW q \in Proc, q # p PROVE Knows(job'[q], had')
  <2>1. job[q] \in Working \cup {Idle} BY DEF TypeInv, TypeOK
  <2>2. Knows(job[q], had') BY <2>1, KnowsGrows DEF JobsKnow
  <2>3. CASE OthersRest(p) BY <1>1, <2>2, <2>3 DEF OthersRest
  <2>4. CASE Others(p, f) BY <1>1, <2>2, <2>4 DEF Others, Knows
  <2> QED BY <2>3, <2>4
<1> QED BY <1>1 DEF JobsKnow

\* Whoever holds the undo store finds it free of the others.
LEMMA HolderFree ==
    ASSUME UndoHeldOnce, NEW p \in Proc, job[p].at \in HeldAt["undo"]
    PROVE  Free("undo", p)
BY DEF UndoHeldOnce, Free

\* A step of a call, put together from what it does to the files, to the undo store and
\* to the call itself.
LEMMA StoreStep ==
    ASSUME TypeInv, StoreInv, NEW p \in Proc, NEW f \in File, NEW j \in Working \cup {Idle},
           Quietly(p, j) \/ Goes(p, f, j),
           Grows(had, had'), DiskHad', UndoRemembers', Knows(j, had'),
           undo' = undo \/ Free("undo", p),
           j.at \in HeldAt["undo"] => Free("undo", p),
           j.at \in {"draftRegister", "draftWrite"} => NewestIs(undo'[j.f], j.text)
    PROVE  StoreInv'
<1>1. job'[p] = j /\ (Others(p, f) \/ OthersRest(p))
  BY JobQuietly, JobGoes DEF OthersRest
<1>2. JobsKnow' BY <1>1, OthersKnow DEF StoreInv
<1>3. ASSUME NEW q \in Proc, q # p
      PROVE  job'[q].at = job[q].at /\ job'[q].f = job[q].f /\ job'[q].text = job[q].text
  BY <1>1, <1>3, OthersFacts DEF OthersRest
<1>4. UndoHeldOnce'
  <2>1. ASSUME NEW q \in Proc, NEW r \in Proc, q # r,
               job'[q].at \in HeldAt["undo"], job'[r].at \in HeldAt["undo"]
        PROVE  FALSE
    <3>1. CASE q # p /\ r # p BY <1>3, <2>1, <3>1 DEF StoreInv, UndoHeldOnce
    <3>2. CASE q = p \/ r = p BY <1>1, <1>3, <2>1, <3>2 DEF Free
    <3> QED BY <3>1, <3>2
  <2> QED BY <2>1 DEF UndoHeldOnce
<1>5. DraftIsNewest'
  <2>1. ASSUME NEW q \in Proc, job'[q].at \in {"draftRegister", "draftWrite"}
        PROVE  NewestIs(undo'[job'[q].f], job'[q].text)
    <3>1. CASE q = p BY <1>1, <2>1, <3>1 DEF NewestIs
    <3>2. CASE q # p
      <4>1. /\ job[q].at \in {"draftRegister", "draftWrite"}
            /\ job'[q].f = job[q].f /\ job'[q].text = job[q].text
        BY <1>3, <2>1, <3>2
      <4>2. job[q].at \in HeldAt["undo"] BY <4>1 DEF HeldAt
      <4>3. undo' = undo BY <3>2, <4>2 DEF Free
      <4> QED BY <4>1, <4>3 DEF StoreInv, DraftIsNewest, NewestIs
    <3> QED BY <3>1, <3>2
  <2> QED BY <2>1 DEF DraftIsNewest
<1> QED BY <1>2, <1>4, <1>5 DEF StoreInv

LEMMA IdleKnows == \A h : Knows(Idle, h) /\ Idle.at \notin HeldAt["undo"]
                          /\ Idle.at \notin {"draftRegister", "draftWrite"}
BY IdleNotWorking DEF Knows, HeldAt

\* A call that starts knows what it read.
LEMMA WorkKnows ==
    ASSUME NEW at \in Place, NEW f \in File, NEW text \in Hash, NEW old \in Hash \cup {None},
           NEW h, old \in h[f] \cup {None},
           at \notin {"record", "register", "push", "batchRecord"}
    PROVE  Knows(Work(at, f, text, old, << >>), h)
BY DEF Work, Knows

LEMMA UndoneEntry ==
    ASSUME TypeInv, NEW f \in File, NEW i \in DOMAIN undo[f]
    PROVE  undo[f][i] \in UndoEntry /\ undo[f][i].text \in Hash
           /\ undo[f][i].previous \in Hash \cup {None}
<1>1. undo[f][i] \in UndoEntry BY DEF TypeInv, TypeOK
<1> QED BY <1>1 DEF UndoEntry

LEMMA CallsStore ==
    ASSUME TypeInv, StoreInv, NEW p \in Proc, Calls(p)
    PROVE  StoreInv'
<1> USE IdleKnows
<1>1. disk \in [File -> Hash \cup {None}] BY DiskTypes
<1>2. ASSUME NEW f \in File, NEW text \in Hash, LineEditsRead(p, f, text) PROVE StoreInv'
  <2> DEFINE j == Work("write", f, text, disk[f], << >>)
  <2>1. j \in Working /\ j.at = "write" BY <1>1, WorkType, Places, EmptyDone DEF Work
  <2>2. Grows(had, had') /\ DiskHad' /\ UndoRemembers'
    BY <1>2, UnwrittenHad, UndoSame DEF LineEditsRead, StoreInv
  <2>3. Knows(j, had')
    BY <1>1, <1>2, WorkKnows, Places DEF LineEditsRead, StoreInv, DiskHad
  <2>4. Quietly(p, j) /\ undo' = undo BY <1>2 DEF LineEditsRead
  <2> HIDE DEF j
  <2> QED BY <2>1, <2>2, <2>3, <2>4, StoreStep DEF HeldAt
<1>3. ASSUME NEW f \in File, NEW text \in Hash, Draft(p, f, text) PROVE StoreInv'
  <2> DEFINE j == Work("draftRegister", f, text, disk[f], << >>)
  <2>1. j \in Working /\ j.at = "draftRegister" /\ j.f = f /\ j.text = text
    BY <1>1, WorkType, Places, EmptyDone DEF Work
  <2>2. Grows(had, had') /\ DiskHad' BY <1>3, UnwrittenHad DEF Draft, StoreInv
  <2>3. disk[f] \in had'[f] \cup {None} BY <1>3 DEF Draft, StoreInv, DiskHad
  <2>4. UndoRemembers' /\ NewestIs(undo'[f], text)
    BY <1>1, <1>3, <2>2, <2>3, UndoPushes DEF Draft, StoreInv
  <2>5. Knows(j, had') BY <1>1, <2>3, WorkKnows, Places
  <2>6. Quietly(p, j) /\ Free("undo", p) BY <1>3 DEF Draft
  <2> HIDE DEF j
  <2>7. NewestIs(undo'[j.f], j.text) BY <2>1, <2>4
  <2> QED BY <2>1, <2>2, <2>4, <2>5, <2>6, <2>7, StoreStep
\* The commands that write at once.
<1>4. ASSUME NEW f \in File, NEW text \in Hash \cup {None}, NEW w \in Hash,
             NEW at \in {"publish", "flushPublish", "createRecord", "invalidate"},
             NEW old \in had'[f] \cup {None}, old \in Hash \cup {None},
             Goes(p, f, Work(at, f, w, old, << >>)), Write(f, text),
             undo' = undo \/ Free("undo", p),
             Grows(had, had') => UndoRemembers'
      PROVE  StoreInv'
  <2> DEFINE j == Work(at, f, w, old, << >>)
  <2>1. at \in Place BY Places
  <2>2. j \in Working /\ j.at = at BY <1>4, <2>1, WorkType, EmptyDone DEF Work
  <2>3. Grows(had, had') /\ DiskHad' BY <1>4, WriteHad DEF Write, StoreInv
  <2>4. UndoRemembers' BY <1>4, <2>3
  <2>5. Knows(j, had') BY <1>4, <2>1, WorkKnows
  <2> HIDE DEF j
  <2> QED BY <1>4, <2>2, <2>3, <2>4, <2>5, StoreStep DEF HeldAt, j
<1>5. ASSUME NEW f \in File, NEW text \in Hash, CreateFile(p, f, text) \/ WriteFile(p, f, text)
      PROVE  StoreInv'
  <2>1. Grows(had, had') => UndoRemembers'
    BY <1>5, UndoSame DEF CreateFile, WriteFile, StoreInv
  <2> QED BY <1>4, <1>5, <2>1 DEF CreateFile, WriteFile
<1>6. ASSUME NEW f \in File, DeletePath(p, f) PROVE StoreInv'
  <2>1. Grows(had, had') => UndoRemembers' BY <1>6, UndoSame DEF DeletePath, StoreInv
  <2>2. disk[f] \in Hash BY <1>1, <1>6 DEF DeletePath
  <2> QED BY <1>4, <1>6, <2>1, <2>2 DEF DeletePath
<1>7. ASSUME Quietly(p, Idle), UNCHANGED << disk, had >>, Free("undo", p),
             NEW f \in File, Grows(had, had') => UndoRemembers'
      PROVE  StoreInv'
  BY <1>7, UnwrittenHad, StoreStep DEF StoreInv
<1>8. ASSUME NEW f \in File, NEW text \in Hash, NEW i \in DOMAIN undo[f],
             Revise(p, f, i, text)
      PROVE  StoreInv'
  <2> DEFINE e == undo[f][i]
  <2>1. e.text \in Hash /\ e.previous \in Hash \cup {None} BY UndoneEntry
  <2>2. e.previous \in had[f] \cup {None} BY DEF StoreInv, UndoRemembers, Remembers
  <2>3. PICK flushed \in BOOLEAN :
          /\ undo' = [undo EXCEPT ![f] = Pushed(@, Entry4(text, e.text, e.previous, flushed))]
          /\ IF flushed
             THEN Write(f, text) /\ Goes(p, f, Work("publish", f, text, None, << >>))
             ELSE Quietly(p, Idle) /\ UNCHANGED << disk, cached, had >>
    BY <1>8 DEF Revise
  <2> HIDE DEF e
  <2>4. Free("undo", p) BY <1>8 DEF Revise
  <2>5. ASSUME Grows(had, had') PROVE UndoRemembers'
    <3>1. e.previous \in had'[f] \cup {None} BY <2>2, <2>5 DEF Grows
    <3>2. flushed => text \in had'[f]
      BY <2>3, NoneAssumption DEF Write, TypeInv, TypeOK
    <3> QED BY <2>1, <2>3, <2>5, <3>1, <3>2, UndoPushes DEF StoreInv
  <2>6. CASE flushed BY <1>4, <2>3, <2>4, <2>5, <2>6
  <2>7. CASE ~flushed BY <1>7, <2>3, <2>4, <2>5, <2>7
  <2> QED BY <2>6, <2>7
<1>9. ASSUME NEW f \in File, NEW i \in DOMAIN undo[f], Flush(p, f, i) PROVE StoreInv'
  <2> DEFINE text == undo[f][i].text
  <2>1. text \in Hash BY UndoneEntry
  <2>2. /\ Write(f, text)
        /\ undo' = [g \in File |-> [k \in DOMAIN undo[g] |->
              IF undo[g][k].text = text /\ FoundAt(g, k)
              THEN [undo[g][k] EXCEPT !.flushed = TRUE] ELSE undo[g][k]]]
        /\ Goes(p, f, Work("flushPublish", f, text, None, << >>))
        /\ Free("undo", p)
    BY <1>9 DEF Flush
  <2> HIDE DEF text
  <2>3. text \in had'[f] BY <2>1, <2>2, NoneAssumption DEF Write, TypeInv, TypeOK
  <2>4. ASSUME Grows(had, had') PROVE UndoRemembers'
    <3>1. ASSUME NEW g \in File, NEW k \in DOMAIN undo'[g]
          PROVE  Remembers(undo'[g][k], g, had')
      <4>1. k \in DOMAIN undo[g] BY <2>2
      <4>2. Remembers(undo[g][k], g, had') /\ undo[g][k] \in UndoEntry
        BY <2>4, <4>1, RemembersGrows, UndoneEntry DEF StoreInv, UndoRemembers
      <4>3. CASE undo[g][k].text = text
        BY <2>2, <2>3, <4>1, <4>2, <4>3, MarkRemembers
      <4>4. CASE undo[g][k].text # text BY <2>2, <4>1, <4>2, <4>4
      <4> QED BY <4>3, <4>4
    <3> QED BY <3>1 DEF UndoRemembers
  <2> QED BY <1>4, <2>1, <2>2, <2>4
<1>10. ASSUME NEW f \in File, NEW i \in DOMAIN undo[f], Undo(p, f, i) PROVE StoreInv'
  <2>1. undo[f][i] \in UndoEntry BY UndoneEntry
  <2>2. \A text \in IF undo[f][i].previous # None
                    THEN {undo[f][i].previous} ELSE Fallbacks(undo[f][i], f) : text \in Hash
    BY <2>1, UndoneText
  <2>3. Grows(had, had') => UndoRemembers'
    BY <1>10, UndoRemoves DEF Undo, StoreInv
  <2>4. Free("undo", p) BY <1>10 DEF Undo
  <2>5. \/ \E text \in Hash : Write(f, text)
                              /\ Goes(p, f, Work("publish", f, text, None, << >>))
        \/ Quietly(p, Idle) /\ UNCHANGED << disk, had >>
    BY <1>10, <2>2 DEF Undo
  <2> QED BY <1>4, <1>7, <2>3, <2>4, <2>5
<1>11. ASSUME NEW f \in File, NEW text \in Hash, BatchRead(p, f, text) PROVE StoreInv'
  <2> DEFINE done == IF job[p] = Idle THEN << >> ELSE job[p].done
             j == Work("batchWrite", f, text, disk[f], done)
  <2>1. disk[f] \in Hash BY <1>11 DEF BatchRead, TypeInv, TypeOK
  <2>2. done \in Seq(DoneEdit)
    <3>1. CASE job[p] = Idle BY <3>1, EmptyDone
    <3>2. CASE job[p] # Idle
      <4>1. job[p] \in Working BY <3>2 DEF TypeInv, TypeOK
      <4> QED BY <3>2, <4>1 DEF Working
    <3> QED BY <3>1, <3>2
  <2>3. j \in Working /\ j.at = "batchWrite" BY <2>1, <2>2, WorkType, Places DEF Work
  <2>4. Grows(had, had') /\ DiskHad' /\ UndoRemembers' /\ had' = had
    BY <1>11, UnwrittenHad, UndoSame DEF BatchRead, StoreInv
  <2>5. \A k \in DOMAIN done :
           done[k].text \in had[done[k].f] /\ done[k].old \in had[done[k].f] \cup {None}
    BY DEF StoreInv, JobsKnow, Knows
  <2> HIDE DEF done
  <2>6. Knows(j, had') BY <2>4, <2>5 DEF Knows, Work, StoreInv, DiskHad
  <2>7. Quietly(p, j) /\ undo' = undo BY <1>11 DEF BatchRead, done
  <2> HIDE DEF j
  <2> QED BY <2>3, <2>4, <2>6, <2>7, StoreStep DEF HeldAt
<1>12. ASSUME NEW f \in File, ContextRead(p, f) PROVE StoreInv'
  <2> DEFINE w == Work("contextRegister", f, SnapshotText(f), None, << >>)
             j == [w EXCEPT !.late = f \in torn']
  <2>1. SnapshotText(f) \in Hash BY <1>12, FilesRead DEF ContextRead
  <2>2. w \in Working /\ w.at = "contextRegister" /\ w.old = None /\ w.done = << >>
    BY <2>1, WorkType, Places, EmptyDone DEF Work
  <2>3. /\ j \in Working /\ j.at = "contextRegister" /\ j.old = None /\ j.done = << >>
    <3>1. PICK v \in Working : v = w BY <2>2
    <3>2. ASSUME NEW b \in BOOLEAN
          PROVE  /\ [v EXCEPT !.late = b] \in Working
                 /\ [v EXCEPT !.late = b].at = v.at /\ [v EXCEPT !.late = b].old = v.old
                 /\ [v EXCEPT !.late = b].done = v.done
      BY DEF Working
    <3> HIDE DEF w
    <3>3. (f \in torn') \in BOOLEAN OBVIOUS
    <3>4. j = [v EXCEPT !.late = f \in torn'] BY <3>1
    <3> QED BY <2>2, <3>1, <3>2, <3>3, <3>4
  <2>4. Quietly(p, j) BY <1>12 DEF ContextRead, Quietly
  <2>5. Grows(had, had') /\ DiskHad' /\ UndoRemembers' /\ undo' = undo
    BY <1>12, UnwrittenHad, UndoSame DEF ContextRead, StoreInv
  <2> HIDE DEF j, w
  <2>6. Knows(j, had') BY <2>3 DEF Knows
  <2> QED BY <2>3, <2>4, <2>5, <2>6, StoreStep DEF HeldAt
<1> QED BY <1>2, <1>3, <1>5, <1>6, <1>8, <1>9, <1>10, <1>11, <1>12 DEF Calls

LEMMA MovesKeepKnowledge ==
    ASSUME NEW w \in Working, NEW at \in Place
    PROVE  /\ [w EXCEPT !.at = at].f = w.f /\ [w EXCEPT !.at = at].text = w.text
           /\ [w EXCEPT !.at = at].old = w.old /\ [w EXCEPT !.at = at].done = w.done
           /\ [w EXCEPT !.at = at, !.late = FALSE].f = w.f
           /\ [w EXCEPT !.at = at, !.late = FALSE].text = w.text
           /\ [w EXCEPT !.at = at, !.late = FALSE].old = w.old
           /\ [w EXCEPT !.at = at, !.late = FALSE].done = w.done
BY DEF Working

\* A step of a call that leaves the undo store alone.
LEMMA StoreLeft ==
    ASSUME TypeInv, StoreInv, NEW p \in Proc, NEW f \in File, NEW j \in Working \cup {Idle},
           Quietly(p, j) \/ Goes(p, f, j), undo' = undo, Grows(had, had'), DiskHad',
           Knows(j, had'), j.at \notin HeldAt["undo"]
    PROVE  StoreInv'
<1>1. UndoRemembers' BY UndoSame DEF StoreInv
<1>2. j.at \notin {"draftRegister", "draftWrite"} BY DEF HeldAt
<1> QED BY <1>1, <1>2, StoreStep

LEMMA GivesUpStore ==
    ASSUME TypeInv, StoreInv, NEW p \in Proc, job[p].at # "idle", GivesUp(p)
    PROVE  StoreInv'
BY AtWork, IdleKnows, UnwrittenHad, StoreLeft DEF GivesUp, StoreInv

LEMMA KnownWritten ==
    ASSUME TypeInv, JobsKnow, Grows(had, had'), NEW p \in Proc, job[p].at # "idle"
    PROVE  /\ job[p].old \in had'[job[p].f] \cup {None}
           /\ job[p].at \in {"record", "register", "push", "batchRecord"}
                 => job[p].text \in had'[job[p].f]
           /\ \A k \in DOMAIN job[p].done :
                 /\ job[p].done[k].text \in had'[job[p].done[k].f]
                 /\ job[p].done[k].old \in had'[job[p].done[k].f] \cup {None}
<1>1. job[p] \in Working /\ job[p] # Idle BY AtWork
<1>2. Knows(job[p], had') BY <1>1, KnowsGrows DEF JobsKnow
<1> QED BY <1>1, <1>2 DEF Knows

\* A step that goes on with the same job elsewhere.
Moves(p, at) ==
    \/ Quietly(p, [job[p] EXCEPT !.at = at])
    \/ Goes(p, job[p].f, [job[p] EXCEPT !.at = at])
    \/ Goes(p, job[p].f, [job[p] EXCEPT !.at = at, !.late = FALSE])

LEMMA StoreMoves ==
    ASSUME TypeInv, StoreInv, NEW p \in Proc, job[p].at # "idle",
           NEW at \in Place, Moves(p, at), undo' = undo,
           Grows(had, had'), DiskHad', at \notin HeldAt["undo"],
           at \in {"record", "register", "push", "batchRecord"}
              => job[p].text \in had'[job[p].f]
    PROVE  StoreInv'
<1>1. job[p] \in Working /\ job[p] # Idle /\ job[p].f \in File BY AtWork
<1>2. PICK j : /\ j = [job[p] EXCEPT !.at = at] \/ j = [job[p] EXCEPT !.at = at, !.late = FALSE]
               /\ Quietly(p, j) \/ Goes(p, job[p].f, j)
  BY DEF Moves
<1>3. /\ j \in Working /\ j.at = at
      /\ j.f = job[p].f /\ j.text = job[p].text /\ j.old = job[p].old
      /\ j.done = job[p].done
  <2>1. PICK w \in Working : w = job[p] BY <1>1
  <2>2. j = [w EXCEPT !.at = at] \/ j = [w EXCEPT !.at = at, !.late = FALSE]
    BY <1>2, <2>1
  <2>3. /\ j \in Working /\ j.at = at
        /\ j.f = w.f /\ j.text = w.text /\ j.old = w.old /\ j.done = w.done
    <3>1. CASE j = [w EXCEPT !.at = at] BY <3>1, MovesOn, MovesKeepKnowledge
    <3>2. CASE j = [w EXCEPT !.at = at, !.late = FALSE]
      BY <3>2, MovesOn, MovesKeepKnowledge
    <3> QED BY <2>2, <3>1, <3>2
  <2> QED BY <2>1, <2>3
<1>4. /\ job[p].old \in had'[job[p].f] \cup {None}
      /\ \A k \in DOMAIN job[p].done :
            /\ job[p].done[k].text \in had'[job[p].done[k].f]
            /\ job[p].done[k].old \in had'[job[p].done[k].f] \cup {None}
  BY KnownWritten DEF StoreInv
<1>5. Knows(j, had') BY <1>3, <1>4 DEF Knows
<1>6. PICK f \in File : f = job[p].f BY <1>1
<1>7. Quietly(p, j) \/ Goes(p, f, j) BY <1>2, <1>6
<1> QED BY <1>3, <1>5, <1>7, StoreLeft

LEMMA StepsStore ==
    ASSUME TypeInv, StoreInv, NEW p \in Proc, Steps(p)
    PROVE  StoreInv'
<1> USE IdleKnows
<1> DEFINE f == job[p].f
           text == job[p].text
           old == job[p].old
<1>0. job[p].at # "idle"
  BY DEF Steps, LineEditsWrite, LineEditsRecord, LineEditsRegister, LineEditsPush,
         DraftRegister, DraftWrite, FlushPublish, PublishAndReturn, BatchWrite, BatchRecord,
         BatchFails, BatchPush, CreateRecord, DeleteInvalidate, ContextRegister
<1>1. /\ job[p] \in Working /\ job[p] # Idle /\ f \in File /\ text \in Hash
      /\ old \in Hash \cup {None} /\ job[p].done \in Seq(DoneEdit)
  BY <1>0, AtWork
<1> HIDE DEF f, text, old
<1>2. ASSUME NEW at \in Place, Moves(p, at), undo' = undo,
             Grows(had, had'), DiskHad', at \notin HeldAt["undo"],
             at \in {"record", "register", "push", "batchRecord"} => text \in had'[f]
      PROVE  StoreInv'
  BY <1>0, <1>2, StoreMoves DEF f, text
\* A step that ends the call and leaves the files and the undo store.
<1>3. ASSUME Quietly(p, Idle) \/ Goes(p, f, Idle), UNCHANGED << disk, had, undo >>
      PROVE  StoreInv'
  BY <1>1, <1>3, UnwrittenHad, StoreLeft DEF StoreInv
<1>4. ASSUME Write(f, text) PROVE Grows(had, had') /\ DiskHad' /\ text \in had'[f]
  BY <1>1, <1>4, WriteHad, NoneAssumption DEF Write, StoreInv
<1>5. ASSUME UNCHANGED << disk, had >> PROVE Grows(had, had') /\ DiskHad'
  BY <1>5, UnwrittenHad DEF StoreInv
<1>6. CASE LineEditsWrite(p)
  <2>1. CASE GivesUp(p) BY <1>0, <2>1, GivesUpStore
  <2>2. CASE ~GivesUp(p)
    <3>1. /\ Write(f, text) /\ undo' = undo
          /\ Goes(p, f, [job[p] EXCEPT !.at = "record", !.late = FALSE])
      BY <1>6, <2>2 DEF LineEditsWrite, f, text
    <3>2. Moves(p, "record") BY <3>1 DEF Moves, f
    <3>3. "record" \in Place /\ "record" \notin HeldAt["undo"] BY Places DEF HeldAt
    <3> QED BY <1>2, <1>4, <3>1, <3>2, <3>3
  <2> QED BY <2>1, <2>2
<1>7. CASE LineEditsRecord(p)
  <2>1. job[p].at = "record" /\ Quietly(p, [job[p] EXCEPT !.at = "register"])
        /\ UNCHANGED << disk, had, undo >>
    BY <1>7 DEF LineEditsRecord
  <2>2. text \in had'[f] BY <1>0, <1>5, <2>1, KnownWritten DEF StoreInv, f, text
  <2>3. Moves(p, "register") BY <2>1 DEF Moves
  <2>4. "register" \in Place /\ "register" \notin HeldAt["undo"] BY Places DEF HeldAt
  <2> QED BY <1>2, <1>5, <2>1, <2>2, <2>3, <2>4
<1>8. CASE LineEditsRegister(p)
  <2>1. job[p].at = "register" /\ Goes(p, f, [job[p] EXCEPT !.at = "push"])
        /\ UNCHANGED << disk, had, undo >>
    BY <1>8 DEF LineEditsRegister, f
  <2>2. text \in had'[f] BY <1>0, <1>5, <2>1, KnownWritten DEF StoreInv, f, text
  <2>3. Moves(p, "push") BY <2>1 DEF Moves, f
  <2>4. "push" \in Place /\ "push" \notin HeldAt["undo"] BY Places DEF HeldAt
  <2> QED BY <1>2, <1>5, <2>1, <2>2, <2>3, <2>4
<1>9. CASE LineEditsPush(p)
  <2>1. /\ job[p].at = "push" /\ Free("undo", p) /\ Quietly(p, Idle)
        /\ UNCHANGED << disk, had >>
        /\ undo' = [undo EXCEPT ![f] = Pushed(@, Entry4(text, None, old, TRUE))]
    BY <1>9 DEF LineEditsPush, f, text, old
  <2>2. old \in had'[f] \cup {None} /\ text \in had'[f]
    BY <1>0, <1>5, <2>1, KnownWritten DEF StoreInv, f, text, old
  <2>3. UndoRemembers' BY <1>1, <1>5, <2>1, <2>2, UndoPushes DEF StoreInv
  <2> QED BY <1>1, <1>5, <2>1, <2>3, StoreStep
<1>10. CASE DraftRegister(p)
  <2>1. /\ job[p].at = "draftRegister" /\ UNCHANGED << disk, had, undo >>
        /\ \/ Goes(p, f, [job[p] EXCEPT !.at = "draftWrite", !.late = FALSE])
           \/ Goes(p, f, Idle)
    BY <1>10 DEF DraftRegister, f
  <2>2. CASE Goes(p, f, Idle) BY <1>3, <2>1, <2>2
  <2>3. CASE Goes(p, f, [job[p] EXCEPT !.at = "draftWrite", !.late = FALSE])
    <3> DEFINE j == [job[p] EXCEPT !.at = "draftWrite", !.late = FALSE]
    <3>0. "draftWrite" \in Place BY Places
    <3>1. j \in Working /\ j.at = "draftWrite"
      <4>1. PICK w \in Working : w = job[p] BY <1>1
      <4>2. /\ [w EXCEPT !.at = "draftWrite", !.late = FALSE] \in Working
            /\ [w EXCEPT !.at = "draftWrite", !.late = FALSE].at = "draftWrite"
        BY <3>0, MovesOn
      <4>3. j = [w EXCEPT !.at = "draftWrite", !.late = FALSE] BY <4>1
      <4> QED BY <4>2, <4>3
    <3>2. j.f = f /\ j.text = text /\ j.old = old /\ j.done = job[p].done
      BY <1>1, <3>0, MovesKeepKnowledge DEF f, text, old
    <3> HIDE DEF j
    <3>3. /\ old \in had'[f] \cup {None}
          /\ \A k \in DOMAIN job[p].done :
                /\ job[p].done[k].text \in had'[job[p].done[k].f]
                /\ job[p].done[k].old \in had'[job[p].done[k].f] \cup {None}
      BY <1>0, <1>5, <2>1, KnownWritten DEF StoreInv, f, old
    <3>4. Knows(j, had') BY <3>1, <3>2, <3>3 DEF Knows
    <3>5. NewestIs(undo'[j.f], j.text)
      BY <2>1, <3>2 DEF StoreInv, DraftIsNewest, f, text
    <3>6. Free("undo", p) BY <2>1, HolderFree DEF HeldAt, StoreInv
    <3>7. UndoRemembers' BY <1>5, <2>1, UndoSame DEF StoreInv
    <3>8. Goes(p, f, j) BY <2>3 DEF j
    <3> QED BY <1>1, <1>5, <2>1, <3>1, <3>4, <3>5, <3>6, <3>7, <3>8, StoreStep
  <2> QED BY <2>1, <2>2, <2>3
<1>11. CASE DraftWrite(p)
  <2>1. CASE GivesUp(p) BY <1>0, <2>1, GivesUpStore
  <2>2. CASE ~GivesUp(p)
    <3>1. /\ job[p].at = "draftWrite" /\ Write(f, text) /\ Goes(p, f, Idle)
          /\ undo' = [undo EXCEPT ![f] = [@ EXCEPT ![Len(@)].flushed = TRUE]]
      BY <1>11, <2>2 DEF DraftWrite, f, text
    <3>2. NewestIs(undo[f], text) BY <3>1 DEF StoreInv, DraftIsNewest, f, text
    <3>3. undo \in [File -> Seq(UndoEntry)] /\ undo[f] \in Seq(UndoEntry)
      BY <1>1 DEF TypeInv, TypeOK
    <3> DEFINE n == Len(undo[f])
    <3>4. n \in DOMAIN undo[f] /\ undo[f][n].text = text
      BY <3>2, <3>3 DEF NewestIs
    <3>5. /\ undo'[f] = [undo[f] EXCEPT ![n] = [undo[f][n] EXCEPT !.flushed = TRUE]]
          /\ \A g \in File \ {f} : undo'[g] = undo[g]
      BY <1>1, <3>1, <3>3
    <3> HIDE DEF n
    <3>6. ASSUME NEW g \in File, NEW k \in DOMAIN undo'[g]
          PROVE  Remembers(undo'[g][k], g, had')
      <4>1. k \in DOMAIN undo[g] BY <3>5
      <4>2. Remembers(undo[g][k], g, had') /\ undo[g][k] \in UndoEntry
        BY <1>4, <3>1, <4>1, RemembersGrows, UndoneEntry DEF StoreInv, UndoRemembers
      <4>3. CASE g = f /\ k = n
        BY <1>1, <1>4, <3>1, <3>4, <3>5, <4>2, <4>3, MarkRemembers
      <4>4. CASE ~(g = f /\ k = n) BY <3>5, <4>1, <4>2, <4>4
      <4> QED BY <4>3, <4>4
    <3>7. UndoRemembers' BY <3>6 DEF UndoRemembers
    <3>8. Free("undo", p) BY <3>1, HolderFree DEF HeldAt, StoreInv
    <3> QED BY <1>1, <1>4, <3>1, <3>7, <3>8, StoreStep
  <2> QED BY <2>1, <2>2
<1>12. CASE FlushPublish(p) \/ PublishAndReturn(p) \/ ContextRegister(p) \/ DeleteInvalidate(p)
  BY <1>3, <1>12
     DEF FlushPublish, PublishAndReturn, ContextRegister, DeleteInvalidate, f
<1>13. CASE CreateRecord(p)
  <2>1. Quietly(p, [job[p] EXCEPT !.at = "publish"]) /\ UNCHANGED << disk, had, undo >>
    BY <1>13 DEF CreateRecord
  <2>2. Moves(p, "publish") BY <2>1 DEF Moves
  <2>3. "publish" \in Place /\ "publish" \notin HeldAt["undo"] BY Places DEF HeldAt
  <2> QED BY <1>2, <1>5, <2>1, <2>2, <2>3
<1>14. CASE BatchWrite(p)
  <2>1. CASE GivesUp(p) BY <1>0, <2>1, GivesUpStore
  <2>2. CASE Quietly(p, Idle) /\ UNCHANGED << disk, had, undo >> BY <1>3, <2>2
  <2>3. CASE /\ disk' = [disk EXCEPT ![f] = text] /\ had' = [had EXCEPT ![f] = @ \cup {text}]
             /\ Goes(p, f, [job[p] EXCEPT !.at = "batchRecord", !.late = FALSE])
             /\ undo' = undo
    <3>1. had' = [had EXCEPT ![f] = @ \cup ({text} \ {None})]
      <4>1. {text} \ {None} = {text} BY <1>1, NoneAssumption
      <4> QED BY <2>3, <4>1
    <3>2. Grows(had, had') /\ DiskHad' /\ text \in had'[f]
      BY <1>1, <2>3, <3>1, WriteHad, NoneAssumption DEF StoreInv
    <3>3. Moves(p, "batchRecord") BY <2>3 DEF Moves, f
    <3>4. "batchRecord" \in Place /\ "batchRecord" \notin HeldAt["undo"] BY Places DEF HeldAt
    <3> QED BY <1>2, <2>3, <3>2, <3>3, <3>4
  <2> QED BY <1>14, <2>1, <2>2, <2>3 DEF BatchWrite, f, text
<1>15. CASE BatchRecord(p)
  <2> DEFINE d == [f |-> f, text |-> text, old |-> old]
  <2>1. job[p].at = "batchRecord" /\ UNCHANGED << disk, had, undo >>
    BY <1>15 DEF BatchRecord
  <2>2. PICK at \in {"batchNext", "batchPush"} :
          Goes(p, f, [job[p] EXCEPT !.at = at, !.done = Append(@, d)])
    BY <1>15 DEF BatchRecord, f, text, old
  <2>3. d \in DoneEdit
    <3>1. old \in Hash BY <2>1 DEF TypeInv, BatchReadText, old
    <3> QED BY <1>1, <3>1 DEF DoneEdit
  <2> DEFINE j == [job[p] EXCEPT !.at = at, !.done = Append(@, d)]
             done == Append(job[p].done, d)
  <2>4. /\ j \in Working /\ j.at = at /\ j.f = f /\ j.old = old
        /\ j.done = done
    <3>1. done \in Seq(DoneEdit) /\ at \in Place BY <1>1, <2>3, Places
    <3> HIDE DEF done, d
    <3>2. PICK w \in Working : w = job[p] BY <1>1
    <3>3. j = [w EXCEPT !.at = at, !.done = done] BY <1>1, <3>2 DEF done, Working
    <3> HIDE DEF j
    <3>4. /\ j \in Working /\ j.at = at /\ j.f = w.f /\ j.old = w.old /\ j.done = done
      BY <3>1, <3>3 DEF Working
    <3> QED BY <3>2, <3>4 DEF f, old
  <2>5. /\ old \in had'[f] \cup {None} /\ text \in had'[f]
        /\ \A k \in DOMAIN job[p].done :
              /\ job[p].done[k].text \in had'[job[p].done[k].f]
              /\ job[p].done[k].old \in had'[job[p].done[k].f] \cup {None}
    BY <1>0, <1>5, <2>1, KnownWritten DEF StoreInv, f, text, old
  <2>6. d.f = f /\ d.text = text /\ d.old = old OBVIOUS
  <2> HIDE DEF d
  <2>7. \A k \in DOMAIN done : done[k] = d \/ (k \in DOMAIN job[p].done /\ done[k] = job[p].done[k])
    BY <1>1, <2>3
  <2> HIDE DEF done
  <2>8. \A k \in DOMAIN done :
           done[k].text \in had'[done[k].f] /\ done[k].old \in had'[done[k].f] \cup {None}
    BY <2>5, <2>6, <2>7
  <2>9. Goes(p, f, j) BY <2>2 DEF d
  <2> HIDE DEF j
  <2>10. Knows(j, had') /\ j.at \notin HeldAt["undo"]
    BY <2>4, <2>5, <2>8 DEF Knows, HeldAt
  <2> QED BY <1>1, <1>5, <2>1, <2>4, <2>9, <2>10, StoreLeft
<1>16. CASE BatchFails(p) BY <1>0, <1>16, GivesUpStore DEF BatchFails
<1>17. CASE BatchPush(p)
  <2> DEFINE d == Head(job[p].done)
             rest == Tail(job[p].done)
             w == [job[p] EXCEPT !.at = "batchPushRest", !.done = rest]
             j == IF rest = << >> THEN Idle ELSE w
  <2>1. /\ job[p].at \in {"batchPush", "batchPushRest"} /\ UNCHANGED << disk, had >>
        /\ undo' = [undo EXCEPT ![d.f] = Pushed(@, Entry4(d.text, None, d.old, TRUE))]
        /\ Quietly(p, j)
    BY <1>17 DEF BatchPush
  <2>2. Free("undo", p)
    BY <1>17, HolderFree DEF BatchPush, HeldAt, StoreInv
  <2>3. /\ job[p].done # << >> /\ d \in DoneEdit /\ rest \in Seq(DoneEdit)
        /\ 1 \in DOMAIN job[p].done /\ d = job[p].done[1]
        /\ \A k \in DOMAIN rest : k + 1 \in DOMAIN job[p].done /\ rest[k] = job[p].done[k + 1]
    <3>1. job[p].done # << >> BY <2>1 DEF TypeInv, BatchHasEntries
    <3> QED BY <1>1, <3>1
  <2>4. /\ old \in had'[f] \cup {None}
        /\ \A k \in DOMAIN job[p].done :
              /\ job[p].done[k].text \in had'[job[p].done[k].f]
              /\ job[p].done[k].old \in had'[job[p].done[k].f] \cup {None}
    BY <1>0, <1>5, <2>1, KnownWritten DEF StoreInv, f, old
  <2> HIDE DEF d, rest
  <2>5. /\ d.f \in File /\ d.text \in Hash /\ d.old \in Hash
        /\ d.text \in had'[d.f] /\ d.old \in had'[d.f] \cup {None}
    BY <2>3, <2>4 DEF DoneEdit
  <2>6. UndoRemembers' BY <1>5, <2>1, <2>5, UndoPushes DEF StoreInv
  <2>7. /\ w \in Working /\ w.at = "batchPushRest" /\ w.f = f /\ w.old = old /\ w.done = rest
    <3>1. "batchPushRest" \in Place BY Places
    <3> QED BY <1>1, <2>3, <3>1 DEF Working, f, old
  <2> HIDE DEF w
  <2>8. \A k \in DOMAIN rest :
           rest[k].text \in had'[rest[k].f] /\ rest[k].old \in had'[rest[k].f] \cup {None}
    BY <2>3, <2>4
  <2>9. Knows(w, had') BY <2>4, <2>7, <2>8 DEF Knows
  <2>10. /\ j \in Working \cup {Idle} /\ Knows(j, had')
         /\ j.at \notin {"draftRegister", "draftWrite"}
    BY <2>7, <2>9
  <2> HIDE DEF j
  <2> QED BY <1>1, <1>5, <2>1, <2>2, <2>6, <2>10, StoreStep
<1> QED BY <1>6, <1>7, <1>8, <1>9, <1>10, <1>11, <1>12, <1>13, <1>14, <1>15, <1>16, <1>17
    DEF Steps

\* Others change or remove files; the watcher forgets.
LEMMA WorldStore ==
    ASSUME TypeInv, StoreInv, NEW g \in File,
           (\E text \in Hash \cup {None} : ExternalChange(g, text)) \/ WatcherInvalidates(g)
    PROVE  StoreInv'
<1>1. Grows(had, had') /\ DiskHad' /\ undo' = undo
  <2>1. CASE WatcherInvalidates(g)
    BY <2>1, UnwrittenHad DEF WatcherInvalidates, StoreInv
  <2>2. CASE \E text \in Hash \cup {None} : ExternalChange(g, text)
    BY <2>2, WriteHad DEF ExternalChange, Write, StoreInv
  <2> QED BY <2>1, <2>2
<1>2. ASSUME NEW q \in Proc
      PROVE  /\ job'[q].at = job[q].at /\ job'[q].f = job[q].f /\ job'[q].text = job[q].text
             /\ job'[q].old = job[q].old /\ job'[q].done = job[q].done
             /\ job'[q] = Idle <=> job[q] = Idle
  <2>1. \A w \in Working : /\ [w EXCEPT !.late = TRUE] \in Working
                           /\ [w EXCEPT !.late = TRUE].at = w.at
                           /\ [w EXCEPT !.late = TRUE].f = w.f
                           /\ [w EXCEPT !.late = TRUE].text = w.text
                           /\ [w EXCEPT !.late = TRUE].old = w.old
                           /\ [w EXCEPT !.late = TRUE].done = w.done
    BY DEF Working
  <2>2. job'[q] = job[q] \/ (job[q] # Idle /\ job'[q] = [job[q] EXCEPT !.late = TRUE])
    BY DEF ExternalChange, WatcherInvalidates
  <2>3. job[q] # Idle => job[q] \in Working BY DEF TypeInv, TypeOK
  <2> QED BY <2>1, <2>2, <2>3, IdleNotWorking
<1>3. JobsKnow'
  <2>1. ASSUME NEW q \in Proc PROVE Knows(job'[q], had')
    <3>1. job[q] \in Working \cup {Idle} BY DEF TypeInv, TypeOK
    <3>2. Knows(job[q], had') BY <1>1, <3>1, KnowsGrows DEF StoreInv, JobsKnow
    <3> QED BY <1>2, <3>2 DEF Knows
  <2> QED BY <2>1 DEF JobsKnow
<1>4. UndoRemembers' BY <1>1, UndoSame DEF StoreInv
<1>5. UndoHeldOnce' /\ DraftIsNewest'
  BY <1>1, <1>2 DEF StoreInv, UndoHeldOnce, DraftIsNewest, NewestIs
<1> QED BY <1>1, <1>3, <1>4, <1>5 DEF StoreInv

LEMMA InitStore == Init => StoreInv
<1> SUFFICES ASSUME Init PROVE StoreInv OBVIOUS
<1>1. \A p \in Proc : job[p] = Idle BY DEF Init
<1>2. ASSUME NEW f \in File PROVE disk[f] \in had[f] \cup {None}
  <2>1. had[f] = {disk[f]} \ {None} BY DEF Init
  <2> QED BY <2>1
<1>3. UndoRemembers BY DEF Init, UndoRemembers
<1> QED BY <1>1, <1>2, <1>3, IdleKnows
    DEF StoreInv, DiskHad, JobsKnow, UndoHeldOnce, DraftIsNewest

LEMMA StepStore == TypeInv /\ StoreInv /\ [Next]_vars => StoreInv'
<1> SUFFICES ASSUME TypeInv, StoreInv, [Next]_vars PROVE StoreInv' OBVIOUS
<1>1. CASE UNCHANGED vars
  BY <1>1 DEF vars, StoreInv, DiskHad, JobsKnow, UndoRemembers, UndoHeldOnce, DraftIsNewest
<1> QED BY <1>1, CallsStore, StepsStore, WorldStore DEF Next

LEMMA StoreHolds == Spec => []StoreInv
BY InitStore, StepStore, TypesHold, PTL DEF Spec

\* Every text an undo entry remembers as previous content once was in its file: what a
\* call read before it waited for the undo store, what batch_edits collected on the way,
\* and what a chain of revisions hands on (push_undo_entries, draft, revise).
THEOREM UndoIsFormer == Spec => []UndoRestoresFormer
<1>1. StoreInv => UndoRestoresFormer
  BY DEF StoreInv, UndoRemembers, Remembers, UndoRestoresFormer
<1> QED BY <1>1, StoreHolds, PTL

\* No undo entry is marked as flushed whose text was not written: draft marks its entry
\* under the undo store's lock, flush every entry with the hash it wrote.
THEOREM FlushedIsWritten == Spec => []FlushedWasWritten
<1>1. StoreInv => FlushedWasWritten
  BY DEF StoreInv, UndoRemembers, Remembers, FlushedWasWritten
<1> QED BY <1>1, StoreHolds, PTL
===============================================================================
