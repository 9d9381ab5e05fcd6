----------------------------- MODULE EditBackend ------------------------------
(***************************************************************************)
(* What the edit commands of atls_batch_query (batch_query/mod.rs) and the *)
(* file commands (file_ops.rs) do to the files, the snapshot cache         *)
(* (snapshot.rs), the hash registry (HashRegistry) and the undo store, when*)
(* calls overlap and files change behind the back end.                     *)
(*                                                                         *)
(* A call is cut where it awaits a lock or touches a file, so another call *)
(* or an external program may come in between.  A command that holds a     *)
(* lock over several steps keeps others out of it (Free); EditLocks is     *)
(* about the order in which locks are taken.  A step that may be rejected, *)
(* by a stale content_hash or the syntax gate, or fail to write, has an    *)
(* alternative that returns.  A call edits one file but for batch_edits;   *)
(* gofmt and line-ending formats are left out.                             *)
(***************************************************************************)
EXTENDS HashRegistry, SequencesExt

CONSTANTS
    Proc,         \* the calls that can run at the same time
    MaxCalls,     \* bound on the calls made, each file of batch_edits counted
    MaxEvents,    \* bound on external changes and watcher batches
    MaxEntries    \* UNDO_STORE_MAX_ENTRIES_PER_FILE

VARIABLES
    disk,         \* the text of each file, None when it does not exist
    cached,       \* the snapshot cache: a text, and whether the stat stored
                  \* with it is still that of the file
    undo,         \* the undo store: a stack of entries for each file
    job,          \* what each call is doing
    calls, events,
    had,          \* history: all texts a file had
    torn,         \* history: files cached after somebody wrote in between
    adrift        \* history: files whose latest registration need not be
                  \* what is on disk, see Publish, Draft and ExternalChange

ASSUME BoundsAssumption ==
    MaxCalls \in Nat /\ MaxEvents \in Nat /\ MaxEntries \in Nat \ {0}

vars == << registry, disk, cached, undo, job, calls, events, had, torn, adrift >>

Cached == [text : Hash, current : BOOLEAN]
UndoEntry == [text : Hash, parent : Hash \cup {None},
              previous : Hash \cup {None}, flushed : BOOLEAN]

\* Where a call is, named for what it does next.
Place == {"write", "record", "register", "push", "draftRegister", "draftWrite",
          "publish", "flushPublish", "batchWrite", "batchRecord", "batchNext",
          "batchPush", "batchPushRest", "contextRegister", "createRecord", "invalidate"}

\* An edit of batch_edits that has been written.
DoneEdit == [f : File, text : Hash, old : Hash]

Idle == [at |-> "idle"]
Working == [at : Place, f : File, text : Hash, old : Hash \cup {None},
            done : Seq(DoneEdit), late : BOOLEAN]
\* A call at work on file f: `text` is what it writes or registers, `old` what
\* it read, `done` the undo entries batch_edits will push, and `late` (history)
\* whether another wrote or registered f since the call's own last write.
Work(at, f, text, old, done) ==
    [at |-> at, f |-> f, text |-> text, old |-> old, done |-> done, late |-> FALSE]

TypeOK ==
    /\ TypeOKRegistry
    /\ disk \in [File -> Hash \cup {None}]
    /\ cached \in [File -> Cached \cup {None}]
    /\ undo \in [File -> Seq(UndoEntry)]
    /\ \A f \in File : Len(undo[f]) <= MaxEntries
    /\ job \in [Proc -> Working \cup {Idle}]
    /\ calls \in 0..MaxCalls /\ events \in 0..MaxEvents
    /\ had \in [File -> SUBSET Hash]
    /\ torn \subseteq File /\ adrift \subseteq File

(***************************************************************************)
(* Locks, writes and the undo store.                                       *)
(***************************************************************************)
HeldAt ==
    [undo |-> {"draftRegister", "draftWrite", "batchPushRest"},
     snapshot |-> {"record", "contextRegister", "batchWrite", "batchRecord", "batchNext"},
     registry |-> {"batchWrite", "batchRecord", "batchNext"}]

Free(lock, p) == \A q \in Proc \ {p} : job[q].at \notin HeldAt[lock]

\* The jobs after p wrote or registered f: others at work on f come late now.
Overtaken(p, f) ==
    [q \in Proc |-> IF q # p /\ job[q] # Idle /\ job[q].f = f
                    THEN [job[q] EXCEPT !.late = TRUE] ELSE job[q]]

\* p goes on as j, after touching f.
Goes(p, f, j) == job' = [Overtaken(p, f) EXCEPT ![p] = j]
Quietly(p, j) == job' = [job EXCEPT ![p] = j]

\* Mutant: the size alone tells whether the cache is current.
WriteSameSize(f, text) ==
    /\ disk' = [disk EXCEPT ![f] = text]
    /\ had' = [had EXCEPT ![f] = @ \cup ({text} \ {None})]
    /\ cached' = cached

\* atomic_write, or any other change of the file: the stat changes too.
Write(f, text) ==
    /\ disk' = [disk EXCEPT ![f] = text]
    /\ cached' = [cached EXCEPT
           ![f] = IF @ = None THEN None ELSE [@ EXCEPT !.current = FALSE]]
    /\ had' = [had EXCEPT ![f] = @ \cup ({text} \ {None})]

\* record_write: the text the call wrote, with the stat the file has now.
RecordWrite(p, f, text) ==
    /\ cached' = [cached EXCEPT ![f] = [text |-> text, current |-> TRUE]]
    /\ torn' = IF job[p].late THEN torn \cup {f} ELSE torn \ {f}

\* get_resolved: the cache when its stat is that of the file, else the file.
SnapshotText(f) ==
    IF cached[f] # None /\ cached[f].current THEN cached[f].text ELSE disk[f]

ReadSnapshot(f) ==
    /\ disk[f] # None
    /\ cached' = [cached EXCEPT ![f] = [text |-> SnapshotText(f), current |-> TRUE]]
    /\ torn' = IF cached[f] # None /\ cached[f].current THEN torn ELSE torn \ {f}

Entry4(text, parent, previous, flushed) ==
    [text |-> text, parent |-> parent, previous |-> previous, flushed |-> flushed]

\* Mutant: the oldest entry is kept too.
PushedUncapped(stack, e) == Append(stack, e)

Pushed(stack, e) ==
    IF Len(stack) >= MaxEntries THEN Append(Tail(stack), e) ELSE Append(stack, e)

\* Where a command that names a hash finds an entry of file f: the newest.
FoundAt(f, i) ==
    /\ i \in DOMAIN undo[f]
    /\ \A k \in DOMAIN undo[f] : k > i => undo[f][k].text # undo[f][i].text

Start(p) ==
    /\ job[p] = Idle
    /\ calls < MaxCalls
    /\ calls' = calls + 1
    /\ UNCHANGED events

GoOn == UNCHANGED << calls, events >>

\* Register the call's text; whether the registry now tells what is on disk
\* depends on whether somebody came in between.
Publish(p, text) ==
    /\ Register(job[p].text, text, job[p].f)
    /\ adrift' = IF job[p].late THEN adrift \cup {job[p].f} ELSE adrift \ {job[p].f}

\* Return early: rejected, or the write failed.
GivesUp(p) ==
    /\ Quietly(p, Idle)
    /\ GoOn
    /\ UNCHANGED << registry, disk, cached, undo, had, torn, adrift >>

(***************************************************************************)
(* line_edits.                                                             *)
(***************************************************************************)
\* The file is read before any lock is held.
LineEditsRead(p, f, text) ==
    /\ Start(p)
    /\ disk[f] # None
    /\ Quietly(p, Work("write", f, text, disk[f], << >>))
    /\ UNCHANGED << registry, disk, cached, undo, had, torn, adrift >>

LineEditsWrite(p) ==
    /\ job[p].at = "write"
    /\ Free("snapshot", p)
    /\ \/ /\ Write(job[p].f, job[p].text)
          /\ Goes(p, job[p].f, [job[p] EXCEPT !.at = "record", !.late = FALSE])
          /\ GoOn
          /\ UNCHANGED << registry, undo, torn, adrift >>
       \/ GivesUp(p)

LineEditsRecord(p) ==
    /\ job[p].at = "record"
    /\ RecordWrite(p, job[p].f, job[p].text)
    /\ Quietly(p, [job[p] EXCEPT !.at = "register"])
    /\ GoOn
    /\ UNCHANGED << registry, disk, undo, had, adrift >>

\* Mutant: the text that was read is registered, not the one written.
LineEditsRegisterOld(p) ==
    /\ job[p].at = "register"
    /\ Free("registry", p)
    /\ Register(job[p].old, job[p].old, job[p].f)
    /\ adrift' = IF job[p].late THEN adrift \cup {job[p].f} ELSE adrift \ {job[p].f}
    /\ Goes(p, job[p].f, [job[p] EXCEPT !.at = "push"])
    /\ GoOn
    /\ UNCHANGED << disk, cached, undo, had, torn >>

LineEditsRegister(p) ==
    /\ job[p].at = "register"
    /\ Free("registry", p)
    /\ Publish(p, job[p].text)
    /\ Goes(p, job[p].f, [job[p] EXCEPT !.at = "push"])
    /\ GoOn
    /\ UNCHANGED << disk, cached, undo, had, torn >>

LineEditsPush(p) ==
    /\ job[p].at = "push"
    /\ Free("undo", p)
    /\ undo' = [undo EXCEPT ![job[p].f] =
           Pushed(@, Entry4(job[p].text, None, job[p].old, TRUE))]
    /\ Quietly(p, Idle)
    /\ GoOn
    /\ UNCHANGED << registry, disk, cached, had, torn, adrift >>

(***************************************************************************)
(* draft, revise and flush hold the undo store while they write; draft also*)
(* registers its text under it, before the gate and the write.             *)
(***************************************************************************)
Draft(p, f, text) ==
    /\ Start(p)
    /\ Free("undo", p)
    /\ Free("snapshot", p)
    /\ undo' = [undo EXCEPT ![f] = Pushed(@, Entry4(text, disk[f], disk[f], FALSE))]
    /\ Quietly(p, Work("draftRegister", f, text, disk[f], << >>))
    /\ UNCHANGED << registry, disk, cached, had, torn, adrift >>

\* What is registered is not on disk yet, and need never be.
DraftRegister(p) ==
    /\ job[p].at = "draftRegister"
    /\ Free("registry", p)
    /\ Register(job[p].text, job[p].text, job[p].f)
    /\ adrift' = adrift \cup {job[p].f}
    /\ \/ Goes(p, job[p].f, [job[p] EXCEPT !.at = "draftWrite", !.late = FALSE])
       \/ Goes(p, job[p].f, Idle)
    /\ GoOn
    /\ UNCHANGED << disk, cached, undo, had, torn >>

\* Mutant: the entry is marked whether or not the file was written.
DraftMarksUnwritten(p) ==
    /\ job[p].at = "draftWrite"
    /\ \/ Write(job[p].f, job[p].text)
       \/ UNCHANGED << disk, cached, had >>
    /\ undo' = [undo EXCEPT ![job[p].f] = [@ EXCEPT ![Len(@)].flushed = TRUE]]
    /\ Goes(p, job[p].f, Idle)
    /\ GoOn
    /\ UNCHANGED << registry, torn, adrift >>

DraftWrite(p) ==
    /\ job[p].at = "draftWrite"
    /\ \/ /\ Write(job[p].f, job[p].text)
          /\ undo' = [undo EXCEPT ![job[p].f] = [@ EXCEPT ![Len(@)].flushed = TRUE]]
          /\ adrift' = IF job[p].late THEN adrift \cup {job[p].f} ELSE adrift \ {job[p].f}
          /\ Goes(p, job[p].f, Idle)
          /\ GoOn
          /\ UNCHANGED << registry, torn >>
       \/ GivesUp(p)

\* Mutant: the undo entry of a revision keeps the draft as previous content.
ReviseKeepsDraft(p, f, i, text) ==
    /\ Start(p)
    /\ Free("undo", p)
    /\ FoundAt(f, i)
    /\ LET e == undo[f][i] IN
       undo' = [undo EXCEPT ![f] = Pushed(@, Entry4(text, e.text, e.text, FALSE))]
    /\ Quietly(p, Idle)
    /\ UNCHANGED << registry, disk, cached, had, torn, adrift >>

\* Registered only when written; a write that fails leaves an entry that is
\* not flushed, as auto_flush:false does.
Revise(p, f, i, text) ==
    /\ Start(p)
    /\ Free("undo", p)
    /\ FoundAt(f, i)
    /\ LET e == undo[f][i] IN
       \E flushed \in BOOLEAN :
          /\ undo' = [undo EXCEPT
                 ![f] = Pushed(@, Entry4(text, e.text, e.previous, flushed))]
          /\ IF flushed
             THEN /\ Write(f, text)
                  /\ Goes(p, f, Work("publish", f, text, None, << >>))
             ELSE /\ Quietly(p, Idle)
                  /\ UNCHANGED << disk, cached, had >>
    /\ UNCHANGED << registry, torn, adrift >>

\* Marks the newest entry with the hash in every stack, of whatever file.
Flush(p, f, i) ==
    /\ Start(p)
    /\ Free("undo", p)
    /\ FoundAt(f, i)
    /\ LET text == undo[f][i].text IN
       /\ Write(f, text)
       /\ undo' = [g \in File |-> [k \in DOMAIN undo[g] |->
              IF undo[g][k].text = text /\ FoundAt(g, k)
              THEN [undo[g][k] EXCEPT !.flushed = TRUE] ELSE undo[g][k]]]
       /\ Goes(p, f, Work("flushPublish", f, text, None, << >>))
    /\ UNCHANGED << registry, torn, adrift >>

\* The file is read again, and that text is registered under the entry's hash.
FlushPublish(p) ==
    /\ job[p].at = "flushPublish"
    /\ Free("registry", p)
    /\ \/ /\ disk[job[p].f] # None
          /\ Publish(p, disk[job[p].f])
          /\ Goes(p, job[p].f, Idle)
       \/ /\ disk[job[p].f] = None
          /\ Quietly(p, Idle)
          /\ UNCHANGED << registry, adrift >>
    /\ GoOn
    /\ UNCHANGED << disk, cached, undo, had, torn >>

(***************************************************************************)
(* undo: any entry can be named, by its hash, its file or its age.         *)
(***************************************************************************)
\* The text an entry without previous content is undone to: the parent's as
\* the undo store or the registry knows it, or else another registered one.
Fallbacks(e, f) ==
    LET parents == {d \in UNION {Range(undo[g]) : g \in File} \ {e} : d.text = e.parent}
        others == {i \in DOMAIN bySource[f] : bySource[f][i] # e.text}
    IN  IF e.parent # None
        THEN IF parents # {}
             THEN {IF d.previous # None THEN d.previous ELSE d.text : d \in parents}
             ELSE IF GetOriginal(e.parent) # None
                  THEN {GetOriginal(e.parent).text} ELSE {}
        ELSE {GetOriginal(bySource[f][i]).text :
                 i \in {k \in others : \A n \in others : n <= k}}

\* The entry leaves the stack whether or not the write succeeds.
Undo(p, f, i) ==
    /\ Start(p)
    /\ Free("undo", p)
    /\ i \in DOMAIN undo[f]
    /\ undo[f][i].previous = None => Free("registry", p)
    /\ undo' = [undo EXCEPT ![f] = RemoveAt(@, i)]
    /\ LET e == undo[f][i] IN
       \/ \E text \in IF e.previous # None THEN {e.previous} ELSE Fallbacks(e, f) :
             /\ Write(f, text)
             /\ Goes(p, f, Work("publish", f, text, None, << >>))
       \/ /\ Quietly(p, Idle)
          /\ UNCHANGED << disk, cached, had >>
    /\ UNCHANGED << registry, torn, adrift >>

\* revise, undo and write_file end by registering what they wrote.
PublishAndReturn(p) ==
    /\ job[p].at = "publish"
    /\ Free("registry", p)
    /\ Publish(p, job[p].text)
    /\ Goes(p, job[p].f, Idle)
    /\ GoOn
    /\ UNCHANGED << disk, cached, undo, had, torn >>

(***************************************************************************)
(* batch_edits: the registry and the snapshot service are held for all     *)
(* files; an error ends the call and with it the undo entries so far.      *)
(***************************************************************************)
BatchRead(p, f, text) ==
    /\ \/ Start(p) /\ Free("registry", p) /\ Free("snapshot", p)
       \/ job[p].at = "batchNext" /\ calls < MaxCalls /\ calls' = calls + 1 /\ UNCHANGED events
    /\ disk[f] # None
    /\ Quietly(p, Work("batchWrite", f, text, disk[f],
                       IF job[p] = Idle THEN << >> ELSE job[p].done))
    /\ UNCHANGED << registry, disk, cached, undo, had, torn, adrift >>

\* EditSession::commit compares what the snapshot service says of the file
\* with what was read, and writes or fails with StaleOnCommit.
BatchWrite(p) ==
    /\ job[p].at = "batchWrite"
    /\ LET f == job[p].f IN
       \/ /\ disk[f] # None
          /\ SnapshotText(f) = job[p].old
          /\ disk' = [disk EXCEPT ![f] = job[p].text]
          /\ cached' = [cached EXCEPT ![f] = [text |-> job[p].old, current |-> FALSE]]
          /\ had' = [had EXCEPT ![f] = @ \cup {job[p].text}]
          /\ Goes(p, f, [job[p] EXCEPT !.at = "batchRecord", !.late = FALSE])
          /\ GoOn
          /\ UNCHANGED << registry, undo, torn, adrift >>
       \/ /\ SnapshotText(f) # job[p].old
          /\ ReadSnapshot(f)
          /\ Quietly(p, Idle)
          /\ GoOn
          /\ UNCHANGED << registry, disk, undo, had, adrift >>
       \/ GivesUp(p)

BatchRecord(p) ==
    /\ job[p].at = "batchRecord"
    /\ RecordWrite(p, job[p].f, job[p].text)
    /\ Publish(p, job[p].text)
    /\ \E at \in {"batchNext", "batchPush"} :
          Goes(p, job[p].f, [job[p] EXCEPT !.at = at,
              !.done = Append(@, [f |-> job[p].f, text |-> job[p].text, old |-> job[p].old])])
    /\ GoOn
    /\ UNCHANGED << disk, undo, had >>

BatchFails(p) == job[p].at = "batchNext" /\ GivesUp(p)

\* The entries go to the undo store under one lock, one after the other.
BatchPush(p) ==
    /\ \/ job[p].at = "batchPush" /\ Free("undo", p)
       \/ job[p].at = "batchPushRest"
    /\ LET d == Head(job[p].done)
           rest == Tail(job[p].done)
       IN  /\ undo' = [undo EXCEPT
                  ![d.f] = Pushed(@, Entry4(d.text, None, d.old, TRUE))]
           /\ Quietly(p, IF rest = << >> THEN Idle
                         ELSE [job[p] EXCEPT !.at = "batchPushRest", !.done = rest])
    /\ GoOn
    /\ UNCHANGED << registry, disk, cached, had, torn, adrift >>

(***************************************************************************)
(* create_files, write_file, delete_path, and reading a file for context.  *)
(***************************************************************************)
\* create_files of a new file, or of an old one with overwrite.
CreateFile(p, f, text) ==
    /\ Start(p)
    /\ Write(f, text)
    /\ Goes(p, f, Work("createRecord", f, text, None, << >>))
    /\ UNCHANGED << registry, undo, torn, adrift >>

CreateRecord(p) ==
    /\ job[p].at = "createRecord"
    /\ Free("snapshot", p)
    /\ RecordWrite(p, job[p].f, job[p].text)
    /\ Quietly(p, [job[p] EXCEPT !.at = "publish"])
    /\ GoOn
    /\ UNCHANGED << registry, disk, undo, had, adrift >>

\* The editor of the user interface saves; the snapshot cache is not told.
WriteFile(p, f, text) ==
    /\ Start(p)
    /\ Write(f, text)
    /\ Goes(p, f, Work("publish", f, text, None, << >>))
    /\ UNCHANGED << registry, undo, torn, adrift >>

DeletePath(p, f) ==
    /\ Start(p)
    /\ disk[f] # None
    /\ Write(f, None)
    /\ Goes(p, f, Work("invalidate", f, disk[f], None, << >>))
    /\ UNCHANGED << registry, undo, torn, adrift >>

DeleteInvalidate(p) ==
    /\ job[p].at = "invalidate"
    /\ Free("registry", p)
    /\ InvalidateSource(job[p].f)
    /\ adrift' = adrift \ {job[p].f}
    /\ Quietly(p, Idle)
    /\ GoOn
    /\ UNCHANGED << disk, cached, undo, had, torn >>

ContextRead(p, f) ==
    /\ Start(p)
    /\ Free("snapshot", p)
    /\ ReadSnapshot(f)
    /\ job' = [job EXCEPT ![p] =
           [Work("contextRegister", f, SnapshotText(f), None, << >>)
               EXCEPT !.late = f \in torn']]
    /\ UNCHANGED << registry, disk, undo, had, adrift >>

ContextRegister(p) ==
    /\ job[p].at = "contextRegister"
    /\ Free("registry", p)
    /\ Publish(p, job[p].text)
    /\ Goes(p, job[p].f, Idle)
    /\ GoOn
    /\ UNCHANGED << disk, cached, undo, had, torn >>

(***************************************************************************)
(* The rest of the world: another program changes or removes a file, and   *)
(* so does `replace`, which tells nobody; the watcher reports a change, at *)
(* some time after it, and forgets what was known of the file.             *)
(***************************************************************************)
Event == events < MaxEvents /\ events' = events + 1 /\ UNCHANGED calls

ExternalChange(f, text) ==
    /\ Event
    /\ Write(f, text)
    /\ job' = [q \in Proc |-> IF job[q] # Idle /\ job[q].f = f
                              THEN [job[q] EXCEPT !.late = TRUE] ELSE job[q]]
    /\ adrift' = adrift \cup {f}
    /\ UNCHANGED << registry, undo, torn >>

\* invalidate_freshness_for_paths: the registry first, then the snapshots.
WatcherInvalidates(f) ==
    /\ Event
    /\ \A q \in Proc : job[q].at \notin HeldAt["registry"] \cup HeldAt["snapshot"]
    /\ InvalidateSource(f)
    /\ cached' = [cached EXCEPT ![f] = None]
    /\ adrift' = adrift \ {f}
    /\ UNCHANGED << disk, undo, job, had, torn >>

(***************************************************************************)
Init ==
    /\ RegistryInit
    /\ disk \in [File -> Hash \cup {None}]
    /\ cached = [f \in File |-> None]
    /\ undo = [f \in File |-> << >>]
    /\ job = [p \in Proc |-> Idle]
    /\ calls = 0 /\ events = 0
    /\ had = [f \in File |-> {disk[f]} \ {None}]
    /\ torn = {} /\ adrift = {}

Calls(p) ==
    \E f \in File :
        \/ \E text \in Hash :
              \/ LineEditsRead(p, f, text)
              \/ Draft(p, f, text)
              \/ \E i \in DOMAIN undo[f] : Revise(p, f, i, text)
              \/ BatchRead(p, f, text)
              \/ CreateFile(p, f, text)
              \/ WriteFile(p, f, text)
        \/ \E i \in DOMAIN undo[f] : Flush(p, f, i) \/ Undo(p, f, i)
        \/ DeletePath(p, f)
        \/ ContextRead(p, f)

Steps(p) ==
    \/ LineEditsWrite(p) \/ LineEditsRecord(p)
    \/ LineEditsRegister(p) \/ LineEditsPush(p)
    \/ DraftRegister(p) \/ DraftWrite(p)
    \/ FlushPublish(p) \/ PublishAndReturn(p)
    \/ BatchWrite(p) \/ BatchRecord(p) \/ BatchFails(p) \/ BatchPush(p)
    \/ CreateRecord(p) \/ DeleteInvalidate(p) \/ ContextRegister(p)

Next ==
    \/ \E p \in Proc : Calls(p) \/ Steps(p)
    \/ \E f \in File :
          \/ \E text \in Hash \cup {None} : ExternalChange(f, text)
          \/ WatcherInvalidates(f)

Spec == Init /\ [][Next]_vars

(***************************************************************************)
(* Properties.                                                             *)
(***************************************************************************)
\* A cached snapshot that looks current is what is on disk, unless another
\* write fell between a command's write and its stat (record_write,
\* get_resolved).
CacheHitIsDisk ==
    \A f \in File \ torn :
        cached[f] # None /\ cached[f].current => cached[f].text = disk[f]

\* An undo entry marked as flushed was written to some file: to its own, or,
\* as flush marks entries by hash, to one that was given the same text.
FlushedWasWritten ==
    \A f \in File : \A i \in DOMAIN undo[f] :
        undo[f][i].flushed => \E g \in File : undo[f][i].text \in had[g]

\* Whatever an undo entry remembers as previous content once was in its file,
\* however often the draft it belongs to was revised.
UndoRestoresFormer ==
    \A f \in File : \A i \in DOMAIN undo[f] :
        undo[f][i].previous \in had[f] \cup {None}

\* Once no call is at work on a file, the text registered for it last is the
\* text on disk, unless a draft was not written, somebody else changed the
\* file, or two calls overlapped so that one registered an older text last.
RegistryFollowsDisk ==
    \A f \in File \ adrift :
        latest[f] # None /\ (\A p \in Proc : job[p] # Idle => job[p].f # f)
            => latest[f] = disk[f]
===============================================================================
