------------------------------- MODULE Indexer -------------------------------
(***************************************************************************)
(* The code index: the rows the Indexer of atls-core keeps for the files   *)
(* of a project (indexer/scanner.rs), the runs that keep them up to date   *)
(* (git_ops.rs), the file watcher that starts most of the runs             *)
(* (file_watcher.rs) and the scan the user asks for (atls_ops.rs).         *)
(*                                                                         *)
(* Everything that writes rows holds the indexer's mutex, a tokio Mutex,   *)
(* so those who wait for it are served in their order.  The files change   *)
(* at any moment, between any two steps of a scan or a run: by commands of *)
(* the back end, which tell the index themselves, and by other programs,   *)
(* of which the index learns by the watcher or by the next scan only.      *)
(*                                                                         *)
(* A file is of a language the index knows.  The hash of a text is the     *)
(* text.  A text imports the files of Imports[text], each by a path that   *)
(* leads to one file.  Symbols, calls, issues and importance follow the    *)
(* row of their file and are not modelled, nor are errors of SQLite.       *)
(***************************************************************************)
EXTENDS Naturals, Sequences, FiniteSets, TLC

CONSTANTS
    File,         \* the files (paths) of the project
    Text,         \* what a file may hold
    None,         \* no file, no text
    Walked,       \* the files FileFilter lets a scan walk
    Watched,      \* the files whose events the watcher passes on
    Binary,       \* the texts that are not UTF-8
    Unparsed,     \* the texts of a file that its language's parser, if there is one, refuses
    Imports,      \* the files a text imports
    MaxChanges,   \* bound: how often a file changes
    MaxScans      \* bound: how many scans are asked for

ASSUME NoneAssumption == None \notin Text
ASSUME FilesAssumption == Walked \subseteq File /\ Watched \subseteq File
ASSUME BoundsAssumption == MaxChanges \in Nat /\ MaxScans \in Nat
ASSUME TextsAssumption == Binary \subseteq Text /\ Unparsed \subseteq File \X Text
ASSUME ImportsAssumption == Imports \in [Text -> SUBSET File]

VARIABLES
    disk,         \* what each file holds, None when it does not exist
    row,          \* the row of each file: the hash it is filed under and the text it was derived from
    relations,    \* table file_relations: the imports that were resolved
    deleting,     \* files that delete_files has removed and not yet reported
    events,       \* changed files on their way through the debouncer and the channel
    watcher,      \* the watcher's task: waiting to delete, and what it will queue then
    spawned,      \* runs that were spawned and have not asked for the mutex yet
    queue,        \* those who wait for the indexer's mutex
    scan,         \* the scan that holds it
    run,          \* the run that holds it
    asked,        \* how many scans were asked for
    changes,      \* how many times a file changed
    calm,         \* history: no file has changed since the scan began
    unseen        \* history: files neither changed nor scanned since the project was opened

index == <<row, relations>>
tasks == <<deleting, watcher, spawned, queue>>
history == <<changes, calm, unseen>>
vars == <<disk, row, relations, deleting, events, watcher, spawned, queue, scan, run, asked, changes, calm, unseen>>

NoRow == [hash |-> None, text |-> None]
Row == [hash : Text, text : Text]
NoFiles == [f \in File |-> None]
NoScan == [step |-> "none", full |-> FALSE, files |-> {}, todo |-> {}, hashes |-> NoFiles, texts |-> NoFiles]
NoRun == [step |-> "none", todo |-> {}, file |-> None, hash |-> None, text |-> None]
Idle == [waits |-> FALSE, mod |-> {}]
Requests == [kind : {"scan", "rescan", "run", "delete", "sweep"}, files : SUBSET File]

Indexed == {f \in File : row[f] # NoRow}
Request(kind, files) == [kind |-> kind, files |-> files]
Exists(f) == disk[f] # None
Legible(f) == Exists(f) /\ disk[f] \notin Binary
MutexFree == scan.step = "none" /\ run.step = "none"

\* The types; relations join files that have rows (remove_file and the foreign keys see to it).
TypeOK ==
    /\ disk \in [File -> Text \cup {None}]
    /\ row \in [File -> Row \cup {NoRow}]
    /\ relations \subseteq Indexed \X Indexed
    /\ deleting \subseteq File
    /\ events \subseteq Watched
    /\ watcher \in [waits : BOOLEAN, mod : SUBSET File]
    /\ spawned \subseteq SUBSET File
    /\ queue \in Seq(Requests)
    /\ scan \in [step : {"none", "hash", "parse", "write", "resolve"}, full : BOOLEAN,
                 files : SUBSET Walked, todo : SUBSET Walked,
                 hashes : [File -> Text \cup {None}], texts : [File -> Text \cup {None}]]
    /\ run \in [step : {"none", "hash", "read", "write"}, todo : SUBSET File,
                file : File \cup {None}, hash : Text \cup {None}, text : Text \cup {None}]
    /\ asked \in 0..MaxScans
    /\ changes \in 0..MaxChanges
    /\ calm \in BOOLEAN
    /\ unseen \subseteq File

\* A project is opened: its files are as they are, and the database is new.
Init ==
    /\ disk \in [File -> Text \cup {None}]
    /\ row = [f \in File |-> NoRow]
    /\ relations = {}
    /\ deleting = {}
    /\ events = {}
    /\ watcher = Idle
    /\ spawned = {}
    /\ queue = << >>
    /\ scan = NoScan
    /\ run = NoRun
    /\ asked = 0
    /\ changes = 0
    /\ calm = FALSE
    /\ unseen = File

(***************************************************************************)
(* The database.                                                           *)
(***************************************************************************)
\* The imports of text t of file f that lead to a row of another file.
Resolved(f, t) == {f} \X {g \in Imports[t] \ {f} : row[g] # NoRow}

Resolve(f, t) == relations' = {r \in relations : r[1] # f} \cup Resolved(f, t)

\* One transaction: the row, and the relations from it.
WriteRow(f, h, t) ==
    /\ row' = [row EXCEPT ![f] = [hash |-> h, text |-> t]]
    /\ Resolve(f, t)

RemoveRows(S) ==
    /\ row' = [f \in File |-> IF f \in S THEN NoRow ELSE row[f]]
    /\ relations' = {r \in relations : r[1] \notin S /\ r[2] \notin S}

(***************************************************************************)
(* The files change.                                                       *)
(***************************************************************************)
Change(f, t) ==
    /\ changes < MaxChanges
    /\ disk[f] # t
    /\ disk' = [disk EXCEPT ![f] = t]
    /\ events' = IF f \in Watched THEN events \cup {f} ELSE events
    /\ changes' = changes + 1
    /\ calm' = FALSE
    /\ unseen' = unseen \ {f}
    /\ UNCHANGED <<index, watcher, scan, run, asked>>

\* Another program, or a command that tells nobody.
OtherChanges(f, t) == Change(f, t) /\ UNCHANGED <<deleting, spawned, queue>>

\* A command writes the file and calls index_modified_files.
CommandWrites(f, t) ==
    Change(f, t) /\ t # None /\ spawned' = spawned \cup {{f}} /\ UNCHANGED <<deleting, queue>>

\* delete_files removes its files one by one ...
CommandDeletes(f) ==
    Change(f, None) /\ deleting' = deleting \cup {f} /\ UNCHANGED <<spawned, queue>>

\* ... and then waits in index_deleted_files for all of them.
CommandReports(files) ==
    /\ queue' = Append(queue, Request("delete", files))
    /\ deleting' = deleting \ files
    /\ UNCHANGED <<disk, index, events, watcher, spawned, scan, run, asked, history>>

(***************************************************************************)
(* The watcher's task: one batch of changed paths after the other.         *)
(***************************************************************************)
\* Mutant: when something was deleted, the modified files of the batch are forgotten.
WatcherForgets(batch) ==
    LET del == {f \in batch : ~Exists(f)}
    IN  /\ watcher = Idle
        /\ batch \cap deleting = {}
        /\ events' = events \ batch
        /\ IF del # {}
           THEN /\ queue' = Append(queue, Request("sweep", del))
                /\ watcher' = [waits |-> TRUE, mod |-> {}]
                /\ UNCHANGED spawned
           ELSE /\ spawned' = spawned \cup {batch}
                /\ UNCHANGED <<queue, watcher>>
        /\ UNCHANGED <<disk, index, deleting, scan, run, asked, history>>

\* The batch is split by what is on disk now, not by what the events said. The
\* debouncer waits longer than the loop of delete_files, which awaits nothing.
WatcherTakes(batch) ==
    LET del == {f \in batch : ~Exists(f)}
        mod == batch \ del
    IN  /\ watcher = Idle
        /\ batch \cap deleting = {}
        /\ events' = events \ batch
        /\ IF del # {}
           THEN /\ queue' = Append(queue, Request("sweep", del))
                /\ watcher' = [waits |-> TRUE, mod |-> mod]
                /\ UNCHANGED spawned
           ELSE /\ spawned' = spawned \cup {mod}
                /\ UNCHANGED <<queue, watcher>>
        /\ UNCHANGED <<disk, index, deleting, scan, run, asked, history>>

\* index_deleted_files has returned; the modified files are queued.
WatcherSpawns ==
    /\ ~watcher.waits
    /\ watcher.mod # {}
    /\ spawned' = spawned \cup {watcher.mod}
    /\ watcher' = Idle
    /\ UNCHANGED <<disk, index, deleting, events, queue, scan, run, asked, history>>

\* Mutant: who asks last is served first.
RunAsksFirst(files) ==
    /\ queue' = <<Request("run", files)>> \o queue
    /\ spawned' = spawned \ {files}
    /\ UNCHANGED <<disk, index, deleting, events, watcher, scan, run, asked, history>>

\* A spawned run gets to lock().
RunAsks(files) ==
    /\ queue' = Append(queue, Request("run", files))
    /\ spawned' = spawned \ {files}
    /\ UNCHANGED <<disk, index, deleting, events, watcher, scan, run, asked, history>>

(***************************************************************************)
(* Holding the mutex: index_deleted_files.                                 *)
(***************************************************************************)
\* Nobody looks whether the file is back.
Deletes ==
    /\ MutexFree
    /\ queue # << >>
    /\ Head(queue).kind \in {"delete", "sweep"}
    /\ RemoveRows(Head(queue).files)
    /\ watcher' = IF Head(queue).kind = "sweep" THEN [watcher EXCEPT !.waits = FALSE] ELSE watcher
    /\ queue' = Tail(queue)
    /\ UNCHANGED <<disk, deleting, events, spawned, scan, run, asked, history>>

(***************************************************************************)
(* Holding the mutex: index_modified_files_run.                            *)
(***************************************************************************)
RunBegins ==
    /\ MutexFree
    /\ queue # << >>
    /\ Head(queue).kind = "run"
    /\ run' = [NoRun EXCEPT !.step = "hash", !.todo = Head(queue).files]
    /\ queue' = Tail(queue)
    /\ UNCHANGED <<disk, index, deleting, events, watcher, spawned, scan, asked, history>>

\* Mutant: a file whose hash is that of its row is skipped.
RunHashesChanged(f) ==
    /\ run.step = "hash"
    /\ f \in run.todo
    /\ run' = IF Exists(f) /\ disk[f] # row[f].hash
              THEN [run EXCEPT !.step = "read", !.todo = @ \ {f}, !.file = f, !.hash = disk[f]]
              ELSE [run EXCEPT !.todo = @ \ {f}]
    /\ UNCHANGED <<disk, index, events, tasks, scan, asked, history>>

\* on_file_change hashes the file; one that is gone is an error, and its row stays.
RunHashes(f) ==
    /\ run.step = "hash"
    /\ f \in run.todo
    /\ run' = IF Exists(f)
              THEN [run EXCEPT !.step = "read", !.todo = @ \ {f}, !.file = f, !.hash = disk[f]]
              ELSE [run EXCEPT !.todo = @ \ {f}]
    /\ UNCHANGED <<disk, index, events, tasks, scan, asked, history>>

NextFile == [run EXCEPT !.step = "hash", !.file = None, !.hash = None, !.text = None]

\* index_file reads it again and parses what it reads; what it cannot read as text,
\* or the parser refuses, is an error of the run, and the row stays as it is.
RunReads ==
    /\ run.step = "read"
    /\ run' = IF Legible(run.file) /\ <<run.file, disk[run.file]>> \notin Unparsed
              THEN [run EXCEPT !.step = "write", !.text = disk[run.file]]
              ELSE NextFile
    /\ UNCHANGED <<disk, index, events, tasks, scan, asked, history>>

\* The row is written if the path can still be canonicalized.
RunWrites ==
    /\ run.step = "write"
    /\ IF Exists(run.file) THEN WriteRow(run.file, run.hash, run.text) ELSE UNCHANGED index
    /\ run' = NextFile
    /\ UNCHANGED <<disk, events, tasks, scan, asked, history>>

RunEnds ==
    /\ run.step = "hash"
    /\ run.todo = {}
    /\ run' = NoRun
    /\ UNCHANGED <<disk, index, events, tasks, scan, asked, history>>

(***************************************************************************)
(* Holding the mutex: scan_filtered.                                       *)
(***************************************************************************)
AskScan(kind) ==
    /\ asked < MaxScans
    /\ asked' = asked + 1
    /\ queue' = Append(queue, Request(kind, {}))
    /\ UNCHANGED <<disk, index, deleting, events, watcher, spawned, scan, run, history>>

\* The files are walked.
ScanBegins ==
    LET files == {f \in Walked : Exists(f)}
    IN  /\ MutexFree
        /\ queue # << >>
        /\ Head(queue).kind \in {"scan", "rescan"}
        /\ scan' = [NoScan EXCEPT !.step = "hash", !.full = Head(queue).kind = "rescan",
                                  !.files = files, !.todo = files]
        /\ queue' = Tail(queue)
        /\ calm' = TRUE
        /\ UNCHANGED <<disk, index, deleting, events, watcher, spawned, run, asked, changes, unseen>>

\* Each is hashed, and kept when its row has another hash or everything is to be indexed.
ScanHashes(f) ==
    /\ scan.step = "hash"
    /\ f \in scan.todo
    /\ scan' = [scan EXCEPT !.todo = @ \ {f},
                            !.hashes[f] = IF Exists(f) /\ (scan.full \/ row[f].hash # disk[f])
                                          THEN disk[f] ELSE None]
    /\ UNCHANGED <<disk, index, events, tasks, run, asked, history>>

\* The rows of files that were not walked are removed.
ScanRemoves ==
    /\ scan.step = "hash"
    /\ scan.todo = {}
    /\ RemoveRows(File \ scan.files)
    /\ scan' = [scan EXCEPT !.step = "parse", !.todo = {f \in scan.files : scan.hashes[f] # None}]
    /\ UNCHANGED <<disk, events, tasks, run, asked, history>>

\* Phase 1: the kept files are read and parsed; here a text the parser refuses is kept.
ScanParses(f) ==
    /\ scan.step = "parse"
    /\ f \in scan.todo
    /\ scan' = [scan EXCEPT !.todo = @ \ {f}, !.texts[f] = IF Legible(f) THEN disk[f] ELSE None]
    /\ UNCHANGED <<disk, index, events, tasks, run, asked, history>>

Parsed == {f \in scan.files : scan.texts[f] # None}

ScanParsed ==
    /\ scan.step = "parse"
    /\ scan.todo = {}
    /\ scan' = [scan EXCEPT !.step = "write", !.todo = Parsed]
    /\ UNCHANGED <<disk, index, events, tasks, run, asked, history>>

\* Phase 2: their rows are written, in the order the parsing ended.
ScanWrites(f) ==
    /\ scan.step = "write"
    /\ f \in scan.todo
    /\ IF Exists(f) THEN WriteRow(f, scan.hashes[f], scan.texts[f]) ELSE UNCHANGED index
    /\ scan' = [scan EXCEPT !.todo = @ \ {f}]
    /\ UNCHANGED <<disk, events, tasks, run, asked, history>>

\* Mutant: the imports are not resolved again.
ScanWrittenOnce ==
    /\ scan.step = "write"
    /\ scan.todo = {}
    /\ scan' = [scan EXCEPT !.step = "resolve"]
    /\ UNCHANGED <<disk, index, events, tasks, run, asked, history>>

ScanWritten ==
    /\ scan.step = "write"
    /\ scan.todo = {}
    /\ scan' = [scan EXCEPT !.step = "resolve", !.todo = {f \in Parsed : Imports[scan.texts[f]] # {}}]
    /\ UNCHANGED <<disk, index, events, tasks, run, asked, history>>

\* Phase 3: the imports of the parsed files are resolved again, now that all rows are there.
ScanResolves(f) ==
    /\ scan.step = "resolve"
    /\ f \in scan.todo
    /\ IF Exists(f) /\ row[f] # NoRow THEN Resolve(f, scan.texts[f]) ELSE UNCHANGED relations
    /\ scan' = [scan EXCEPT !.todo = @ \ {f}]
    /\ UNCHANGED <<disk, row, events, tasks, run, asked, history>>

ScanEnds ==
    /\ scan.step = "resolve"
    /\ scan.todo = {}
    /\ scan' = NoScan
    /\ unseen' = {}
    /\ UNCHANGED <<disk, index, events, tasks, run, asked, changes, calm>>

(***************************************************************************)
(* The next-state relation.  What the program has begun it finishes; that  *)
(* a file changes or a scan is asked for is up to the user.                *)
(***************************************************************************)
Environment ==
    \/ \E f \in File, t \in Text \cup {None} : OtherChanges(f, t)
    \/ \E f \in File, t \in Text : CommandWrites(f, t)
    \/ \E f \in File : CommandDeletes(f)
    \/ \E kind \in {"scan", "rescan"} : AskScan(kind)

Watching ==
    \/ \E batch \in SUBSET events \ {{}} : WatcherTakes(batch)
    \/ WatcherSpawns

Asking ==
    \/ \E files \in spawned : RunAsks(files)
    \/ \E files \in SUBSET deleting \ {{}} : CommandReports(files)

Working ==
    \/ Deletes
    \/ RunBegins \/ (\E f \in run.todo : RunHashes(f)) \/ RunReads \/ RunWrites \/ RunEnds
    \/ ScanBegins \/ (\E f \in scan.todo : ScanHashes(f)) \/ ScanRemoves
    \/ (\E f \in scan.todo : ScanParses(f)) \/ ScanParsed
    \/ (\E f \in scan.todo : ScanWrites(f)) \/ ScanWritten
    \/ (\E f \in scan.todo : ScanResolves(f)) \/ ScanEnds

Next == Environment \/ Watching \/ Asking \/ Working

\* A command, a run and whoever holds the mutex go on: they wait for nothing else,
\* and the runtime polls them again.
Fairness ==
    /\ WF_vars(Asking)
    /\ WF_vars(Working)

Spec == Init /\ [][Next]_vars
FairSpec == Spec /\ Fairness

(***************************************************************************)
(* Properties.                                                             *)
(***************************************************************************)
\* The row says of the file what is on disk.
Current(f) == row[f] = IF Exists(f) THEN [hash |-> disk[f], text |-> disk[f]] ELSE NoRow

\* The requests in the queue that will remove, or write, the row of f.
Removals(f) == {i \in DOMAIN queue : queue[i].kind \in {"delete", "sweep"} /\ f \in queue[i].files}
Rewrites(f) == {i \in DOMAIN queue : queue[i].kind = "run" /\ f \in queue[i].files}

\* A task that has not yet asked for the mutex will make it ask.
OnItsWay(f) ==
    \/ f \in events
    \/ f \in watcher.mod
    \/ \E files \in spawned : f \in files

\* The run that holds the mutex has read nothing of f that is no longer so.
BeingIndexed(f) ==
    \/ f \in run.todo
    \/ run.file = f /\ run.hash = disk[f] /\ (run.step = "write" => run.text = disk[f])

Pending(f) ==
    \/ f \in events
    \/ ~Exists(f) /\ Removals(f) # {}
    \/ Exists(f) /\ (OnItsWay(f) \/ Rewrites(f) # {} \/ BeingIndexed(f))

\* The file holds what a run cannot read or parse.
Refused(f) == Exists(f) /\ (disk[f] \in Binary \/ <<f, disk[f]>> \in Unparsed)

(***************************************************************************)
(* A row that does not say what is on disk is about to be put right: of    *)
(* every file that is scanned and watched and that was scanned or changed  *)
(* since the project was opened, the row is current, or an event, a batch, *)
(* a run or a removal that will see what is there now is on its way.  The  *)
(* hash and the text of a row are read at two moments, by a scan that may  *)
(* hold the mutex for minutes, and nothing is compared when it is written. *)
(* Excepted is a file while it holds what no run can index: its row stays  *)
(* as it was, and nothing says so.                                         *)
(***************************************************************************)
StaleIsReported ==
    \A f \in Watched \cap Walked : f \notin unseen => Current(f) \/ Pending(f) \/ Refused(f)

(***************************************************************************)
(* A removal that waits for the mutex never has the last word on a file    *)
(* that is back: index_deleted_files does not look at the disk again, but  *)
(* the event of the new file leads to a run behind it.                     *)
(***************************************************************************)
RemovalIsNotLast ==
    \A f \in Watched : Exists(f) =>
        \A i \in Removals(f) : OnItsWay(f) \/ (\E j \in Rewrites(f) : i < j)

Present == {f \in Walked : Exists(f)}

IndexExact ==
    /\ Indexed \subseteq Present
    /\ \A f \in Present : Legible(f) =>
         /\ row[f].hash = disk[f]
         /\ scan.full =>
              /\ row[f].text = disk[f]
              /\ \A g \in File : <<f, g>> \in relations <=> g \in (Imports[disk[f]] \cap Indexed) \ {f}

(***************************************************************************)
(* A scan during which no file changed leaves rows for files that are      *)
(* walked only, and one for each that is UTF-8, under the hash of the      *)
(* file; a full one also with the file's text and with exactly the         *)
(* relations of its imports that have rows, whatever the order in which    *)
(* the rows were written.                                                  *)
(***************************************************************************)
ScanLeavesExact == [][ScanEnds /\ calm => IndexExact]_vars

(***************************************************************************)
(* When the files stop changing, the row of each scanned and watched file  *)
(* becomes and stays current, unless the file then holds what no run can   *)
(* index, as long as the watcher's task goes on. That it does is not in    *)
(* Fairness: before it looks at a batch it locks the registry, the cache   *)
(* and the snapshot service, which may be blocked for good (EditLocks).    *)
(***************************************************************************)
Converges ==
    WF_vars(Watching) =>
        \A f \in Watched \cap Walked : <>[](f \in unseen \/ Current(f) \/ Refused(f))
=============================================================================
