---------------------------- MODULE IndexerProofs ----------------------------
(***************************************************************************)
(* Proofs about the module Indexer: its type invariant, that a removal     *)
(* never has the last word on a file that is back, that every stale row is *)
(* about to be put right, and that a scan nothing disturbed leaves exactly *)
(* what is on disk.                                                        *)
(***************************************************************************)
EXTENDS Indexer, TLAPS

Running == scan.step # "none"

\* What a scan has in hand belongs together.
ScanShape ==
    /\ scan.step = "none" => scan = NoScan
    /\ scan.todo \subseteq scan.files
    /\ \A f \in File : scan.hashes[f] # None => f \in scan.files
    /\ \A f \in File : scan.texts[f] # None => scan.hashes[f] # None
    /\ scan.step = "hash" => \A f \in File : scan.texts[f] = None
    /\ scan.step = "parse" => \A f \in scan.todo : scan.hashes[f] # None
    /\ scan.step \in {"write", "resolve"} => \A f \in scan.todo : scan.texts[f] # None

\* What a run has in hand belongs together.
RunShape ==
    /\ run.step \in {"none", "hash"} => run.hash = None
    /\ run.step = "none" => run = NoRun
    /\ run.step \in {"read", "write"} => run.file \in File /\ run.hash \in Text
    /\ run.step = "write" => run.text \in Text

\* What delete_files has removed the watcher has not looked at.
DeletingShape == deleting \cap Watched \subseteq events

TypeInv == TypeOK /\ ScanShape /\ RunShape /\ DeletingShape

\* Nothing has happened to f that a scan could have missed.
Undisturbed(f) == f \in Walked /\ (calm \/ f \in unseen)

\* The row of an undisturbed file is there and true, or not there.
UnseenRow == \A f \in unseen : row[f] = NoRow \/ Current(f)

\* What a run has read of a file that never changed is true.
RunRight ==
    run.step \in {"read", "write"} /\ run.file \in unseen =>
        run.hash = disk[run.file] /\ (run.step = "write" => run.text = disk[run.file])

\* What a run has read of a file that changed since is about to be read again.
RunStale ==
    run.step \in {"read", "write"} /\ run.file \in Watched /\ Exists(run.file) =>
        \/ run.hash = disk[run.file] /\ (run.step = "write" => run.text = disk[run.file])
        \/ Pending(run.file)

\* What a scan has seen of an undisturbed file is true, and nothing is missing.
ScanSees ==
    Running => \A f \in Walked : Undisturbed(f) =>
        /\ Exists(f) <=> f \in scan.files
        /\ scan.hashes[f] \in {None, disk[f]}
        /\ scan.texts[f] \in {None, disk[f]}

ScanGoesOn ==
    \A f \in scan.files : Undisturbed(f) =>
        /\ scan.step = "hash" => f \in scan.todo \/ scan.hashes[f] = disk[f] \/ row[f].hash = disk[f]
        /\ scan.step = "parse" =>
              f \in scan.todo \/ scan.texts[f] = disk[f] \/ row[f].hash = disk[f] \/ disk[f] \in Binary
        /\ scan.step = "write" => f \in scan.todo \/ row[f].hash = disk[f] \/ disk[f] \in Binary
        /\ scan.step = "resolve" => row[f].hash = disk[f] \/ disk[f] \in Binary

\* What a scan has missed of a watched file is about to be seen by a run.
ScanStale ==
    Running => \A f \in Watched \cap Walked : Exists(f) =>
        /\ f \notin scan.files => Pending(f)
        /\ scan.hashes[f] \notin {None, disk[f]} => Pending(f)
        /\ scan.texts[f] \notin {None, disk[f]} => Pending(f)

\* The mutex is held by a scan or by a run.
Exclusive == scan.step = "none" \/ run.step = "none"

StaleInv == RemovalIsNotLast /\ UnseenRow /\ RunRight /\ RunStale /\ ScanSees /\ ScanGoesOn /\ ScanStale /\ StaleIsReported

\* After ScanRemoves only files that were walked have rows.
OnlyWalked == scan.step \in {"parse", "write", "resolve"} => Indexed \subseteq scan.files

\* What a full scan that was not disturbed has of a file it walked.
WrittenRight(f) ==
    Current(f) /\ \A r \in relations : r[1] = f => r[2] \in Imports[disk[f]] /\ r[2] # f

ResolvedRight(f) ==
    \A g \in scan.files : g \in Imports[disk[f]] /\ g # f /\ row[g] # NoRow => <<f, g>> \in relations

TextInHand(f) ==
    /\ scan.step = "parse" => f \in scan.todo \/ scan.texts[f] = disk[f]
    /\ scan.step \in {"write", "resolve"} => scan.texts[f] = disk[f]
    /\ scan.step = "resolve" \/ (scan.step = "write" /\ f \notin scan.todo) => WrittenRight(f)
    /\ scan.step = "resolve" /\ f \notin scan.todo => ResolvedRight(f)

InHand(f) ==
    /\ scan.texts[f] # None => disk[f] \notin Binary
    /\ scan.step = "hash" => f \in scan.todo \/ scan.hashes[f] = disk[f]
    /\ scan.step = "parse" => scan.hashes[f] = disk[f]
    /\ disk[f] \notin Binary => TextInHand(f)

FullGoesOn == Running /\ calm /\ scan.full => \A f \in scan.files : InHand(f)

ExactInv == OnlyWalked /\ FullGoesOn

(***************************************************************************)
(* The queue.                                                              *)
(***************************************************************************)
\* Who joins the queue is last in it, and the others keep their places.
LEMMA QueueJoined ==
    ASSUME NEW q, q \in Seq(Requests), NEW r \in Requests
    PROVE  /\ Append(q, r) \in Seq(Requests)
           /\ DOMAIN Append(q, r) = DOMAIN q \cup {Len(q) + 1}
           /\ Append(q, r)[Len(q) + 1] = r
           /\ \A i \in DOMAIN q : i < Len(q) + 1 /\ Append(q, r)[i] = q[i]
OBVIOUS

\* When the first is served, the others move up by one.
LEMMA QueueServed ==
    ASSUME NEW q, q \in Seq(Requests), q # << >>
    PROVE  /\ Tail(q) \in Seq(Requests)
           /\ Head(q) \in Requests /\ Head(q) = q[1] /\ 1 \in DOMAIN q
           /\ \A i \in DOMAIN q : i # 1 => i > 1 /\ i - 1 \in DOMAIN Tail(q) /\ Tail(q)[i - 1] = q[i]
           /\ \A i \in DOMAIN Tail(q) : i + 1 \in DOMAIN q /\ i + 1 > 1 /\ Tail(q)[i] = q[i + 1]
OBVIOUS

(***************************************************************************)
(* Types.                                                                  *)
(***************************************************************************)
\* Writing and removing rows keeps the tables well-formed.
LEMMA ResolveTyped ==
    ASSUME TypeOK, NEW f \in File, NEW t \in Text, row[f] # NoRow, Resolve(f, t)
    PROVE  relations' \subseteq Indexed \X Indexed
BY ImportsAssumption DEF TypeOK, Resolve, Resolved, Indexed

LEMMA WriteTyped ==
    ASSUME TypeOK, NEW f \in File, NEW h \in Text, NEW t \in Text, WriteRow(f, h, t)
    PROVE  /\ row' \in [File -> Row \cup {NoRow}]
           /\ row'[f] = [hash |-> h, text |-> t]
           /\ \A g \in File \ {f} : row'[g] = row[g]
           /\ relations' \subseteq Indexed' \X Indexed'
<1>1. /\ row' \in [File -> Row \cup {NoRow}]
      /\ row'[f] = [hash |-> h, text |-> t]
      /\ \A g \in File \ {f} : row'[g] = row[g]
  BY DEF TypeOK, WriteRow, Row
<1>2. row'[f] # NoRow
  BY <1>1, NoneAssumption DEF NoRow
<1>3. Indexed \subseteq Indexed' /\ f \in Indexed'
  BY <1>1, <1>2 DEF Indexed
<1>4. Resolved(f, t) \subseteq Indexed' \X Indexed'
  BY <1>3, ImportsAssumption DEF Resolved, Indexed
<1> QED
  BY <1>1, <1>3, <1>4 DEF TypeOK, WriteRow, Resolve

LEMMA RemoveTyped ==
    ASSUME TypeOK, NEW S, RemoveRows(S)
    PROVE  /\ row' \in [File -> Row \cup {NoRow}]
           /\ \A f \in File : row'[f] = IF f \in S THEN NoRow ELSE row[f]
           /\ relations' \subseteq Indexed' \X Indexed'
<1>1. /\ row' \in [File -> Row \cup {NoRow}]
      /\ \A f \in File : row'[f] = IF f \in S THEN NoRow ELSE row[f]
  BY DEF TypeOK, RemoveRows
<1> QED
  BY <1>1 DEF TypeOK, RemoveRows, Indexed

LEMMA TypeInitially == Init => TypeInv
<1> SUFFICES ASSUME Init PROVE TypeInv
  OBVIOUS
<1>1. TypeOK
  <2>1. scan \in [step : {"none", "hash", "parse", "write", "resolve"}, full : BOOLEAN,
                  files : SUBSET Walked, todo : SUBSET Walked,
                  hashes : [File -> Text \cup {None}], texts : [File -> Text \cup {None}]]
    BY DEF Init, NoScan, NoFiles
  <2>2. run \in [step : {"none", "hash", "read", "write"}, todo : SUBSET File,
                 file : File \cup {None}, hash : Text \cup {None}, text : Text \cup {None}]
    BY DEF Init, NoRun
  <2>3. row \in [File -> Row \cup {NoRow}] /\ relations \subseteq Indexed \X Indexed
    BY DEF Init
  <2>4. watcher \in [waits : BOOLEAN, mod : SUBSET File] /\ queue \in Seq(Requests)
    BY DEF Init, Idle
  <2>5. asked \in 0..MaxScans /\ changes \in 0..MaxChanges
    BY BoundsAssumption DEF Init
  <2>6. calm \in BOOLEAN /\ disk \in [File -> Text \cup {None}] /\ unseen \subseteq File
    BY DEF Init
  <2>7. events \subseteq Watched /\ spawned \subseteq SUBSET File /\ deleting \subseteq File
    BY DEF Init
  <2> QED BY <2>1, <2>2, <2>3, <2>4, <2>5, <2>6, <2>7 DEF TypeOK
<1>2. ScanShape /\ RunShape /\ DeletingShape
  BY DEF Init, ScanShape, RunShape, DeletingShape, NoScan, NoRun, NoFiles
<1> QED BY <1>1, <1>2 DEF TypeInv

LEMMA TypeKept == TypeInv /\ [Next]_vars => TypeInv'
<1> SUFFICES ASSUME TypeInv, [Next]_vars PROVE TypeInv'
  OBVIOUS
<1> USE NoneAssumption, FilesAssumption, BoundsAssumption
<1>0. TypeOK /\ ScanShape /\ RunShape /\ DeletingShape
  BY DEF TypeInv
<1>env. ASSUME NEW f \in File, NEW t \in Text \cup {None}, Change(f, t),
               queue' \in Seq(Requests), spawned' \subseteq SUBSET File,
               deleting' \subseteq deleting \cup {f}
        PROVE  TypeInv'
  <2>a. changes' \in 0..MaxChanges /\ disk' \in [File -> Text \cup {None}]
    BY <1>0, <1>env DEF TypeOK, Change
  <2>b. /\ events' \subseteq Watched /\ calm' \in BOOLEAN /\ unseen' \subseteq File
        /\ UNCHANGED <<row, relations, watcher, scan, run, asked>>
    BY <1>0, <1>env DEF TypeOK, Change, index
  <2>1. TypeOK'
    BY <1>0, <1>env, <2>a, <2>b DEF TypeOK, Indexed
  <2>2. ScanShape' /\ RunShape'
    BY <1>0, <1>env DEF ScanShape, RunShape, Change
  <2>3. DeletingShape'
    BY <1>0, <1>env DEF DeletingShape, Change
  <2> QED BY <2>1, <2>2, <2>3 DEF TypeInv
<1>keep. ASSUME UNCHANGED <<scan, run>>, TypeOK', DeletingShape' PROVE TypeInv'
  BY <1>0, <1>keep DEF TypeInv, ScanShape, RunShape
<1>calm. UNCHANGED <<deleting, events>> => DeletingShape'
  BY <1>0 DEF DeletingShape
<1>1. ASSUME NEW f \in File, NEW t \in Text \cup {None}, OtherChanges(f, t) PROVE TypeInv'
  BY <1>0, <1>1, <1>env DEF OtherChanges, TypeOK
<1>2. ASSUME NEW f \in File, NEW t \in Text, CommandWrites(f, t) PROVE TypeInv'
  BY <1>0, <1>2, <1>env DEF CommandWrites, TypeOK
<1>3. ASSUME NEW f \in File, CommandDeletes(f) PROVE TypeInv'
  BY <1>0, <1>3, <1>env DEF CommandDeletes, TypeOK
<1>4. ASSUME NEW kind \in {"scan", "rescan"}, AskScan(kind) PROVE TypeInv'
  <2>1. Request(kind, {}) \in Requests
    BY DEF Request, Requests
  <2>2. queue' \in Seq(Requests)
    BY <1>0, <1>4, <2>1, QueueJoined DEF AskScan, TypeOK
  <2> QED BY <1>0, <1>4, <2>2, <1>keep, <1>calm DEF AskScan, TypeOK, index, history, Indexed
<1>5. ASSUME NEW batch \in SUBSET events, WatcherTakes(batch) PROVE TypeInv'
  <2> DEFINE del == {f \in batch : ~Exists(f)}
  <2>1. del \subseteq File /\ batch \ del \subseteq File
    BY <1>0 DEF TypeOK
  <2>2. Request("sweep", del) \in Requests
    BY <2>1 DEF Request, Requests
  <2>a. \/ /\ queue' = Append(queue, Request("sweep", del))
           /\ watcher' = [waits |-> TRUE, mod |-> batch \ del]
           /\ spawned' = spawned
        \/ /\ spawned' = spawned \cup {batch \ del}
           /\ UNCHANGED <<queue, watcher>>
    BY <1>5, Zenon DEF WatcherTakes
  <2> HIDE DEF del
  <2>b. queue \in Seq(Requests) /\ spawned \subseteq SUBSET File /\ watcher \in [waits : BOOLEAN, mod : SUBSET File]
    BY <1>0 DEF TypeOK
  <2>3. queue' \in Seq(Requests)
    BY <2>b, <2>a, <2>2, QueueJoined
  <2>4. spawned' \subseteq SUBSET File /\ watcher' \in [waits : BOOLEAN, mod : SUBSET File]
    <3>1. CASE watcher' = [waits |-> TRUE, mod |-> batch \ del] /\ spawned' = spawned
      BY <2>b, <2>1, <3>1
    <3>2. CASE spawned' = spawned \cup {batch \ del} /\ watcher' = watcher
      <4>1. batch \ del \in SUBSET File
        BY <2>1
      <4> QED BY <2>b, <4>1, <3>2
    <3> QED BY <2>a, <3>1, <3>2
  <2>5. DeletingShape'
    BY <1>0, <1>5 DEF WatcherTakes, DeletingShape
  <2>6. TypeOK'
    BY <1>0, <1>5, <2>3, <2>4 DEF WatcherTakes, TypeOK, index, history, Indexed
  <2> QED BY <1>5, <2>5, <2>6, <1>keep DEF WatcherTakes
<1>6. CASE WatcherSpawns
  BY <1>0, <1>6, <1>keep, <1>calm DEF WatcherSpawns, TypeOK, index, history, Idle, Indexed
<1>7. ASSUME NEW files \in spawned, RunAsks(files) PROVE TypeInv'
  <2>1. Request("run", files) \in Requests
    BY <1>0 DEF Request, Requests, TypeOK
  <2>2. queue' \in Seq(Requests)
    BY <1>0, <1>7, <2>1, QueueJoined DEF RunAsks, TypeOK
  <2> QED BY <1>0, <1>7, <2>2, <1>keep, <1>calm DEF RunAsks, TypeOK, index, history, Indexed
<1>24. ASSUME NEW files \in SUBSET deleting, CommandReports(files) PROVE TypeInv'
  <2>1. Request("delete", files) \in Requests
    BY <1>0 DEF Request, Requests, TypeOK
  <2>2. queue' \in Seq(Requests)
    BY <1>0, <1>24, <2>1, QueueJoined DEF CommandReports, TypeOK
  <2>3. DeletingShape'
    BY <1>0, <1>24 DEF CommandReports, DeletingShape
  <2> QED BY <1>0, <1>24, <2>2, <2>3, <1>keep DEF CommandReports, TypeOK, index, history, Indexed
<1>8. CASE Deletes
  <2>1. queue' \in Seq(Requests)
    BY <1>0, <1>8, QueueServed DEF Deletes, TypeOK
  <2>2. row' \in [File -> Row \cup {NoRow}] /\ relations' \subseteq Indexed' \X Indexed'
    BY <1>0, <1>8, RemoveTyped DEF Deletes
  <2>3. watcher' \in [waits : BOOLEAN, mod : SUBSET File]
    BY <1>0, <1>8 DEF Deletes, TypeOK
  <2> QED BY <1>0, <1>8, <2>1, <2>2, <2>3, <1>keep, <1>calm DEF Deletes, TypeOK, history
<1>run. ASSUME UNCHANGED <<disk, index, deleting, events, watcher, spawned, scan, asked, history>>,
               queue' \in Seq(Requests), RunShape',
               run' \in [step : {"none", "hash", "read", "write"}, todo : SUBSET File,
                         file : File \cup {None}, hash : Text \cup {None}, text : Text \cup {None}]
        PROVE  TypeInv'
  <2>1. TypeOK'
    BY <1>0, <1>run DEF TypeOK, index, history, Indexed
  <2> QED BY <1>0, <1>run, <2>1, <1>calm DEF TypeInv, ScanShape
<1>9. CASE RunBegins
  <2>1. queue' \in Seq(Requests) /\ Head(queue).files \subseteq File
    BY <1>0, <1>9, QueueServed DEF RunBegins, TypeOK, Requests
  <2> QED BY <1>0, <1>9, <2>1, <1>run DEF RunBegins, NoRun, RunShape
<1>10. ASSUME NEW f \in run.todo, RunHashes(f) PROVE TypeInv'
  BY <1>0, <1>10, <1>run DEF RunHashes, TypeOK, RunShape, tasks, Exists
<1>11. CASE RunReads
  BY <1>0, <1>11, <1>run DEF RunReads, TypeOK, RunShape, NextFile, tasks, Legible, Exists
<1>12. CASE RunEnds
  BY <1>0, <1>12, <1>run DEF RunEnds, TypeOK, RunShape, NoRun, tasks
<1>13. CASE RunWrites
  <2>1. row' \in [File -> Row \cup {NoRow}] /\ relations' \subseteq Indexed' \X Indexed'
    <3>1. CASE Exists(run.file)
      BY <1>0, <1>13, <3>1, WriteTyped DEF RunWrites, RunShape
    <3>2. CASE ~Exists(run.file)
      BY <1>0, <1>13, <3>2 DEF RunWrites, TypeOK, index, Indexed
    <3> QED BY <3>1, <3>2
  <2>2. run' \in [step : {"none", "hash", "read", "write"}, todo : SUBSET File,
                  file : File \cup {None}, hash : Text \cup {None}, text : Text \cup {None}]
    BY <1>0, <1>13 DEF RunWrites, NextFile, TypeOK
  <2>3. RunShape'
    BY <1>0, <1>13 DEF RunWrites, NextFile, RunShape, TypeOK
  <2>4. TypeOK'
    BY <1>0, <1>13, <2>1, <2>2 DEF RunWrites, TypeOK, tasks, history
  <2> QED BY <1>0, <1>13, <2>3, <2>4, <1>calm DEF RunWrites, TypeInv, ScanShape, tasks
<1>scan. ASSUME UNCHANGED <<disk, deleting, events, watcher, spawned, run, asked, changes>>,
                queue' \in Seq(Requests), calm' \in BOOLEAN, unseen' \subseteq File, ScanShape',
                row' \in [File -> Row \cup {NoRow}], relations' \subseteq Indexed' \X Indexed',
                scan' \in [step : {"none", "hash", "parse", "write", "resolve"}, full : BOOLEAN,
                           files : SUBSET Walked, todo : SUBSET Walked,
                           hashes : [File -> Text \cup {None}], texts : [File -> Text \cup {None}]]
         PROVE  TypeInv'
  BY <1>0, <1>scan, <1>calm DEF TypeInv, TypeOK, RunShape
<1>same. UNCHANGED index => row' \in [File -> Row \cup {NoRow}] /\ relations' \subseteq Indexed' \X Indexed'
  BY <1>0 DEF TypeOK, index, Indexed
<1>14. CASE ScanBegins
  <2>1. queue' \in Seq(Requests)
    BY <1>0, <1>14, QueueServed DEF ScanBegins, TypeOK
  <2>2. ScanShape'
    BY <1>0, <1>14 DEF ScanBegins, ScanShape, NoScan, NoFiles
  <2>3. scan' \in [step : {"none", "hash", "parse", "write", "resolve"}, full : BOOLEAN,
                   files : SUBSET Walked, todo : SUBSET Walked,
                   hashes : [File -> Text \cup {None}], texts : [File -> Text \cup {None}]]
    BY <1>0, <1>14 DEF ScanBegins, NoScan, NoFiles
  <2> QED BY <1>0, <1>14, <2>1, <2>2, <2>3, <1>same, <1>scan DEF ScanBegins, TypeOK
<1>15. ASSUME NEW f \in scan.todo, ScanHashes(f) PROVE TypeInv'
  <2>0. f \in File /\ f \in Walked
    BY <1>0 DEF TypeOK
  <2>1. ScanShape'
    <3>1. /\ scan'.step = "hash" /\ scan'.files = scan.files /\ scan'.todo \subseteq scan.todo
          /\ scan'.texts = scan.texts
          /\ \A g \in File \ {f} : scan'.hashes[g] = scan.hashes[g]
      BY <1>0, <1>15, <2>0 DEF ScanHashes, TypeOK
    <3>2. f \in scan.files /\ scan.step = "hash"
      BY <1>0, <1>15 DEF ScanShape, ScanHashes
    <3> QED BY <1>0, <3>1, <3>2, <2>0 DEF ScanShape
  <2>2. scan' \in [step : {"none", "hash", "parse", "write", "resolve"}, full : BOOLEAN,
                   files : SUBSET Walked, todo : SUBSET Walked,
                   hashes : [File -> Text \cup {None}], texts : [File -> Text \cup {None}]]
    BY <1>0, <1>15, <2>0 DEF ScanHashes, TypeOK
  <2> QED BY <1>0, <1>15, <2>1, <2>2, <1>same, <1>scan DEF ScanHashes, TypeOK, tasks, history
<1>16. CASE ScanRemoves
  <2>1. row' \in [File -> Row \cup {NoRow}] /\ relations' \subseteq Indexed' \X Indexed'
    BY <1>0, <1>16, RemoveTyped DEF ScanRemoves
  <2>2. ScanShape'
    BY <1>0, <1>16 DEF ScanRemoves, ScanShape, TypeOK
  <2>3. scan' \in [step : {"none", "hash", "parse", "write", "resolve"}, full : BOOLEAN,
                   files : SUBSET Walked, todo : SUBSET Walked,
                   hashes : [File -> Text \cup {None}], texts : [File -> Text \cup {None}]]
    BY <1>0, <1>16 DEF ScanRemoves, TypeOK
  <2> QED BY <1>0, <1>16, <2>1, <2>2, <2>3, <1>scan DEF ScanRemoves, TypeOK, tasks, history
<1>17. ASSUME NEW f \in scan.todo, ScanParses(f) PROVE TypeInv'
  <2>0. f \in File /\ f \in Walked
    BY <1>0 DEF TypeOK
  <2>1. ScanShape'
    BY <1>0, <1>17, <2>0 DEF ScanParses, ScanShape, TypeOK, Legible
  <2>2. scan' \in [step : {"none", "hash", "parse", "write", "resolve"}, full : BOOLEAN,
                   files : SUBSET Walked, todo : SUBSET Walked,
                   hashes : [File -> Text \cup {None}], texts : [File -> Text \cup {None}]]
    BY <1>0, <1>17, <2>0 DEF ScanParses, TypeOK
  <2> QED BY <1>0, <1>17, <2>1, <2>2, <1>same, <1>scan DEF ScanParses, TypeOK, tasks, history
<1>18. CASE ScanParsed
  <2>1. ScanShape'
    BY <1>0, <1>18 DEF ScanParsed, ScanShape, TypeOK, Parsed
  <2>2. scan' \in [step : {"none", "hash", "parse", "write", "resolve"}, full : BOOLEAN,
                   files : SUBSET Walked, todo : SUBSET Walked,
                   hashes : [File -> Text \cup {None}], texts : [File -> Text \cup {None}]]
    BY <1>0, <1>18 DEF ScanParsed, TypeOK, Parsed
  <2> QED BY <1>0, <1>18, <2>1, <2>2, <1>same, <1>scan DEF ScanParsed, TypeOK, tasks, history
<1>19. ASSUME NEW f \in scan.todo, ScanWrites(f) PROVE TypeInv'
  <2>0. f \in File /\ scan.hashes[f] \in Text /\ scan.texts[f] \in Text
    BY <1>0, <1>19 DEF TypeOK, ScanShape, ScanWrites
  <2>1. row' \in [File -> Row \cup {NoRow}] /\ relations' \subseteq Indexed' \X Indexed'
    <3>1. CASE Exists(f)
      BY <1>0, <1>19, <2>0, <3>1, WriteTyped DEF ScanWrites
    <3>2. CASE ~Exists(f)
      BY <1>19, <3>2, <1>same DEF ScanWrites
    <3> QED BY <3>1, <3>2
  <2>2. ScanShape'
    BY <1>0, <1>19 DEF ScanWrites, ScanShape, TypeOK
  <2>3. scan' \in [step : {"none", "hash", "parse", "write", "resolve"}, full : BOOLEAN,
                   files : SUBSET Walked, todo : SUBSET Walked,
                   hashes : [File -> Text \cup {None}], texts : [File -> Text \cup {None}]]
    BY <1>0, <1>19 DEF ScanWrites, TypeOK
  <2> QED BY <1>0, <1>19, <2>1, <2>2, <2>3, <1>scan DEF ScanWrites, TypeOK, tasks, history
<1>20. CASE ScanWritten
  <2>1. ScanShape'
    BY <1>0, <1>20 DEF ScanWritten, ScanShape, TypeOK, Parsed
  <2>2. scan' \in [step : {"none", "hash", "parse", "write", "resolve"}, full : BOOLEAN,
                   files : SUBSET Walked, todo : SUBSET Walked,
                   hashes : [File -> Text \cup {None}], texts : [File -> Text \cup {None}]]
    BY <1>0, <1>20 DEF ScanWritten, TypeOK, Parsed
  <2> QED BY <1>0, <1>20, <2>1, <2>2, <1>same, <1>scan DEF ScanWritten, TypeOK, tasks, history
<1>21. ASSUME NEW f \in scan.todo, ScanResolves(f) PROVE TypeInv'
  <2>0. f \in File /\ scan.texts[f] \in Text
    BY <1>0, <1>21 DEF TypeOK, ScanShape, ScanResolves
  <2>1. row' \in [File -> Row \cup {NoRow}] /\ relations' \subseteq Indexed' \X Indexed'
    BY <1>0, <1>21, <2>0, ResolveTyped DEF ScanResolves, TypeOK, Indexed
  <2>2. ScanShape'
    BY <1>0, <1>21 DEF ScanResolves, ScanShape, TypeOK
  <2>3. scan' \in [step : {"none", "hash", "parse", "write", "resolve"}, full : BOOLEAN,
                   files : SUBSET Walked, todo : SUBSET Walked,
                   hashes : [File -> Text \cup {None}], texts : [File -> Text \cup {None}]]
    BY <1>0, <1>21 DEF ScanResolves, TypeOK
  <2> QED BY <1>0, <1>21, <2>1, <2>2, <2>3, <1>scan DEF ScanResolves, TypeOK, tasks, history
<1>22. CASE ScanEnds
  <2>1. ScanShape'
    BY <1>22 DEF ScanEnds, ScanShape, NoScan, NoFiles
  <2>2. scan' \in [step : {"none", "hash", "parse", "write", "resolve"}, full : BOOLEAN,
                   files : SUBSET Walked, todo : SUBSET Walked,
                   hashes : [File -> Text \cup {None}], texts : [File -> Text \cup {None}]]
    BY <1>22 DEF ScanEnds, NoScan, NoFiles
  <2> QED BY <1>0, <1>22, <2>1, <2>2, <1>same, <1>scan DEF ScanEnds, TypeOK, tasks
<1>23. CASE UNCHANGED vars
  BY <1>0, <1>23, <1>keep, <1>calm DEF vars, TypeOK, Indexed
<1> QED
  BY <1>1, <1>2, <1>3, <1>4, <1>5, <1>6, <1>7, <1>8, <1>9, <1>10, <1>11, <1>12, <1>13, <1>14,
     <1>15, <1>16, <1>17, <1>18, <1>19, <1>20, <1>21, <1>22, <1>23, <1>24
     DEF Next, Environment, Watching, Asking, Working

(***************************************************************************)
(* The variables keep their types, and the relations join files with rows. *)
(***************************************************************************)
THEOREM IndexTypeCorrect == Spec => []TypeOK
<1>1. TypeInv => TypeOK
  BY DEF TypeInv
<1> QED BY <1>1, TypeInitially, TypeKept, PTL DEF Spec

(***************************************************************************)
(* What is on its way stays on its way.                                    *)
(***************************************************************************)
LEMMA JoinKeeps ==
    ASSUME queue \in Seq(Requests), NEW r \in Requests, queue' = Append(queue, r), NEW f
    PROVE  /\ Removals(f) \subseteq Removals(f)'
           /\ Rewrites(f) \subseteq Rewrites(f)'
           /\ r.kind = "run" /\ f \in r.files => Len(queue) + 1 \in Rewrites(f)'
           /\ r.kind \in {"delete", "sweep"} /\ f \in r.files => Len(queue) + 1 \in Removals(f)'
           /\ \A i \in Removals(f)' : i \in Removals(f) \/ (r.kind \in {"delete", "sweep"} /\ f \in r.files)
           /\ \A i \in Removals(f) : i < Len(queue) + 1
<1>1. /\ DOMAIN queue' = DOMAIN queue \cup {Len(queue) + 1}
      /\ queue'[Len(queue) + 1] = r
      /\ \A i \in DOMAIN queue : i < Len(queue) + 1 /\ queue'[i] = queue[i]
  BY QueueJoined
<1> QED BY <1>1 DEF Removals, Rewrites

LEMMA ServeKeeps ==
    ASSUME queue \in Seq(Requests), queue # << >>, queue' = Tail(queue), NEW f
    PROVE  /\ \A i \in Removals(f) : i # 1 => i - 1 \in Removals(f)' /\ i > 1
           /\ \A i \in Rewrites(f) : i # 1 => i - 1 \in Rewrites(f)' /\ i > 1
           /\ \A i \in Removals(f)' : i \in Nat /\ i + 1 \in Removals(f) /\ i + 1 > 1
           /\ 1 \in Removals(f) <=> Head(queue).kind \in {"delete", "sweep"} /\ f \in Head(queue).files
           /\ 1 \in Rewrites(f) <=> Head(queue).kind = "run" /\ f \in Head(queue).files
<1>1. /\ Head(queue) = queue[1] /\ 1 \in DOMAIN queue
      /\ \A i \in DOMAIN queue : i # 1 => i > 1 /\ i - 1 \in DOMAIN queue' /\ queue'[i - 1] = queue[i]
      /\ \A i \in DOMAIN queue' : i + 1 \in DOMAIN queue /\ i + 1 > 1 /\ queue'[i] = queue[i + 1]
  BY QueueServed
<1>2. \A i \in DOMAIN queue' : i \in Nat
  OBVIOUS
<1> QED BY <1>1, <1>2 DEF Removals, Rewrites

LEMMA ExclusiveKept == TypeInv /\ Exclusive /\ [Next]_vars => Exclusive'
<1> SUFFICES ASSUME TypeInv, Exclusive, [Next]_vars PROVE Exclusive'
  OBVIOUS
<1>1. CASE Environment
  BY <1>1 DEF Environment, OtherChanges, CommandWrites, CommandDeletes, Change, AskScan, Exclusive
<1>2. CASE Watching \/ Asking
  BY <1>2 DEF Watching, Asking, WatcherTakes, WatcherSpawns, RunAsks, CommandReports, Exclusive
<1>3. CASE Deletes \/ RunBegins \/ ScanBegins
  BY <1>3 DEF Deletes, RunBegins, ScanBegins, MutexFree, Exclusive
<1>4. CASE (\E f \in run.todo : RunHashes(f)) \/ RunReads \/ RunWrites \/ RunEnds
  BY <1>4 DEF RunHashes, RunReads, RunWrites, RunEnds, Exclusive
<1>5. CASE (\E f \in scan.todo : ScanHashes(f) \/ ScanParses(f) \/ ScanWrites(f) \/ ScanResolves(f))
  BY <1>5 DEF ScanHashes, ScanParses, ScanWrites, ScanResolves, Exclusive
<1>6. CASE ScanRemoves \/ ScanParsed \/ ScanWritten \/ ScanEnds
  BY <1>6 DEF ScanRemoves, ScanParsed, ScanWritten, ScanEnds, Exclusive, NoScan
<1>7. CASE UNCHANGED vars
  BY <1>7 DEF vars, Exclusive
<1> QED BY <1>1, <1>2, <1>3, <1>4, <1>5, <1>6, <1>7 DEF Next, Working

\* A step of the watcher, of a spawned run, of a command that reports, or of who asks for a scan.
TaskStep == (\E kind \in {"scan", "rescan"} : AskScan(kind)) \/ Watching \/ Asking

\* What is on its way to f stays so, or is now in the queue, behind the removals that were there.
KeptOnItsWay(f) ==
    /\ Removals(f) \subseteq Removals(f)' /\ Rewrites(f) \subseteq Rewrites(f)'
    /\ Exists(f) => \A i \in Removals(f)' : i \in Removals(f) \/ OnItsWay(f)'
    /\ Exists(f) /\ OnItsWay(f) =>
          OnItsWay(f)' \/ (\E j \in Rewrites(f)' : \A i \in Removals(f) : i < j)
    /\ ~Exists(f) /\ f \in events => f \in events' \/ Removals(f)' # {}

LEMMA TasksKeep ==
    ASSUME TypeInv, TaskStep
    PROVE  /\ UNCHANGED <<disk, row, relations, scan, run, calm, unseen>>
           /\ \A f \in Watched : KeptOnItsWay(f)
<1>0. queue \in Seq(Requests) /\ events \subseteq File
  BY FilesAssumption DEF TypeOK, TypeInv
<1>same. UNCHANGED <<disk, row, relations, scan, run, calm, unseen>>
  BY DEF TaskStep, Watching, Asking, AskScan, WatcherTakes, WatcherSpawns, RunAsks, CommandReports, index, history
<1> SUFFICES ASSUME NEW f \in Watched PROVE KeptOnItsWay(f)
  BY <1>same
<1>still. queue' = queue => Removals(f)' = Removals(f) /\ Rewrites(f)' = Rewrites(f)
  BY DEF Removals, Rewrites
<1>1. ASSUME NEW kind \in {"scan", "rescan"}, AskScan(kind) PROVE KeptOnItsWay(f)
  <2>1. Request(kind, {}) \in Requests /\ Request(kind, {}).files = {}
    BY DEF Request, Requests
  <2>2. UNCHANGED <<events, watcher, spawned>>
    BY <1>1 DEF AskScan
  <2>3. /\ Removals(f) \subseteq Removals(f)' /\ Rewrites(f) \subseteq Rewrites(f)'
        /\ Removals(f)' \subseteq Removals(f)
    BY <1>0, <1>1, <2>1, JoinKeeps DEF AskScan
  <2> QED BY <2>2, <2>3 DEF OnItsWay, KeptOnItsWay
<1>2. ASSUME NEW batch \in SUBSET events, WatcherTakes(batch) PROVE KeptOnItsWay(f)
  <2> DEFINE del == {g \in batch : ~Exists(g)}
  <2>1. /\ watcher.mod = {} /\ events' = events \ batch
        /\ \/ /\ queue' = Append(queue, Request("sweep", del))
              /\ watcher'.mod = batch \ del
              /\ spawned' = spawned
           \/ /\ spawned' = spawned \cup {batch \ del}
              /\ UNCHANGED <<queue, watcher>>
              /\ del = {}
    BY <1>2 DEF WatcherTakes, Idle
  <2>2. f \in del <=> f \in batch /\ ~Exists(f)
    OBVIOUS
  <2>3. del \subseteq File
    BY <1>0
  <2> HIDE DEF del
  <2>4. CASE queue' = queue
    <3>1. \/ spawned' = spawned \cup {batch \ del} /\ del = {}
          \/ watcher'.mod = batch \ del /\ spawned' = spawned /\ queue' = Append(queue, Request("sweep", del))
      BY <2>1
    <3>2. queue' # Append(queue, Request("sweep", del))
      BY <1>0, <2>3, <2>4, QueueJoined DEF Request, Requests
    <3> QED BY <1>still, <2>1, <2>2, <2>4, <3>1, <3>2 DEF OnItsWay, KeptOnItsWay
  <2>5. CASE queue' # queue
    <3>1. /\ queue' = Append(queue, Request("sweep", del))
          /\ watcher'.mod = batch \ del /\ spawned' = spawned
      BY <2>1, <2>5
    <3>2. /\ Request("sweep", del) \in Requests
          /\ Request("sweep", del).files = del /\ Request("sweep", del).kind = "sweep"
      BY <2>3 DEF Request, Requests
    <3>3. /\ Removals(f) \subseteq Removals(f)' /\ Rewrites(f) \subseteq Rewrites(f)'
          /\ f \in del => Len(queue) + 1 \in Removals(f)'
          /\ \A i \in Removals(f)' : i \in Removals(f) \/ f \in del
      BY <1>0, <3>1, <3>2, JoinKeeps
    <3> QED BY <2>1, <2>2, <3>1, <3>3 DEF OnItsWay, KeptOnItsWay
  <2> QED BY <2>4, <2>5
<1>3. CASE WatcherSpawns
  <2>1. UNCHANGED <<queue, events>> /\ spawned' = spawned \cup {watcher.mod}
    BY <1>3 DEF WatcherSpawns
  <2> QED BY <1>still, <2>1 DEF OnItsWay, KeptOnItsWay
<1>4. ASSUME NEW files \in spawned, RunAsks(files) PROVE KeptOnItsWay(f)
  <2>1. /\ Request("run", files) \in Requests
        /\ Request("run", files).files = files /\ Request("run", files).kind = "run"
    BY DEF Request, Requests, TypeOK, TypeInv
  <2>2. UNCHANGED <<events, watcher>> /\ spawned' = spawned \ {files}
    BY <1>4 DEF RunAsks
  <2>3. /\ Removals(f) \subseteq Removals(f)' /\ Rewrites(f) \subseteq Rewrites(f)'
        /\ Removals(f)' \subseteq Removals(f)
        /\ f \in files => Len(queue) + 1 \in Rewrites(f)'
        /\ \A i \in Removals(f) : i < Len(queue) + 1
    BY <1>0, <1>4, <2>1, JoinKeeps DEF RunAsks
  <2>4. CASE f \in files
    BY <2>2, <2>3, <2>4 DEF OnItsWay, KeptOnItsWay
  <2>5. CASE f \notin files
    BY <2>2, <2>3, <2>5 DEF OnItsWay, KeptOnItsWay
  <2> QED BY <2>4, <2>5
<1>5. ASSUME NEW files \in SUBSET deleting, CommandReports(files) PROVE KeptOnItsWay(f)
  <2>1. /\ Request("delete", files) \in Requests
        /\ Request("delete", files).files = files /\ Request("delete", files).kind = "delete"
    BY DEF Request, Requests, TypeOK, TypeInv
  <2>2. UNCHANGED <<events, watcher, spawned>> /\ (OnItsWay(f)' <=> OnItsWay(f))
    BY <1>5 DEF CommandReports, OnItsWay
  <2>3. /\ Removals(f) \subseteq Removals(f)' /\ Rewrites(f) \subseteq Rewrites(f)'
        /\ \A i \in Removals(f)' : i \in Removals(f) \/ f \in files
    BY <1>0, <1>5, <2>1, JoinKeeps DEF CommandReports
  <2>4. f \in files => OnItsWay(f)'
    BY <2>2 DEF TypeInv, DeletingShape, OnItsWay
  <2> QED BY <2>2, <2>3, <2>4 DEF KeptOnItsWay
<1> QED BY <1>1, <1>2, <1>3, <1>4, <1>5 DEF TaskStep, Watching, Asking

(***************************************************************************)
(* The rows of the files that are watched.                                 *)
(***************************************************************************)
\* As long as rows, scan and run stay as they are, what was pending may not be lost.
LEMMA StaleFrame ==
    ASSUME StaleInv, UNCHANGED <<disk, row, scan, run, calm, unseen>>, RemovalIsNotLast',
           \A f \in Watched : Pending(f) => Pending(f)'
    PROVE  StaleInv'
<1> USE DEF StaleInv
<1>1. UnseenRow' /\ RunRight'
  BY DEF UnseenRow, RunRight, Current, Exists
<1>2. RunStale'
  BY DEF RunStale, Exists
<1>3. ScanSees' /\ ScanGoesOn'
  BY DEF ScanSees, ScanGoesOn, Undisturbed, Running, Exists
<1>4. ScanStale'
  BY DEF ScanStale, Running, Exists
<1>5. StaleIsReported'
  BY DEF StaleIsReported, Current, Refused, Exists
<1> QED BY <1>1, <1>2, <1>3, <1>4, <1>5

LEMMA StaleTasks == TypeInv /\ StaleInv /\ TaskStep => StaleInv'
<1> SUFFICES ASSUME TypeInv, StaleInv, TaskStep PROVE StaleInv'
  OBVIOUS
<1>0. /\ UNCHANGED <<disk, row, relations, scan, run, calm, unseen>>
      /\ \A f \in Watched : KeptOnItsWay(f)
  BY TasksKeep
<1>1. RemovalIsNotLast'
  <2> SUFFICES ASSUME NEW f \in Watched, Exists(f)', NEW i \in Removals(f)'
               PROVE  OnItsWay(f)' \/ (\E j \in Rewrites(f)' : i < j)
    BY DEF RemovalIsNotLast
  <2>1. Exists(f) /\ KeptOnItsWay(f)
    BY <1>0 DEF Exists
  <2>2. i \in Removals(f) => OnItsWay(f) \/ (\E j \in Rewrites(f) : i < j)
    BY <2>1 DEF StaleInv, RemovalIsNotLast
  <2> QED BY <2>1, <2>2 DEF KeptOnItsWay
<1>2. ASSUME NEW f \in Watched, Pending(f) PROVE Pending(f)'
  <2>1. KeptOnItsWay(f) /\ (Exists(f)' <=> Exists(f)) /\ (BeingIndexed(f)' <=> BeingIndexed(f))
    BY <1>0 DEF Exists, BeingIndexed
  <2>2. f \in events => OnItsWay(f)
    BY DEF OnItsWay
  <2>3. CASE Exists(f)
    BY <1>2, <2>1, <2>2, <2>3 DEF Pending, KeptOnItsWay
  <2>4. CASE ~Exists(f)
    BY <1>2, <2>1, <2>4 DEF Pending, KeptOnItsWay
  <2> QED BY <2>3, <2>4
<1> QED BY <1>0, <1>1, <1>2, StaleFrame

\* The file that changes has an event on its way, if it is watched.
LEMMA StaleChanges ==
    ASSUME TypeInv, StaleInv, NEW g \in File, NEW t, Change(g, t), spawned \subseteq spawned', queue' = queue
    PROVE  StaleInv'
<1> USE DEF StaleInv
<1>0. queue \in Seq(Requests) /\ disk \in [File -> Text \cup {None}]
  BY DEF TypeOK, TypeInv
<1>1. /\ disk' = [disk EXCEPT ![g] = t] /\ calm' = FALSE /\ unseen' = unseen \ {g}
      /\ UNCHANGED <<row, relations, watcher, scan, run>>
      /\ events \subseteq events' /\ (g \in Watched => g \in events')
  BY DEF Change, index
<1>2. \A f \in File \ {g} : disk'[f] = disk[f]
  BY <1>0, <1>1
<1>3. disk'[g] = t
  BY <1>0, <1>1
<1>4. \A f : Removals(f)' = Removals(f) /\ Rewrites(f)' = Rewrites(f)
  BY DEF Removals, Rewrites
<1>5. \A f \in File : OnItsWay(f) => OnItsWay(f)'
  BY <1>1 DEF OnItsWay
<1>6. g \in Watched => OnItsWay(g)' /\ Pending(g)'
  BY <1>1 DEF OnItsWay, Pending
<1>7. ASSUME NEW f \in Watched, Pending(f) PROVE Pending(f)'
  <2>1. CASE f = g
    BY <1>6, <2>1
  <2>2. CASE f # g
    <3>1. (Exists(f)' <=> Exists(f)) /\ (BeingIndexed(f) => BeingIndexed(f)')
      BY <1>1, <1>2, <2>2, FilesAssumption DEF Exists, BeingIndexed
    <3>2. f \in events => f \in events'
      BY <1>1
    <3> QED BY <1>4, <1>5, <1>7, <3>1, <3>2, FilesAssumption DEF Pending
  <2> QED BY <2>1, <2>2
<1>8. RemovalIsNotLast'
  <2> SUFFICES ASSUME NEW f \in Watched, Exists(f)', NEW i \in Removals(f)'
               PROVE  OnItsWay(f)' \/ (\E j \in Rewrites(f)' : i < j)
    BY DEF RemovalIsNotLast
  <2>1. CASE f = g
    BY <1>6, <2>1
  <2>2. CASE f # g
    <3>1. Exists(f) /\ i \in Removals(f)
      BY <1>2, <1>4, <2>2, FilesAssumption DEF Exists
    <3>2. OnItsWay(f) \/ (\E j \in Rewrites(f) : i < j)
      BY <3>1 DEF RemovalIsNotLast
    <3> QED BY <1>4, <1>5, <3>2, FilesAssumption
  <2> QED BY <2>1, <2>2
<1>9. UnseenRow'
  <2> SUFFICES ASSUME NEW f \in unseen' PROVE (row[f] = NoRow \/ Current(f))'
    BY DEF UnseenRow
  <2>1. f \in unseen /\ f \in File \ {g}
    BY <1>1 DEF TypeOK, TypeInv
  <2> QED BY <1>1, <1>2, <2>1 DEF UnseenRow, Current, Exists
<1>10. RunRight'
  <2>1. run.file \in unseen' => run.file \in unseen /\ run.file \in File \ {g}
    BY <1>1 DEF TypeOK, TypeInv
  <2> QED BY <1>1, <1>2, <2>1 DEF RunRight
<1>11. RunStale'
  <2> SUFFICES ASSUME run.step \in {"read", "write"}, run.file \in Watched, Exists(run.file)'
               PROVE  (\/ run.hash = disk[run.file] /\ (run.step = "write" => run.text = disk[run.file])
                       \/ Pending(run.file))'
    BY <1>1 DEF RunStale
  <2>1. CASE run.file = g
    BY <1>1, <1>6, <2>1
  <2>2. CASE run.file # g
    <3>1. Exists(run.file) /\ disk'[run.file] = disk[run.file]
      BY <1>1, <1>2, <2>2, FilesAssumption DEF Exists
    <3>2. \/ run.hash = disk[run.file] /\ (run.step = "write" => run.text = disk[run.file])
          \/ Pending(run.file)
      BY <3>1 DEF RunStale
    <3>3. Pending(run.file) => Pending(run.file)'
      <4> DEFINE h == run.file
      <4>1. h \in Watched /\ run.file' = h
        BY <1>1
      <4>2. ASSUME NEW f \in Watched, f = h, Pending(f) PROVE Pending(f)'
        BY <1>7, <4>2
      <4>3. PICK f \in Watched : f = h
        BY <4>1
      <4>4. (Pending(run.file) <=> Pending(f)) /\ (Pending(run.file)' <=> Pending(f)')
        BY <4>1, <4>3 DEF Pending, Exists, Removals, OnItsWay, Rewrites, BeingIndexed
      <4> QED BY <4>2, <4>3, <4>4
    <3> QED BY <1>1, <3>1, <3>2, <3>3
  <2> QED BY <2>1, <2>2
<1>12. ScanSees' /\ ScanGoesOn'
  <2>1. ASSUME NEW f \in Walked, Undisturbed(f)'
        PROVE  Undisturbed(f) /\ (Exists(f)' <=> Exists(f)) /\ disk'[f] = disk[f]
    BY <1>1, <1>2, <2>1, FilesAssumption DEF Undisturbed, Exists
  <2>2. ScanSees'
    <3> SUFFICES ASSUME Running, NEW f \in Walked, Undisturbed(f)'
                 PROVE (/\ Exists(f) <=> f \in scan.files
                        /\ scan.hashes[f] \in {None, disk[f]}
                        /\ scan.texts[f] \in {None, disk[f]})'
      BY <1>1 DEF ScanSees, Running
    <3> QED BY <1>1, <2>1 DEF ScanSees
  <2>3. ScanGoesOn'
    <3>1. scan.files \subseteq Walked
      BY DEF TypeOK, TypeInv
    <3> SUFFICES ASSUME NEW f \in scan.files, Undisturbed(f)'
                 PROVE (/\ scan.step = "hash" => f \in scan.todo \/ scan.hashes[f] = disk[f] \/ row[f].hash = disk[f]
                        /\ scan.step = "parse" =>
                              f \in scan.todo \/ scan.texts[f] = disk[f] \/ row[f].hash = disk[f] \/ disk[f] \in Binary
                        /\ scan.step = "write" => f \in scan.todo \/ row[f].hash = disk[f] \/ disk[f] \in Binary
                        /\ scan.step = "resolve" => row[f].hash = disk[f] \/ disk[f] \in Binary)'
      BY <1>1 DEF ScanGoesOn
    <3> QED BY <1>1, <2>1, <3>1 DEF ScanGoesOn
  <2> QED BY <2>2, <2>3
<1>13. ScanStale'
  <2> SUFFICES ASSUME Running, NEW f \in Watched \cap Walked, Exists(f)'
               PROVE  (/\ f \notin scan.files => Pending(f)
                       /\ scan.hashes[f] \notin {None, disk[f]} => Pending(f)
                       /\ scan.texts[f] \notin {None, disk[f]} => Pending(f))'
    BY <1>1 DEF ScanStale, Running
  <2>1. CASE f = g
    BY <1>6, <2>1
  <2>2. CASE f # g
    <3>1. Exists(f) /\ disk'[f] = disk[f]
      BY <1>2, <2>2, FilesAssumption DEF Exists
    <3> QED BY <1>1, <1>7, <3>1 DEF ScanStale
  <2> QED BY <2>1, <2>2
<1>14. StaleIsReported'
  <2> SUFFICES ASSUME NEW f \in Watched \cap Walked, f \notin unseen' PROVE (Current(f) \/ Pending(f) \/ Refused(f))'
    BY DEF StaleIsReported
  <2>1. CASE f = g
    BY <1>6, <2>1
  <2>2. CASE f # g
    <3>1. f \notin unseen /\ (Current(f) => Current(f)') /\ (Refused(f) => Refused(f)')
      BY <1>1, <1>2, <2>2, FilesAssumption DEF Exists, Current, Refused
    <3> QED BY <1>7, <3>1 DEF StaleIsReported
  <2> QED BY <2>1, <2>2
<1> QED BY <1>8, <1>9, <1>10, <1>11, <1>12, <1>13, <1>14

\* A removal takes the row of a file that is gone, or of one that a run behind it will see.
LEMMA StaleDeletes == TypeInv /\ StaleInv /\ Deletes => StaleInv'
<1> SUFFICES ASSUME TypeInv, StaleInv, Deletes PROVE StaleInv'
  OBVIOUS
<1> USE DEF StaleInv
<1> DEFINE S == Head(queue).files
<1>0. /\ queue \in Seq(Requests) /\ queue # << >> /\ queue' = Tail(queue)
      /\ Head(queue).kind \in {"delete", "sweep"}
      /\ UNCHANGED <<disk, events, spawned, scan, run, calm, unseen>> /\ watcher'.mod = watcher.mod
      /\ scan.step = "none" /\ run.step = "none"
      /\ \A f \in File : row'[f] = IF f \in S THEN NoRow ELSE row[f]
  BY RemoveTyped DEF TypeInv, TypeOK, Deletes, MutexFree, history
<1>1. /\ scan.files = {} /\ unseen \subseteq File /\ run.hash = None
  BY <1>0 DEF TypeInv, TypeOK, ScanShape, NoScan, RunShape
<1>2. ASSUME NEW f
      PROVE  /\ \A i \in Removals(f) : i # 1 => i - 1 \in Removals(f)' /\ i > 1
             /\ \A i \in Rewrites(f) : i - 1 \in Rewrites(f)' /\ i > 1
             /\ \A i \in Removals(f)' : i \in Nat /\ i + 1 \in Removals(f) /\ i + 1 > 1
             /\ 1 \in Removals(f) <=> f \in S
  BY <1>0, ServeKeeps
<1>3. \A f : (Exists(f)' <=> Exists(f)) /\ (OnItsWay(f)' <=> OnItsWay(f)) /\ (BeingIndexed(f)' <=> BeingIndexed(f))
  BY <1>0 DEF Exists, OnItsWay, BeingIndexed
<1>4. \A f : \A i \in Removals(f) \cup Rewrites(f) : i \in Nat
  BY <1>0 DEF Removals, Rewrites
<1>5. RemovalIsNotLast'
  <2> SUFFICES ASSUME NEW f \in Watched, Exists(f)', NEW i \in Removals(f)'
               PROVE  OnItsWay(f)' \/ (\E j \in Rewrites(f)' : i < j)
    BY DEF RemovalIsNotLast
  <2>1. Exists(f) /\ i + 1 \in Removals(f) /\ i \in Nat
    BY <1>2, <1>3
  <2>2. OnItsWay(f) \/ (\E j \in Rewrites(f) : i + 1 < j)
    BY <2>1 DEF RemovalIsNotLast
  <2>3. ASSUME NEW j \in Rewrites(f), i + 1 < j PROVE j - 1 \in Rewrites(f)' /\ i < j - 1
    BY <1>2, <1>4, <2>1, <2>3
  <2> QED BY <1>3, <2>2, <2>3
<1>6. ASSUME NEW f \in Watched, f \notin S, Pending(f) PROVE Pending(f)'
  <2>1. Removals(f) # {} => Removals(f)' # {}
    BY <1>2, <1>6
  <2>2. Rewrites(f) # {} => Rewrites(f)' # {}
    BY <1>2
  <2> QED BY <1>0, <1>3, <1>6, <2>1, <2>2 DEF Pending
<1>7. ASSUME NEW f \in Watched, f \in S PROVE Current(f)' \/ Pending(f)'
  <2>1. CASE ~Exists(f)
    BY <1>0, <1>3, <1>7, <2>1, FilesAssumption DEF Current
  <2>2. CASE Exists(f)
    <3>1. OnItsWay(f) \/ (\E j \in Rewrites(f) : 1 < j)
      BY <1>2, <1>7, <2>2 DEF RemovalIsNotLast
    <3>2. OnItsWay(f)' \/ Rewrites(f)' # {}
      BY <1>2, <1>3, <3>1
    <3> QED BY <1>3, <2>2, <3>2 DEF Pending
  <2> QED BY <2>1, <2>2
<1>8. UnseenRow'
  <2> SUFFICES ASSUME NEW f \in unseen PROVE (row[f] = NoRow \/ Current(f))'
    BY <1>0 DEF UnseenRow
  <2> QED BY <1>0, <1>1 DEF UnseenRow, Current, Exists
<1>9. RunRight' /\ RunStale' /\ ScanSees' /\ ScanGoesOn' /\ ScanStale'
  BY <1>0, <1>1 DEF RunRight, RunStale, ScanSees, ScanGoesOn, ScanStale, Running
<1>10. StaleIsReported'
  <2> SUFFICES ASSUME NEW f \in Watched \cap Walked, f \notin unseen PROVE (Current(f) \/ Pending(f) \/ Refused(f))'
    BY <1>0 DEF StaleIsReported
  <2>1. CASE f \in S
    BY <1>7, <2>1
  <2>2. CASE f \notin S
    <3>1. (Current(f) => Current(f)') /\ (Refused(f) => Refused(f)')
      BY <1>0, <2>2, FilesAssumption DEF Current, Exists, Refused
    <3> QED BY <1>6, <2>2, <3>1 DEF StaleIsReported
  <2> QED BY <2>1, <2>2
<1> QED BY <1>5, <1>8, <1>9, <1>10

\* A run that begins has in hand what it was to do.
LEMMA StaleRunBegins == TypeInv /\ StaleInv /\ RunBegins => StaleInv'
<1> SUFFICES ASSUME TypeInv, StaleInv, RunBegins PROVE StaleInv'
  OBVIOUS
<1> USE DEF StaleInv
<1>0. /\ queue \in Seq(Requests) /\ queue # << >> /\ queue' = Tail(queue)
      /\ Head(queue).kind = "run"
      /\ UNCHANGED <<disk, row, events, watcher, spawned, scan, calm, unseen>>
      /\ scan.step = "none" /\ run.step = "none"
      /\ run'.step = "hash" /\ run'.todo = Head(queue).files
  BY DEF TypeInv, TypeOK, RunBegins, MutexFree, history, index, NoRun
<1>1. scan.files = {} /\ run = NoRun
  BY <1>0 DEF TypeInv, ScanShape, RunShape, NoScan
<1>2. ASSUME NEW f
      PROVE  /\ \A i \in Removals(f) : i - 1 \in Removals(f)' /\ i > 1
             /\ \A i \in Rewrites(f) : i # 1 => i - 1 \in Rewrites(f)' /\ i > 1
             /\ \A i \in Removals(f)' : i \in Nat /\ i + 1 \in Removals(f)
             /\ 1 \in Rewrites(f) <=> f \in Head(queue).files
  BY <1>0, ServeKeeps
<1>3. \A f : (Exists(f)' <=> Exists(f)) /\ (OnItsWay(f)' <=> OnItsWay(f))
  BY <1>0 DEF Exists, OnItsWay
<1>4. \A f : \A i \in Removals(f) \cup Rewrites(f) : i \in Nat
  BY <1>0 DEF Removals, Rewrites
<1>5. RemovalIsNotLast'
  <2> SUFFICES ASSUME NEW f \in Watched, Exists(f)', NEW i \in Removals(f)'
               PROVE  OnItsWay(f)' \/ (\E j \in Rewrites(f)' : i < j)
    BY DEF RemovalIsNotLast
  <2>1. Exists(f) /\ i + 1 \in Removals(f) /\ i \in Nat
    BY <1>2, <1>3
  <2>2. OnItsWay(f) \/ (\E j \in Rewrites(f) : i + 1 < j)
    BY <2>1 DEF RemovalIsNotLast
  <2>3. ASSUME NEW j \in Rewrites(f), i + 1 < j PROVE j - 1 \in Rewrites(f)' /\ i < j - 1
    BY <1>2, <1>4, <2>1, <2>3
  <2> QED BY <1>3, <2>2, <2>3
<1>6. ASSUME NEW f \in Watched, Pending(f) PROVE Pending(f)'
  <2>1. Removals(f) # {} => Removals(f)' # {}
    BY <1>2
  <2>2. Rewrites(f) # {} => Rewrites(f)' # {} \/ BeingIndexed(f)'
    BY <1>0, <1>2 DEF BeingIndexed
  <2>3. ~(Exists(f) /\ BeingIndexed(f))
    BY <1>1 DEF BeingIndexed, NoRun, Exists
  <2> QED BY <1>0, <1>3, <1>6, <2>1, <2>2, <2>3 DEF Pending
<1>7. RunRight' /\ RunStale' /\ ScanSees' /\ ScanGoesOn' /\ ScanStale'
  BY <1>0, <1>1 DEF RunRight, RunStale, ScanSees, ScanGoesOn, ScanStale, Running
<1>8. UnseenRow'
  BY <1>0 DEF UnseenRow, Current, Exists
<1>9. StaleIsReported'
  <2>1. \A f : (Current(f) => Current(f)') /\ (Refused(f) => Refused(f)')
    BY <1>0 DEF Current, Exists, Refused
  <2> QED BY <1>0, <1>6, <2>1 DEF StaleIsReported
<1> QED BY <1>5, <1>7, <1>8, <1>9

\* What a step of a run leaves alone, and what is left to show of it.
LEMMA StaleRunFrame ==
    ASSUME TypeInv, StaleInv, Exclusive, run.step # "none",
           UNCHANGED <<disk, events, watcher, spawned, queue, scan, calm, unseen>>
    PROVE  /\ UnseenRow' /\ RunRight' /\ RunStale' /\ StaleIsReported' => StaleInv'
           /\ \A f : Exists(f)' <=> Exists(f)
           /\ \A f : Pending(f) /\ (Exists(f) /\ BeingIndexed(f) => BeingIndexed(f)') => Pending(f)'
<1>1. scan.step = "none" /\ scan.files = {}
  BY DEF Exclusive, TypeInv, ScanShape, NoScan
<1>2. ScanSees' /\ ScanGoesOn' /\ ScanStale'
  BY <1>1 DEF ScanSees, ScanGoesOn, ScanStale, Running
<1>4. RemovalIsNotLast'
  <2> SUFFICES ASSUME NEW f \in Watched, Exists(f)', NEW i \in Removals(f)'
               PROVE  OnItsWay(f)' \/ (\E j \in Rewrites(f)' : i < j)
    BY DEF RemovalIsNotLast
  <2>1. Exists(f) /\ i \in Removals(f)
    BY DEF Exists, Removals
  <2> QED BY <2>1 DEF StaleInv, RemovalIsNotLast, OnItsWay, Rewrites
<1>5. \A f : Pending(f) /\ (Exists(f) /\ BeingIndexed(f) => BeingIndexed(f)') => Pending(f)'
  <2> SUFFICES ASSUME NEW f, Pending(f), Exists(f) /\ BeingIndexed(f) => BeingIndexed(f)' PROVE Pending(f)'
    OBVIOUS
  <2>1. /\ Exists(f)' <=> Exists(f)
        /\ OnItsWay(f)' <=> OnItsWay(f)
        /\ Removals(f)' = Removals(f)
        /\ Rewrites(f)' = Rewrites(f)
    BY DEF Exists, OnItsWay, Removals, Rewrites
  <2> QED BY <2>1 DEF Pending
<1>6. \A f : Exists(f)' <=> Exists(f)
  BY DEF Exists
<1> QED BY <1>2, <1>4, <1>5, <1>6 DEF StaleInv

LEMMA StaleRunHashes ==
    ASSUME TypeInv, StaleInv, Exclusive, NEW g \in run.todo, RunHashes(g) PROVE StaleInv'
<1> USE DEF StaleInv
<1>0. /\ run.step = "hash" /\ run.hash = None
      /\ UNCHANGED <<disk, row, events, watcher, spawned, queue, scan, calm, unseen>>
      /\ run' = IF Exists(g)
                THEN [run EXCEPT !.step = "read", !.todo = @ \ {g}, !.file = g, !.hash = disk[g]]
                ELSE [run EXCEPT !.todo = @ \ {g}]
  BY DEF RunHashes, TypeInv, RunShape, tasks, index, history
<1>1. /\ run'.todo = run.todo \ {g}
      /\ \/ Exists(g) /\ run'.step = "read" /\ run'.file = g /\ run'.hash = disk[g]
         \/ ~Exists(g) /\ run'.step = "hash" /\ run'.file = run.file /\ run'.hash = None
  BY <1>0 DEF TypeInv, TypeOK
<1>2. ASSUME NEW f, Pending(f) PROVE Pending(f)'
  <2>1. Exists(f) /\ BeingIndexed(f) => f \in run.todo
    BY <1>0 DEF BeingIndexed, Exists
  <2>2. Exists(f) /\ f \in run.todo => BeingIndexed(f)'
    BY <1>0, <1>1 DEF BeingIndexed
  <2> QED BY <1>0, <1>2, <2>1, <2>2, StaleRunFrame
<1>3. UnseenRow'
  BY <1>0 DEF UnseenRow, Current, Exists
<1>4. RunRight' /\ RunStale'
  BY <1>0, <1>1 DEF RunRight, RunStale
<1>5. StaleIsReported'
  <2>1. \A f : (Current(f) => Current(f)') /\ (Refused(f) => Refused(f)')
    BY <1>0 DEF Current, Exists, Refused
  <2> QED BY <1>0, <1>2, <2>1 DEF StaleIsReported
<1> QED BY <1>0, <1>3, <1>4, <1>5, StaleRunFrame

LEMMA StaleRunReads == TypeInv /\ StaleInv /\ Exclusive /\ RunReads => StaleInv'
<1> SUFFICES ASSUME TypeInv, StaleInv, Exclusive, RunReads PROVE StaleInv'
  OBVIOUS
<1> USE DEF StaleInv
<1>g. PICK g \in File : g = run.file /\ run.step = "read" /\ run.hash \in Text
  BY DEF RunReads, TypeInv, RunShape
<1>0. /\ run.step = "read" /\ run.step # "none"
      /\ UNCHANGED <<disk, row, events, watcher, spawned, queue, scan, calm, unseen>>
      /\ run' = IF Legible(g) /\ <<g, disk[g]>> \notin Unparsed
                THEN [run EXCEPT !.step = "write", !.text = disk[g]] ELSE NextFile
  BY <1>g DEF RunReads, tasks, index, history
<1>1. /\ run'.todo = run.todo
      /\ \/ /\ Exists(g) /\ ~Refused(g) /\ run'.step = "write" /\ run'.file = g
            /\ run'.hash = run.hash /\ run'.text = disk[g]
         \/ (Exists(g) => Refused(g)) /\ run'.step = "hash" /\ run'.hash = None
  <2>1. Legible(g) /\ <<g, disk[g]>> \notin Unparsed <=> Exists(g) /\ ~Refused(g)
    BY DEF Legible, Refused
  <2> QED BY <1>g, <1>0, <2>1 DEF TypeInv, TypeOK, NextFile
<1>2. ASSUME NEW f, Pending(f), f # g \/ ~Refused(g) PROVE Pending(f)'
  <2>1. Exists(f) /\ BeingIndexed(f) => BeingIndexed(f)'
    BY <1>g, <1>0, <1>1, <1>2 DEF BeingIndexed
  <2> QED BY <1>0, <1>2, <2>1, StaleRunFrame
<1>3. UnseenRow'
  BY <1>0 DEF UnseenRow, Current, Exists
<1>4. RunRight'
  BY <1>g, <1>0, <1>1 DEF RunRight
<1>5. RunStale'
  <2>1. CASE Exists(g) => Refused(g)
    BY <1>1, <2>1 DEF RunStale
  <2>2. CASE g \notin Watched
    BY <1>1, <2>2 DEF RunStale
  <2>3. CASE Exists(g) /\ ~Refused(g) /\ g \in Watched
    <3>1. run.hash = disk[g] \/ Pending(g)
      BY <1>g, <2>3 DEF RunStale
    <3>2. run'.hash = disk[g] \/ Pending(g)'
      BY <1>1, <1>2, <2>3, <3>1
    <3>3. run'.file = g /\ run'.text = disk'[g] /\ run'.step = "write"
      BY <1>0, <1>1, <2>3
    <3>4. Pending(g)' => Pending(run.file)'
      BY <3>3
    <3> QED BY <1>0, <3>2, <3>3, <3>4 DEF RunStale
  <2> QED BY <2>1, <2>2, <2>3
<1>6. StaleIsReported'
  <2>1. \A f : (Current(f) => Current(f)') /\ (Refused(f) => Refused(f)')
    BY <1>0 DEF Current, Exists, Refused
  <2> QED BY <1>0, <1>2, <2>1 DEF StaleIsReported
<1> QED BY <1>0, <1>3, <1>4, <1>5, <1>6, StaleRunFrame

LEMMA StaleRunWrites == TypeInv /\ StaleInv /\ Exclusive /\ RunWrites => StaleInv'
<1> SUFFICES ASSUME TypeInv, StaleInv, Exclusive, RunWrites PROVE StaleInv'
  OBVIOUS
<1> USE DEF StaleInv
<1>g. PICK g \in File : g = run.file /\ run.step = "write" /\ run.hash \in Text /\ run.text \in Text
  BY DEF RunWrites, TypeInv, RunShape
<1>0. /\ run.step # "none"
      /\ UNCHANGED <<disk, events, watcher, spawned, queue, scan, calm, unseen>>
      /\ run'.step = "hash" /\ run'.todo = run.todo /\ run'.hash = None
      /\ IF Exists(g) THEN WriteRow(g, run.hash, run.text) ELSE UNCHANGED index
  BY <1>g DEF RunWrites, TypeInv, TypeOK, tasks, history, NextFile
<1>1. /\ \A f \in File \ {g} : row'[f] = row[f]
      /\ row'[g] = IF Exists(g) THEN [hash |-> run.hash, text |-> run.text] ELSE row[g]
  BY <1>g, <1>0, WriteTyped DEF index, TypeInv
<1>2. ASSUME NEW f, f # g \/ ~(run.hash = disk[g] /\ run.text = disk[g]), Pending(f) PROVE Pending(f)'
  <2>1. Exists(f) /\ BeingIndexed(f) => BeingIndexed(f)'
    BY <1>g, <1>0, <1>2 DEF BeingIndexed
  <2> QED BY <1>0, <1>2, <2>1, StaleRunFrame
<1>3. unseen \subseteq File
  BY DEF TypeInv, TypeOK
<1>4. UnseenRow'
  <2> SUFFICES ASSUME NEW f \in unseen PROVE (row[f] = NoRow \/ Current(f))'
    BY <1>0 DEF UnseenRow
  <2>1. CASE f = g
    <3>1. run.hash = disk[g] /\ run.text = disk[g]
      BY <1>g, <2>1 DEF RunRight
    <3> QED BY <1>0, <1>1, <2>1, <3>1 DEF UnseenRow, Current, Exists
  <2>2. CASE f # g
    BY <1>0, <1>1, <1>3, <2>2 DEF UnseenRow, Current, Exists
  <2> QED BY <2>1, <2>2
<1>5. RunRight' /\ RunStale'
  BY <1>0 DEF RunRight, RunStale
<1>6. StaleIsReported'
  <2> SUFFICES ASSUME NEW f \in Watched \cap Walked, f \notin unseen PROVE (Current(f) \/ Pending(f) \/ Refused(f))'
    BY <1>0 DEF StaleIsReported
  <2>0. Refused(f) => Refused(f)'
    BY <1>0 DEF Refused, Exists
  <2>1. CASE f = g /\ Exists(g)
    <3>1. CASE run.hash = disk[g] /\ run.text = disk[g]
      BY <1>0, <1>1, <2>1, <3>1 DEF Current, Exists
    <3>2. CASE ~(run.hash = disk[g] /\ run.text = disk[g])
      <4>1. Pending(g)
        <5>1. Pending(run.file)
          BY <1>g, <2>1, <3>2 DEF RunStale
        <5> QED BY <1>g, <5>1
      <4> QED BY <1>2, <2>1, <3>2, <4>1
    <3> QED BY <3>1, <3>2
  <2>2. CASE f # g
    <3>1. Current(f) => Current(f)'
      BY <1>0, <1>1, <2>2, FilesAssumption DEF Current, Exists
    <3> QED BY <1>2, <2>0, <2>2, <3>1 DEF StaleIsReported
  <2>3. CASE f = g /\ ~Exists(g)
    <3>1. Current(f) => Current(f)'
      BY <1>0, <1>1, <2>3 DEF Current, Exists
    <3>2. Pending(f) => Pending(f)'
      BY <1>0, <2>3, StaleRunFrame
    <3> QED BY <2>0, <3>1, <3>2 DEF StaleIsReported
  <2> QED BY <2>1, <2>2, <2>3
<1> QED BY <1>0, <1>4, <1>5, <1>6, StaleRunFrame

LEMMA StaleRunEnds == TypeInv /\ StaleInv /\ Exclusive /\ RunEnds => StaleInv'
<1> SUFFICES ASSUME TypeInv, StaleInv, Exclusive, RunEnds PROVE StaleInv'
  OBVIOUS
<1> USE DEF StaleInv
<1>0. /\ run.step = "hash" /\ run.todo = {} /\ run.hash = None
      /\ UNCHANGED <<disk, row, events, watcher, spawned, queue, scan, calm, unseen>>
      /\ run'.step = "none"
  BY DEF RunEnds, TypeInv, RunShape, tasks, index, history, NoRun
<1>1. ASSUME NEW f, Pending(f) PROVE Pending(f)'
  <2>1. ~(Exists(f) /\ BeingIndexed(f))
    BY <1>0 DEF BeingIndexed, Exists
  <2> QED BY <1>0, <1>1, <2>1, StaleRunFrame
<1>2. UnseenRow'
  BY <1>0 DEF UnseenRow, Current, Exists
<1>3. RunRight' /\ RunStale'
  BY <1>0 DEF RunRight, RunStale
<1>4. StaleIsReported'
  <2>1. \A f : (Current(f) => Current(f)') /\ (Refused(f) => Refused(f)')
    BY <1>0 DEF Current, Exists, Refused
  <2> QED BY <1>0, <1>1, <2>1 DEF StaleIsReported
<1> QED BY <1>0, <1>2, <1>3, <1>4, StaleRunFrame

\* What a step of a scan leaves alone, and what is left to show of it.
LEMMA StaleScanFrame ==
    ASSUME StaleInv, UNCHANGED <<disk, events, watcher, spawned, queue, run>>, unseen' \subseteq unseen
    PROVE  /\ UnseenRow' /\ ScanSees' /\ ScanGoesOn' /\ ScanStale' /\ StaleIsReported' => StaleInv'
           /\ \A f : Exists(f)' <=> Exists(f)
           /\ \A f : (Pending(f)' <=> Pending(f)) /\ (Refused(f)' <=> Refused(f))
           /\ row' = row => \A f : Current(f)' <=> Current(f)
<1>1. \A f : Exists(f)' <=> Exists(f)
  BY DEF Exists
<1>2. \A f : (Pending(f)' <=> Pending(f)) /\ (Refused(f)' <=> Refused(f))
  BY DEF Pending, Exists, OnItsWay, Removals, Rewrites, BeingIndexed, Refused
<1>3. RemovalIsNotLast'
  BY DEF StaleInv, RemovalIsNotLast, Exists, OnItsWay, Removals, Rewrites
<1>4. RunRight'
  BY DEF StaleInv, RunRight
<1>5. RunStale'
  BY DEF StaleInv, RunStale, Pending, Exists, OnItsWay, Removals, Rewrites, BeingIndexed
<1>6. row' = row => \A f : Current(f)' <=> Current(f)
  BY DEF Current, Exists
<1> QED BY <1>1, <1>2, <1>3, <1>4, <1>5, <1>6 DEF StaleInv

LEMMA StaleScanBegins == TypeInv /\ StaleInv /\ ScanBegins => StaleInv'
<1> SUFFICES ASSUME TypeInv, StaleInv, ScanBegins PROVE StaleInv'
  OBVIOUS
<1> USE DEF StaleInv
<1>0. /\ queue \in Seq(Requests) /\ queue # << >> /\ queue' = Tail(queue)
      /\ Head(queue).kind \in {"scan", "rescan"}
      /\ UNCHANGED <<disk, row, events, watcher, spawned, run, unseen>>
      /\ run.step = "none"
      /\ scan'.step = "hash" /\ scan'.files = {f \in Walked : Exists(f)} /\ scan'.todo = scan'.files
      /\ scan'.hashes = NoFiles /\ scan'.texts = NoFiles
  BY DEF TypeInv, TypeOK, ScanBegins, MutexFree, index, NoScan
<1>1. ASSUME NEW f
      PROVE  /\ \A i \in Removals(f) : i - 1 \in Removals(f)' /\ i > 1
             /\ \A i \in Rewrites(f) : i - 1 \in Rewrites(f)' /\ i > 1
             /\ \A i \in Removals(f)' : i \in Nat /\ i + 1 \in Removals(f)
  BY <1>0, ServeKeeps
<1>2. \A f : (Exists(f)' <=> Exists(f)) /\ (OnItsWay(f)' <=> OnItsWay(f)) /\ (BeingIndexed(f)' <=> BeingIndexed(f))
  BY <1>0 DEF Exists, OnItsWay, BeingIndexed
<1>3. \A f : \A i \in Removals(f) \cup Rewrites(f) : i \in Nat
  BY <1>0 DEF Removals, Rewrites
<1>4. RemovalIsNotLast'
  <2> SUFFICES ASSUME NEW f \in Watched, Exists(f)', NEW i \in Removals(f)'
               PROVE  OnItsWay(f)' \/ (\E j \in Rewrites(f)' : i < j)
    BY DEF RemovalIsNotLast
  <2>1. Exists(f) /\ i + 1 \in Removals(f) /\ i \in Nat
    BY <1>1, <1>2
  <2>2. OnItsWay(f) \/ (\E j \in Rewrites(f) : i + 1 < j)
    BY <2>1 DEF RemovalIsNotLast
  <2>3. ASSUME NEW j \in Rewrites(f), i + 1 < j PROVE j - 1 \in Rewrites(f)' /\ i < j - 1
    BY <1>1, <1>3, <2>1, <2>3
  <2> QED BY <1>2, <2>2, <2>3
<1>5. ASSUME NEW f, Pending(f) PROVE Pending(f)'
  <2>1. /\ Removals(f) # {} => Removals(f)' # {}
        /\ Rewrites(f) # {} => Rewrites(f)' # {}
    BY <1>1
  <2> QED BY <1>0, <1>2, <1>5, <2>1 DEF Pending
<1>6. UnseenRow' /\ RunRight' /\ RunStale'
  BY <1>0 DEF UnseenRow, RunRight, RunStale, Current, Exists
<1>7. \A f \in Walked : scan'.hashes[f] = None /\ scan'.texts[f] = None
  BY <1>0, FilesAssumption DEF NoFiles
<1>8. ScanSees' /\ ScanGoesOn' /\ ScanStale'
  BY <1>0, <1>2, <1>7 DEF ScanSees, ScanGoesOn, ScanStale
<1>9. StaleIsReported'
  <2>1. \A f : (Current(f) => Current(f)') /\ (Refused(f) => Refused(f)')
    BY <1>0 DEF Current, Exists, Refused
  <2> QED BY <1>0, <1>5, <2>1 DEF StaleIsReported
<1> QED BY <1>4, <1>6, <1>8, <1>9

LEMMA StaleScanHashes ==
    ASSUME TypeInv, StaleInv, NEW g \in scan.todo, ScanHashes(g) PROVE StaleInv'
<1> USE DEF StaleInv
<1>g. g \in File /\ g \in Walked /\ g \in scan.files
  BY FilesAssumption DEF TypeInv, TypeOK, ScanShape
<1>0. /\ scan.step = "hash" /\ scan'.step = "hash" /\ scan'.files = scan.files /\ scan'.todo = scan.todo \ {g}
      /\ UNCHANGED <<disk, row, events, watcher, spawned, queue, run, calm, unseen>>
      /\ scan'.texts = scan.texts
      /\ \A f \in File \ {g} : scan'.hashes[f] = scan.hashes[f]
      /\ scan'.hashes[g] = IF Exists(g) /\ (scan.full \/ row[g].hash # disk[g]) THEN disk[g] ELSE None
  BY <1>g DEF ScanHashes, TypeInv, TypeOK, tasks, index, history
<1>1. /\ \A f : Exists(f)' <=> Exists(f)
      /\ \A f : (Pending(f)' <=> Pending(f)) /\ (Refused(f)' <=> Refused(f))
      /\ \A f : Current(f)' <=> Current(f)
      /\ \A f : Undisturbed(f)' <=> Undisturbed(f)
  BY <1>0, StaleScanFrame DEF Undisturbed
<1>2. UnseenRow' /\ StaleIsReported'
  BY <1>0, <1>1 DEF UnseenRow, StaleIsReported
<1>3. Running /\ Running'
  BY <1>0 DEF Running
<1>4. ScanSees'
  BY <1>g, <1>0, <1>1, <1>3, FilesAssumption DEF ScanSees
<1>5. ScanStale'
  BY <1>g, <1>0, <1>1, <1>3, FilesAssumption DEF ScanStale
<1>6. ScanGoesOn'
  <2> SUFFICES ASSUME NEW f \in scan.files, Undisturbed(f)
               PROVE  f \in scan'.todo \/ scan'.hashes[f] = disk[f] \/ row[f].hash = disk[f]
    BY <1>0, <1>1 DEF ScanGoesOn
  <2>1. CASE f = g
    <3>1. Exists(g)
      BY <1>g, <1>3, <2>1 DEF ScanSees
    <3> QED BY <1>0, <2>1, <3>1
  <2>2. CASE f # g
    <3>1. f \in File
      BY FilesAssumption DEF TypeInv, TypeOK
    <3> QED BY <1>0, <2>2, <3>1 DEF ScanGoesOn
  <2> QED BY <2>1, <2>2
<1> QED BY <1>0, <1>2, <1>4, <1>5, <1>6, StaleScanFrame

LEMMA StaleScanRemoves == TypeInv /\ StaleInv /\ ScanRemoves => StaleInv'
<1> SUFFICES ASSUME TypeInv, StaleInv, ScanRemoves PROVE StaleInv'
  OBVIOUS
<1> USE DEF StaleInv
<1>0. /\ scan.step = "hash" /\ scan.todo = {} /\ scan'.step = "parse" /\ scan'.files = scan.files
      /\ scan'.todo = {f \in scan.files : scan.hashes[f] # None}
      /\ UNCHANGED <<disk, events, watcher, spawned, queue, run, calm, unseen>>
      /\ scan'.hashes = scan.hashes /\ scan'.texts = scan.texts
      /\ \A f \in File : row'[f] = IF f \in scan.files THEN row[f] ELSE NoRow
      /\ scan.files \subseteq Walked /\ unseen \subseteq File
  BY RemoveTyped DEF ScanRemoves, TypeInv, TypeOK, tasks, history
<1>1. /\ \A f : Exists(f)' <=> Exists(f)
      /\ \A f : (Pending(f)' <=> Pending(f)) /\ (Refused(f)' <=> Refused(f))
      /\ \A f : Undisturbed(f)' <=> Undisturbed(f)
  BY <1>0, StaleScanFrame DEF Undisturbed
<1>3. Running /\ Running'
  BY <1>0 DEF Running
<1>4. UnseenRow'
  BY <1>0, <1>1 DEF UnseenRow, Current
<1>5. ScanSees' /\ ScanStale'
  BY <1>0, <1>1, <1>3 DEF ScanSees, ScanStale
<1>6. ScanGoesOn'
  <2> SUFFICES ASSUME NEW f \in scan.files, Undisturbed(f)
               PROVE  f \in scan'.todo \/ scan'.texts[f] = disk[f] \/ row'[f].hash = disk[f] \/ disk[f] \in Binary
    BY <1>0, <1>1 DEF ScanGoesOn
  <2>1. disk[f] # None /\ row'[f] = row[f]
    BY <1>0, <1>3, FilesAssumption DEF ScanSees, Exists
  <2>2. scan.hashes[f] = disk[f] \/ row[f].hash = disk[f]
    BY <1>0 DEF ScanGoesOn
  <2> QED BY <1>0, <2>1, <2>2
<1>7. StaleIsReported'
  <2> SUFFICES ASSUME NEW f \in Watched \cap Walked, f \notin unseen PROVE Current(f)' \/ Pending(f) \/ Refused(f)
    BY <1>0, <1>1 DEF StaleIsReported
  <2>1. CASE f \in scan.files
    BY <1>0, <1>1, <2>1, FilesAssumption DEF StaleIsReported, Current
  <2>2. CASE f \notin scan.files /\ Exists(f)
    BY <1>3, <2>2 DEF ScanStale
  <2>3. CASE f \notin scan.files /\ ~Exists(f)
    BY <1>0, <1>1, <2>3, FilesAssumption DEF Current
  <2> QED BY <2>1, <2>2, <2>3
<1> QED BY <1>0, <1>4, <1>5, <1>6, <1>7, StaleScanFrame

LEMMA StaleScanParses ==
    ASSUME TypeInv, StaleInv, NEW g \in scan.todo, ScanParses(g) PROVE StaleInv'
<1> USE DEF StaleInv
<1>g. g \in File /\ g \in Walked /\ g \in scan.files
  BY FilesAssumption DEF TypeInv, TypeOK, ScanShape
<1>0. /\ scan.step = "parse" /\ scan'.step = "parse" /\ scan'.files = scan.files /\ scan'.todo = scan.todo \ {g}
      /\ UNCHANGED <<disk, row, events, watcher, spawned, queue, run, calm, unseen>>
      /\ scan'.hashes = scan.hashes
      /\ \A f \in File \ {g} : scan'.texts[f] = scan.texts[f]
      /\ scan'.texts[g] = IF Legible(g) THEN disk[g] ELSE None
  BY <1>g DEF ScanParses, TypeInv, TypeOK, tasks, index, history
<1>1. /\ \A f : Exists(f)' <=> Exists(f)
      /\ \A f : (Pending(f)' <=> Pending(f)) /\ (Refused(f)' <=> Refused(f))
      /\ \A f : Current(f)' <=> Current(f)
      /\ \A f : Undisturbed(f)' <=> Undisturbed(f)
  BY <1>0, StaleScanFrame DEF Undisturbed
<1>2. UnseenRow' /\ StaleIsReported'
  BY <1>0, <1>1 DEF UnseenRow, StaleIsReported
<1>3. Running /\ Running'
  BY <1>0 DEF Running
<1>4. ScanSees'
  BY <1>g, <1>0, <1>1, <1>3, FilesAssumption DEF ScanSees
<1>5. ScanStale'
  BY <1>g, <1>0, <1>1, <1>3, FilesAssumption DEF ScanStale
<1>6. ScanGoesOn'
  <2> SUFFICES ASSUME NEW f \in scan.files, Undisturbed(f)
               PROVE  f \in scan'.todo \/ scan'.texts[f] = disk[f] \/ row[f].hash = disk[f] \/ disk[f] \in Binary
    BY <1>0, <1>1 DEF ScanGoesOn
  <2>1. f \in File
    BY FilesAssumption DEF TypeInv, TypeOK
  <2>2. CASE f = g
    <3>1. Exists(g)
      BY <1>g, <1>3, <2>2 DEF ScanSees
    <3> QED BY <1>0, <2>2, <3>1 DEF Legible
  <2>3. CASE f # g
    BY <1>0, <2>1, <2>3 DEF ScanGoesOn
  <2> QED BY <2>2, <2>3
<1> QED BY <1>0, <1>2, <1>4, <1>5, <1>6, StaleScanFrame

LEMMA StaleScanParsed == TypeInv /\ StaleInv /\ (ScanParsed \/ ScanWritten) => StaleInv'
<1> SUFFICES ASSUME TypeInv, StaleInv, ScanParsed \/ ScanWritten PROVE StaleInv'
  OBVIOUS
<1> USE DEF StaleInv
<1>0. /\ scan.todo = {} /\ scan'.files = scan.files
      /\ \/ scan.step = "parse" /\ scan'.step = "write" /\ scan'.todo = Parsed
         \/ scan.step = "write" /\ scan'.step = "resolve"
      /\ UNCHANGED <<disk, row, events, watcher, spawned, queue, run, calm, unseen>>
      /\ scan'.hashes = scan.hashes /\ scan'.texts = scan.texts
  BY DEF ScanParsed, ScanWritten, TypeInv, TypeOK, tasks, index, history
<1>1. /\ \A f : Exists(f)' <=> Exists(f)
      /\ \A f : (Pending(f)' <=> Pending(f)) /\ (Refused(f)' <=> Refused(f))
      /\ \A f : Current(f)' <=> Current(f)
      /\ \A f : Undisturbed(f)' <=> Undisturbed(f)
  BY <1>0, StaleScanFrame DEF Undisturbed
<1>2. UnseenRow' /\ StaleIsReported'
  BY <1>0, <1>1 DEF UnseenRow, StaleIsReported
<1>3. Running /\ Running'
  BY <1>0 DEF Running
<1>4. ScanSees' /\ ScanStale'
  BY <1>0, <1>1, <1>3 DEF ScanSees, ScanStale
<1>5. ScanGoesOn'
  <2> SUFFICES ASSUME NEW f \in scan.files, Undisturbed(f)
               PROVE  /\ scan'.step = "write" => f \in scan'.todo \/ row[f].hash = disk[f] \/ disk[f] \in Binary
                      /\ scan'.step = "resolve" => row[f].hash = disk[f] \/ disk[f] \in Binary
    BY <1>0, <1>1 DEF ScanGoesOn
  <2>1. disk[f] # None
    <3>1. f \in Walked
      BY DEF TypeInv, TypeOK
    <3> QED BY <1>3, <3>1 DEF ScanSees, Exists
  <2>2. scan.texts[f] = disk[f] => f \in Parsed
    BY <2>1 DEF Parsed
  <2> QED BY <1>0, <2>2 DEF ScanGoesOn
<1> QED BY <1>0, <1>2, <1>4, <1>5, StaleScanFrame

LEMMA StaleScanWrites ==
    ASSUME TypeInv, StaleInv, NEW g \in scan.todo, ScanWrites(g) PROVE StaleInv'
<1> USE DEF StaleInv
<1>g. g \in File /\ g \in Walked /\ g \in scan.files /\ scan.hashes[g] \in Text /\ scan.texts[g] \in Text
  BY FilesAssumption DEF TypeInv, TypeOK, ScanShape, ScanWrites
<1>0. /\ scan.step = "write" /\ scan'.step = "write" /\ scan'.files = scan.files /\ scan'.todo = scan.todo \ {g}
      /\ UNCHANGED <<disk, events, watcher, spawned, queue, run, calm, unseen>>
      /\ scan'.hashes = scan.hashes /\ scan'.texts = scan.texts
      /\ IF Exists(g) THEN WriteRow(g, scan.hashes[g], scan.texts[g]) ELSE UNCHANGED index
  BY DEF ScanWrites, TypeInv, TypeOK, tasks, history
<1>r. /\ \A f \in File \ {g} : row'[f] = row[f]
      /\ row'[g] = IF Exists(g) THEN [hash |-> scan.hashes[g], text |-> scan.texts[g]] ELSE row[g]
  BY <1>g, <1>0, WriteTyped DEF index, TypeInv
<1>1. /\ \A f : Exists(f)' <=> Exists(f)
      /\ \A f : (Pending(f)' <=> Pending(f)) /\ (Refused(f)' <=> Refused(f))
      /\ \A f : Undisturbed(f)' <=> Undisturbed(f)
      /\ \A f \in File : f # g \/ ~Exists(g) => (Current(f)' <=> Current(f))
  <2>1. \A f \in File : f # g \/ ~Exists(g) => (Current(f)' <=> Current(f))
    BY <1>0, <1>r DEF Current, Exists
  <2> QED BY <1>0, <2>1, StaleScanFrame DEF Undisturbed
<1>3. Running /\ Running' /\ unseen \subseteq File
  BY <1>0 DEF Running, TypeInv, TypeOK
<1>s. Undisturbed(g) => Exists(g) /\ scan.hashes[g] = disk[g] /\ scan.texts[g] = disk[g]
  BY <1>g, <1>3, NoneAssumption DEF ScanSees
<1>4. UnseenRow'
  <2> SUFFICES ASSUME NEW f \in unseen PROVE (row[f] = NoRow \/ Current(f))'
    BY <1>0 DEF UnseenRow
  <2>1. CASE f = g
    <3>1. Exists(g) /\ scan.hashes[g] = disk[g] /\ scan.texts[g] = disk[g]
      BY <1>g, <1>s, <2>1 DEF Undisturbed
    <3> QED BY <1>0, <1>1, <1>r, <2>1, <3>1 DEF Current
  <2>2. CASE f # g
    BY <1>1, <1>3, <1>r, <2>2 DEF UnseenRow
  <2> QED BY <2>1, <2>2
<1>5. ScanSees' /\ ScanStale'
  BY <1>0, <1>1, <1>3 DEF ScanSees, ScanStale
<1>6. ScanGoesOn'
  <2> SUFFICES ASSUME NEW f \in scan.files, Undisturbed(f)
               PROVE  f \in scan'.todo \/ row'[f].hash = disk[f] \/ disk[f] \in Binary
    BY <1>0, <1>1 DEF ScanGoesOn
  <2>1. CASE f = g
    BY <1>s, <1>r, <2>1
  <2>2. CASE f # g
    <3>1. f \in File
      BY FilesAssumption DEF TypeInv, TypeOK
    <3> QED BY <1>0, <1>r, <2>2, <3>1 DEF ScanGoesOn
  <2> QED BY <2>1, <2>2
<1>7. StaleIsReported'
  <2> SUFFICES ASSUME NEW f \in Watched \cap Walked, f \notin unseen PROVE Current(f)' \/ Pending(f) \/ Refused(f)
    BY <1>0, <1>1 DEF StaleIsReported
  <2>1. CASE f # g \/ ~Exists(g)
    BY <1>1, <2>1, FilesAssumption DEF StaleIsReported
  <2>2. CASE f = g /\ Exists(g)
    <3>1. CASE scan.hashes[g] = disk[g] /\ scan.texts[g] = disk[g]
      BY <1>0, <1>1, <1>r, <2>2, <3>1 DEF Current
    <3>2. CASE ~(scan.hashes[g] = disk[g] /\ scan.texts[g] = disk[g])
      BY <1>g, <1>3, <2>2, <3>2, NoneAssumption DEF ScanStale
    <3> QED BY <3>1, <3>2
  <2> QED BY <2>1, <2>2
<1> QED BY <1>0, <1>4, <1>5, <1>6, <1>7, StaleScanFrame

LEMMA StaleScanResolves ==
    ASSUME TypeInv, StaleInv, NEW g \in scan.todo, ScanResolves(g) PROVE StaleInv'
<1> USE DEF StaleInv
<1>0. /\ scan.step = "resolve" /\ scan'.step = "resolve" /\ scan'.files = scan.files
      /\ UNCHANGED <<disk, row, events, watcher, spawned, queue, run, calm, unseen>>
      /\ scan'.hashes = scan.hashes /\ scan'.texts = scan.texts
  BY DEF ScanResolves, TypeInv, TypeOK, tasks, history
<1>1. /\ \A f : Exists(f)' <=> Exists(f)
      /\ \A f : (Pending(f)' <=> Pending(f)) /\ (Refused(f)' <=> Refused(f))
      /\ \A f : Current(f)' <=> Current(f)
      /\ \A f : Undisturbed(f)' <=> Undisturbed(f)
  BY <1>0, StaleScanFrame DEF Undisturbed
<1>2. UnseenRow' /\ StaleIsReported'
  BY <1>0, <1>1 DEF UnseenRow, StaleIsReported
<1>3. Running /\ Running'
  BY <1>0 DEF Running
<1>4. ScanSees' /\ ScanStale'
  BY <1>0, <1>1, <1>3 DEF ScanSees, ScanStale
<1>5. ScanGoesOn'
  BY <1>0, <1>1 DEF ScanGoesOn
<1> QED BY <1>0, <1>2, <1>4, <1>5, StaleScanFrame

\* When the scan ends, the files that were never reported have their rows.
LEMMA StaleScanEnds == TypeInv /\ StaleInv /\ ScanEnds => StaleInv'
<1> SUFFICES ASSUME TypeInv, StaleInv, ScanEnds PROVE StaleInv'
  OBVIOUS
<1> USE DEF StaleInv
<1>0. /\ scan.step = "resolve" /\ scan.todo = {} /\ scan'.step = "none" /\ scan'.files = {}
      /\ UNCHANGED <<disk, row, events, watcher, spawned, queue, run>>
      /\ unseen' = {}
  BY DEF ScanEnds, tasks, index, NoScan
<1>1. /\ \A f : (Pending(f)' <=> Pending(f)) /\ (Refused(f)' <=> Refused(f))
      /\ \A f : Current(f)' <=> Current(f)
  BY <1>0, StaleScanFrame
<1>2. UnseenRow' /\ ScanSees' /\ ScanGoesOn' /\ ScanStale'
  BY <1>0 DEF UnseenRow, ScanSees, ScanGoesOn, ScanStale, Running
<1>3. StaleIsReported'
  <2> SUFFICES ASSUME NEW f \in Watched \cap Walked PROVE Current(f) \/ Pending(f) \/ Refused(f)
    BY <1>1 DEF StaleIsReported
  <2>1. CASE f \notin unseen
    BY <2>1 DEF StaleIsReported
  <2>2. CASE f \in unseen /\ f \in scan.files
    <3>1. Exists(f) /\ (row[f].hash = disk[f] \/ disk[f] \in Binary)
      BY <1>0, <2>2 DEF ScanSees, ScanGoesOn, Undisturbed, Running
    <3>2. row[f].hash = disk[f] => row[f] # NoRow
      BY <3>1 DEF NoRow, Exists
    <3> QED BY <2>2, <3>1, <3>2 DEF UnseenRow, Refused
  <2>3. CASE f \in unseen /\ f \notin scan.files
    <3>1. ~Exists(f)
      BY <1>0, <2>3 DEF ScanSees, Undisturbed, Running
    <3> QED BY <2>3, <3>1 DEF UnseenRow, Current
  <2> QED BY <2>1, <2>2, <2>3
<1> QED BY <1>0, <1>2, <1>3, StaleScanFrame

StaleIInv == TypeInv /\ Exclusive /\ StaleInv

LEMMA StaleInitially == Init => StaleIInv
<1> SUFFICES ASSUME Init PROVE StaleIInv
  OBVIOUS
<1>1. TypeInv
  BY TypeInitially
<1>2. Exclusive
  BY DEF Init, Exclusive, NoScan
<1>3. RemovalIsNotLast
  BY DEF Init, RemovalIsNotLast, Removals
<1>4. UnseenRow /\ StaleIsReported
  BY FilesAssumption DEF Init, UnseenRow, StaleIsReported
<1>5. RunRight /\ RunStale
  BY DEF Init, RunRight, RunStale, NoRun
<1>6. ScanSees /\ ScanGoesOn /\ ScanStale
  BY DEF Init, ScanSees, ScanGoesOn, ScanStale, NoScan, Running
<1> QED BY <1>1, <1>2, <1>3, <1>4, <1>5, <1>6 DEF StaleIInv, StaleInv

LEMMA StaleKept == StaleIInv /\ [Next]_vars => StaleIInv'
<1> SUFFICES ASSUME TypeInv, Exclusive, StaleInv, [Next]_vars PROVE StaleInv'
  BY TypeKept, ExclusiveKept DEF StaleIInv
<1>1. ASSUME NEW f \in File, NEW t \in Text \cup {None}, OtherChanges(f, t) PROVE StaleInv'
  BY <1>1, StaleChanges DEF OtherChanges
<1>2. ASSUME NEW f \in File, NEW t \in Text, CommandWrites(f, t) PROVE StaleInv'
  BY <1>2, StaleChanges DEF CommandWrites
<1>3. ASSUME NEW f \in File, CommandDeletes(f) PROVE StaleInv'
  BY <1>3, StaleChanges DEF CommandDeletes
<1>4. CASE TaskStep
  BY <1>4, StaleTasks
<1>5. CASE Deletes \/ RunBegins \/ ScanBegins
  BY <1>5, StaleDeletes, StaleRunBegins, StaleScanBegins
<1>6. CASE (\E f \in run.todo : RunHashes(f)) \/ RunReads \/ RunWrites \/ RunEnds
  BY <1>6, StaleRunHashes, StaleRunReads, StaleRunWrites, StaleRunEnds
<1>7. CASE \E f \in scan.todo : ScanHashes(f) \/ ScanParses(f) \/ ScanWrites(f) \/ ScanResolves(f)
  BY <1>7, StaleScanHashes, StaleScanParses, StaleScanWrites, StaleScanResolves
<1>8. CASE ScanRemoves \/ ScanParsed \/ ScanWritten \/ ScanEnds
  BY <1>8, StaleScanRemoves, StaleScanParsed, StaleScanEnds
<1>9. CASE UNCHANGED vars
  <2>1. RemovalIsNotLast'
    BY <1>9 DEF vars, StaleInv, RemovalIsNotLast, Exists, OnItsWay, Removals, Rewrites
  <2>2. \A f : Pending(f)' <=> Pending(f)
    BY <1>9 DEF vars, Pending, Exists, OnItsWay, Removals, Rewrites, BeingIndexed
  <2> QED BY <1>9, <2>1, <2>2, StaleFrame DEF vars
<1> QED BY <1>1, <1>2, <1>3, <1>4, <1>5, <1>6, <1>7, <1>8, <1>9
        DEF Next, Environment, Working, TaskStep

(***************************************************************************)
(* A removal that waits for the mutex is not the last word on a watched    *)
(* file that is back (git_ops.rs index_deleted_files).                     *)
(***************************************************************************)
THEOREM RemovalNeverLast == Spec => []RemovalIsNotLast
<1>1. StaleIInv => RemovalIsNotLast
  BY DEF StaleIInv, StaleInv
<1> QED BY <1>1, StaleInitially, StaleKept, PTL DEF Spec

(***************************************************************************)
(* The row of a file that is scanned and watched is current, or what will  *)
(* make it so is on its way: for any number of files, texts and tasks, and *)
(* whichever files are walked and watched.                                 *)
(***************************************************************************)
THEOREM StaleRowsAreReported == Spec => []StaleIsReported
<1>1. StaleIInv => StaleIsReported
  BY DEF StaleIInv, StaleInv
<1> QED BY <1>1, StaleInitially, StaleKept, PTL DEF Spec

(***************************************************************************)
(* What a scan that nothing disturbed leaves.                              *)
(***************************************************************************)
LEMMA OnlyWalkedKept == TypeInv /\ Exclusive /\ OnlyWalked /\ [Next]_vars => OnlyWalked'
<1> SUFFICES ASSUME TypeInv, Exclusive, OnlyWalked, [Next]_vars PROVE OnlyWalked'
  OBVIOUS
<1>same. UNCHANGED <<row, scan>> => OnlyWalked'
  BY DEF OnlyWalked, Indexed
<1>none. scan'.step \in {"none", "hash"} => OnlyWalked'
  BY DEF OnlyWalked
<1>1. CASE Environment
  BY <1>1, <1>same DEF Environment, OtherChanges, CommandWrites, CommandDeletes, Change, AskScan, index
<1>2. CASE Watching \/ Asking
  BY <1>2, <1>same DEF Watching, Asking, WatcherTakes, WatcherSpawns, RunAsks, CommandReports, index
<1>3. CASE Deletes \/ RunBegins
  BY <1>3, <1>none DEF Deletes, RunBegins, MutexFree
<1>4. CASE (\E f \in run.todo : RunHashes(f)) \/ RunReads \/ RunWrites \/ RunEnds
  BY <1>4, <1>none DEF RunHashes, RunReads, RunWrites, RunEnds, Exclusive
<1>5. CASE ScanBegins \/ ScanEnds \/ (\E f \in scan.todo : ScanHashes(f))
  <2>0. ScanEnds => scan'.step = "none"
    BY DEF ScanEnds, NoScan
  <2>1. ScanBegins => scan'.step = "hash"
    BY DEF ScanBegins, NoScan
  <2>2. ASSUME NEW f \in scan.todo, ScanHashes(f) PROVE scan'.step = "hash"
    BY <2>2 DEF ScanHashes, TypeInv, TypeOK
  <2> QED BY <1>5, <1>none, <2>0, <2>1, <2>2
<1>6. CASE ScanRemoves
  <2>1. scan'.files = scan.files /\ \A f \in File : row'[f] = IF f \in scan.files THEN row[f] ELSE NoRow
    BY <1>6, RemoveTyped DEF ScanRemoves, TypeInv, TypeOK
  <2> QED BY <2>1 DEF OnlyWalked, Indexed
<1>7. CASE ScanParsed \/ ScanWritten \/ (\E f \in scan.todo : ScanParses(f) \/ ScanResolves(f))
  <2>1. row' = row /\ scan'.files = scan.files /\ scan.step \in {"parse", "write", "resolve"}
    BY <1>7 DEF ScanParsed, ScanWritten, ScanParses, ScanResolves, TypeInv, TypeOK, index
  <2> QED BY <2>1 DEF OnlyWalked, Indexed
<1>8. ASSUME NEW g \in scan.todo, ScanWrites(g) PROVE OnlyWalked'
  <2>1. g \in File /\ g \in scan.files /\ scan.hashes[g] \in Text /\ scan.texts[g] \in Text
    BY <1>8, FilesAssumption DEF TypeInv, TypeOK, ScanShape, ScanWrites
  <2>2. \A f \in File \ {g} : row'[f] = row[f]
    BY <1>8, <2>1, WriteTyped DEF ScanWrites, index, TypeInv
  <2>3. scan'.files = scan.files /\ scan.step = "write"
    BY <1>8 DEF ScanWrites, TypeInv, TypeOK
  <2> QED BY <2>1, <2>2, <2>3 DEF OnlyWalked, Indexed
<1>9. CASE UNCHANGED vars
  BY <1>9, <1>same DEF vars
<1> QED BY <1>1, <1>2, <1>3, <1>4, <1>5, <1>6, <1>7, <1>8, <1>9 DEF Next, Working

\* While nothing changes, the files a scan walked are those that are there.
LEMMA CalmScan ==
    ASSUME StaleIInv, Running, calm
    PROVE  /\ \A f \in Walked : f \in scan.files <=> disk[f] # None
           /\ scan.files = Present
           /\ scan.files \subseteq File
BY FilesAssumption DEF StaleIInv, StaleInv, ScanSees, Undisturbed, Exists, TypeInv, TypeOK, Present

LEMMA FullKept == StaleIInv /\ FullGoesOn /\ [Next]_vars => FullGoesOn'
<1> SUFFICES ASSUME StaleIInv, FullGoesOn, [Next]_vars PROVE FullGoesOn'
  OBVIOUS
<1>i. TypeInv /\ Exclusive /\ StaleInv
  BY DEF StaleIInv
<1>none. scan'.step = "none" => FullGoesOn'
  BY DEF FullGoesOn, Running
<1>same. UNCHANGED <<disk, row, relations, scan, calm>> => FullGoesOn'
  BY DEF FullGoesOn, Running, InHand, TextInHand, WrittenRight, ResolvedRight, Current, Exists
<1>1. CASE Environment
  <2>1. calm' = FALSE \/ UNCHANGED <<disk, row, relations, scan, calm>>
    BY <1>1 DEF Environment, OtherChanges, CommandWrites, CommandDeletes, Change, AskScan, index, history
  <2> QED BY <1>same, <2>1 DEF FullGoesOn
<1>2. CASE Watching \/ Asking
  BY <1>2, <1>i, <1>same, TasksKeep DEF TaskStep
<1>3. CASE Deletes \/ RunBegins
  BY <1>3, <1>none DEF Deletes, RunBegins, MutexFree
<1>4. CASE (\E f \in run.todo : RunHashes(f)) \/ RunReads \/ RunWrites \/ RunEnds
  BY <1>4, <1>i, <1>none DEF RunHashes, RunReads, RunWrites, RunEnds, Exclusive
<1>5. CASE ScanEnds
  BY <1>5, <1>none DEF ScanEnds, NoScan
<1>6. CASE ScanBegins
  <2>1. scan'.step = "hash" /\ scan'.todo = scan'.files /\ scan'.texts = NoFiles /\ scan'.files \subseteq File
    BY <1>6, FilesAssumption DEF ScanBegins, NoScan
  <2>2. \A f \in scan'.files : scan'.texts[f] = None
    BY <2>1 DEF NoFiles
  <2> QED BY <2>1, <2>2 DEF FullGoesOn, InHand, TextInHand
<1>7. CASE UNCHANGED vars
  BY <1>7, <1>same DEF vars
<1>8. ASSUME scan'.full = scan.full, scan'.files = scan.files, UNCHANGED <<disk, calm>>, Running,
             ASSUME calm, scan.full, NEW f \in scan.files, InHand(f), f \in File, disk[f] # None
             PROVE  InHand(f)'
      PROVE  FullGoesOn'
  <2> SUFFICES ASSUME calm, scan.full, NEW f \in scan.files PROVE InHand(f)'
    BY <1>8 DEF FullGoesOn
  <2>1. InHand(f) /\ f \in File /\ disk[f] # None
    BY <1>8, <1>i, CalmScan DEF FullGoesOn, TypeInv, TypeOK
  <2> QED BY <1>8, <2>1
<1>9. ASSUME NEW g \in scan.todo, ScanHashes(g) PROVE FullGoesOn'
  <2>1. g \in File /\ g \in scan.files
    BY <1>i, FilesAssumption DEF TypeInv, TypeOK, ScanShape
  <2>2. /\ scan.step = "hash" /\ scan'.step = "hash" /\ scan'.files = scan.files /\ scan'.full = scan.full
        /\ scan'.todo = scan.todo \ {g} /\ UNCHANGED <<disk, calm>> /\ scan'.texts = scan.texts
        /\ \A f \in File \ {g} : scan'.hashes[f] = scan.hashes[f]
        /\ scan'.hashes[g] = IF Exists(g) /\ (scan.full \/ row[g].hash # disk[g]) THEN disk[g] ELSE None
    BY <1>9, <1>i, <2>1 DEF ScanHashes, TypeInv, TypeOK, history
  <2>3. ASSUME scan.full, NEW f \in scan.files, InHand(f), f \in File, disk[f] # None PROVE InHand(f)'
    BY <2>2, <2>3 DEF InHand, TextInHand, Exists
  <2> QED BY <1>8, <2>2, <2>3 DEF Running
<1>10. CASE ScanRemoves
  <2>1. /\ scan.step = "hash" /\ scan.todo = {} /\ scan'.step = "parse" /\ scan'.files = scan.files
        /\ scan'.full = scan.full /\ scan'.todo = {f \in scan.files : scan.hashes[f] # None}
        /\ scan'.hashes = scan.hashes /\ scan'.texts = scan.texts /\ UNCHANGED <<disk, calm>>
    BY <1>10, <1>i DEF ScanRemoves, TypeInv, TypeOK, history
  <2>2. ASSUME NEW f \in scan.files, InHand(f), f \in File, disk[f] # None PROVE InHand(f)'
    BY <2>1, <2>2 DEF InHand, TextInHand
  <2> QED BY <1>8, <2>1, <2>2 DEF Running
<1>11. ASSUME NEW g \in scan.todo, ScanParses(g) PROVE FullGoesOn'
  <2>1. g \in File /\ g \in scan.files
    BY <1>i, FilesAssumption DEF TypeInv, TypeOK, ScanShape
  <2>2. /\ scan.step = "parse" /\ scan'.step = "parse" /\ scan'.files = scan.files /\ scan'.full = scan.full
        /\ scan'.todo = scan.todo \ {g} /\ UNCHANGED <<disk, calm>> /\ scan'.hashes = scan.hashes
        /\ \A f \in File \ {g} : scan'.texts[f] = scan.texts[f]
        /\ scan'.texts[g] = IF Legible(g) THEN disk[g] ELSE None
    BY <1>11, <1>i, <2>1 DEF ScanParses, TypeInv, TypeOK, history
  <2>3. ASSUME NEW f \in scan.files, InHand(f), f \in File, disk[f] # None PROVE InHand(f)'
    BY <2>2, <2>3 DEF InHand, TextInHand, Legible, Exists
  <2> QED BY <1>8, <2>2, <2>3 DEF Running
<1>12. CASE ScanParsed
  <2>1. /\ scan.step = "parse" /\ scan.todo = {} /\ scan'.step = "write" /\ scan'.files = scan.files
        /\ scan'.full = scan.full /\ scan'.todo = Parsed
        /\ scan'.texts = scan.texts /\ UNCHANGED <<disk, calm>>
    BY <1>12, <1>i DEF ScanParsed, TypeInv, TypeOK, history
  <2>2. ASSUME NEW f \in scan.files, InHand(f), f \in File, disk[f] # None PROVE InHand(f)'
    BY <2>1, <2>2 DEF InHand, TextInHand, Parsed
  <2> QED BY <1>8, <2>1, <2>2 DEF Running
<1>13. ASSUME NEW g \in scan.todo, ScanWrites(g) PROVE FullGoesOn'
  <2>1. g \in File /\ g \in scan.files /\ scan.hashes[g] \in Text /\ scan.texts[g] \in Text
    BY <1>13, <1>i, FilesAssumption DEF TypeInv, TypeOK, ScanShape, ScanWrites
  <2>2. /\ scan.step = "write" /\ scan'.step = "write" /\ scan'.files = scan.files /\ scan'.full = scan.full
        /\ scan'.todo = scan.todo \ {g} /\ UNCHANGED <<disk, calm>> /\ scan'.texts = scan.texts
        /\ IF Exists(g) THEN WriteRow(g, scan.hashes[g], scan.texts[g]) ELSE UNCHANGED index
    BY <1>13, <1>i DEF ScanWrites, TypeInv, TypeOK, history
  <2>3. ASSUME calm, scan.full, NEW f \in scan.files, InHand(f), f \in File, disk[f] # None PROVE InHand(f)'
    <3>1. Running /\ Exists(g) /\ g \in Walked
      BY <1>i, <2>1, <2>2, <2>3, CalmScan DEF Running, Exists, TypeInv, TypeOK
    <3>2. scan.texts[g] = disk[g] /\ scan.hashes[g] = disk[g]
      BY <1>i, <2>1, <2>3, <3>1, NoneAssumption DEF StaleInv, ScanSees, Undisturbed
    <3>4. /\ row'[g] = [hash |-> disk[g], text |-> disk[g]]
          /\ \A h \in File \ {g} : row'[h] = row[h]
          /\ relations' = {r \in relations : r[1] # g} \cup Resolved(g, disk[g])
      BY <1>i, <2>1, <2>2, <3>1, <3>2, WriteTyped DEF WriteRow, Resolve, TypeInv
    <3>5. \A r \in Resolved(g, disk[g]) : r[1] = g /\ r[2] \in Imports[disk[g]] /\ r[2] # g
      BY DEF Resolved
    <3>6. CASE f = g
      <4>1. WrittenRight(g)'
        BY <2>2, <3>1, <3>4, <3>5 DEF WrittenRight, Current, Exists
      <4> QED BY <2>2, <2>3, <3>2, <3>6, <4>1 DEF InHand, TextInHand
    <3>7. CASE f # g
      <4>1. WrittenRight(f) => WrittenRight(f)'
        BY <2>2, <2>3, <3>4, <3>5, <3>7 DEF WrittenRight, Current, Exists
      <4> QED BY <2>2, <2>3, <3>7, <4>1 DEF InHand, TextInHand
    <3> QED BY <3>6, <3>7
  <2> QED BY <1>8, <2>2, <2>3 DEF Running
<1>14. CASE ScanWritten
  <2>1. /\ scan.step = "write" /\ scan.todo = {} /\ scan'.step = "resolve" /\ scan'.files = scan.files
        /\ scan'.full = scan.full /\ scan'.todo = {f \in Parsed : Imports[scan.texts[f]] # {}}
        /\ scan'.texts = scan.texts /\ UNCHANGED <<disk, calm, row, relations>>
    BY <1>14, <1>i DEF ScanWritten, TypeInv, TypeOK, history, index
  <2>2. ASSUME NEW f \in scan.files, InHand(f), f \in File, disk[f] # None PROVE InHand(f)'
    <3>1. WrittenRight(f) => WrittenRight(f)'
      BY <2>1 DEF WrittenRight, Current, Exists
    <3>2. scan.texts[f] = disk[f] /\ f \notin scan'.todo => ResolvedRight(f)'
      BY <2>1, <2>2 DEF ResolvedRight, Parsed
    <3> QED BY <2>1, <2>2, <3>1, <3>2 DEF InHand, TextInHand
  <2> QED BY <1>8, <2>1, <2>2 DEF Running
<1>15. ASSUME NEW g \in scan.todo, ScanResolves(g) PROVE FullGoesOn'
  <2>1. g \in File /\ g \in scan.files /\ scan.texts[g] # None
    BY <1>15, <1>i, FilesAssumption DEF TypeInv, TypeOK, ScanShape, ScanResolves
  <2>2. /\ scan.step = "resolve" /\ scan'.step = "resolve" /\ scan'.files = scan.files /\ scan'.full = scan.full
        /\ scan'.todo = scan.todo \ {g} /\ UNCHANGED <<disk, calm, row>> /\ scan'.texts = scan.texts
        /\ IF Exists(g) /\ row[g] # NoRow THEN Resolve(g, scan.texts[g]) ELSE UNCHANGED relations
    BY <1>15, <1>i DEF ScanResolves, TypeInv, TypeOK, history
  <2>3. ASSUME calm, scan.full, NEW f \in scan.files, InHand(f), f \in File, disk[f] # None PROVE InHand(f)'
    <3>1. Running /\ Exists(g) /\ InHand(g)
      BY <1>i, <2>1, <2>2, <2>3, CalmScan DEF Running, Exists, TypeInv, TypeOK, FullGoesOn
    <3>2. scan.texts[g] = disk[g] /\ row[g] # NoRow
      <4>1. scan.texts[g] = disk[g] /\ Current(g)
        BY <2>1, <2>2, <3>1 DEF InHand, TextInHand, WrittenRight
      <4> QED BY <3>1, <4>1 DEF Current, NoRow, Exists
    <3>3. relations' = {r \in relations : r[1] # g} \cup Resolved(g, disk[g])
      BY <2>1, <2>2, <3>1, <3>2 DEF Resolve
    <3>4. \A r \in Resolved(g, disk[g]) : r[1] = g /\ r[2] \in Imports[disk[g]] /\ r[2] # g
      BY DEF Resolved
    <3>5. WrittenRight(f) => WrittenRight(f)'
      BY <2>2, <3>3, <3>4 DEF WrittenRight, Current, Exists
    <3>6. CASE f = g
      <4>1. ResolvedRight(g)'
        BY <2>2, <3>3 DEF ResolvedRight, Resolved
      <4> QED BY <2>2, <2>3, <3>5, <3>6, <4>1 DEF InHand, TextInHand
    <3>7. CASE f # g
      <4>1. ResolvedRight(f) => ResolvedRight(f)'
        BY <2>2, <3>3, <3>7 DEF ResolvedRight
      <4> QED BY <2>2, <2>3, <3>5, <3>7, <4>1 DEF InHand, TextInHand
    <3> QED BY <3>6, <3>7
  <2> QED BY <1>8, <2>2, <2>3 DEF Running
<1> QED BY <1>1, <1>2, <1>3, <1>4, <1>5, <1>6, <1>7, <1>9, <1>10, <1>11, <1>12, <1>13, <1>14, <1>15
        DEF Next, Working

LEMMA ExactInitially == Init => ExactInv
BY DEF Init, ExactInv, OnlyWalked, FullGoesOn, Running, NoScan

LEMMA ExactKept == StaleIInv /\ ExactInv /\ [Next]_vars => ExactInv'
BY OnlyWalkedKept, FullKept DEF ExactInv, StaleIInv

(***************************************************************************)
(* A scan during which no file changed leaves rows of walked files only,   *)
(* and one for each that is UTF-8, under its hash; a full one also with    *)
(* its text, and with exactly the relations of its imports that have rows  *)
(* (scan_filtered).                                                        *)
(***************************************************************************)
THEOREM ScansAreExact == Spec => ScanLeavesExact
<1>1. StaleIInv /\ ExactInv => (ScanEnds /\ calm => IndexExact)
  <2> SUFFICES ASSUME StaleIInv, ExactInv, ScanEnds, calm PROVE IndexExact
    OBVIOUS
  <2>1. Running /\ scan.step = "resolve" /\ scan.todo = {}
    BY DEF ScanEnds, Running
  <2>2. scan.files = Present /\ Present \subseteq File /\ Present \subseteq Walked
    BY <2>1, CalmScan DEF Present
  <2>3. Indexed \subseteq Present /\ relations \subseteq Indexed \X Indexed /\ Indexed \subseteq File
    BY <2>1, <2>2 DEF ExactInv, OnlyWalked, StaleIInv, TypeInv, TypeOK, Indexed
  <2>4. ASSUME NEW f \in Present, Legible(f) PROVE row[f].hash = disk[f]
    <3>1. Undisturbed(f)
      BY <2>2 DEF Undisturbed
    <3> QED BY <2>1, <2>2, <2>4, <3>1 DEF StaleIInv, StaleInv, ScanGoesOn, Legible
  <2>5. ASSUME scan.full, NEW f \in Present, Legible(f)
        PROVE  /\ row[f].text = disk[f]
               /\ \A g \in File : <<f, g>> \in relations <=> g \in (Imports[disk[f]] \cap Indexed) \ {f}
    <3>1. WrittenRight(f) /\ ResolvedRight(f)
      BY <2>1, <2>2, <2>5 DEF ExactInv, FullGoesOn, InHand, TextInHand, Legible
    <3>2. row[f].text = disk[f]
      BY <2>5, <3>1 DEF WrittenRight, Current, Legible
    <3>3. ASSUME NEW g \in File, <<f, g>> \in relations PROVE g \in (Imports[disk[f]] \cap Indexed) \ {f}
      BY <2>3, <3>1, <3>3 DEF WrittenRight
    <3>4. ASSUME NEW g \in (Imports[disk[f]] \cap Indexed) \ {f} PROVE <<f, g>> \in relations
      BY <2>2, <2>3, <3>1 DEF ResolvedRight, Indexed
    <3> QED BY <3>2, <3>3, <3>4
  <2> QED BY <2>3, <2>4, <2>5 DEF IndexExact
<1>2. Spec => [](StaleIInv /\ ExactInv)
  BY StaleInitially, StaleKept, ExactInitially, ExactKept, PTL DEF Spec
<1> QED BY <1>1, <1>2, PTL DEF ScanLeavesExact
=============================================================================
