# Verification of ATLS Studio

ATLS Studio (`src/atls-studio`) is a Tauri desktop application in which language
models edit code: a TypeScript front end runs the conversations, executes batches of
tool steps and keeps the model's memory, a Rust back end (`src-tauri`) applies the edits,
and a Rust engine (`src/atls-rs`) indexes the project. This directory holds TLA+
modules for the parts where *order* decides correctness, TLC configurations for
small instances, and TLAPS proofs for every instance.

Paths below are relative to `src/atls-studio/src/` unless they say otherwise.

1. [What is here](#1-what-is-here)
2. [Inventory of the system](#2-inventory-of-the-system)
3. [The swarm](#3-the-swarm)
4. [The API rate limiter](#4-the-api-rate-limiter)
5. [Line rebasing](#5-line-rebasing)
6. [The commands of the back end](#6-the-commands-of-the-back-end)
7. [The code index](#7-the-code-index)
8. [Refactoring and its rollback](#8-refactoring-and-its-rollback)
9. [Runs, bounds and results](#9-runs-bounds-and-results)
10. [Fairness](#10-fairness)
11. [Proofs](#11-proofs)
12. [Disagreements between the code and its documentation](#12-disagreements-between-the-code-and-its-documentation)
13. [What is not modelled](#13-what-is-not-modelled)
14. [What is left](#14-what-is-left)

## 1. What is here

| Module | What it is | Code |
|---|---|---|
| `SwarmStore` | the store of a swarm: state, operations as operators and step predicates | `stores/swarmStore.ts` |
| `Orchestrator` | start, plan, dispatch, agents, completion, the panel, session loads, restarts; extends `SwarmStore` | `services/orchestrator.ts`, `components/SwarmPanel/index.tsx`, `hooks/useChatPersistence.ts` |
| `OrchestratorClaims` | statements of docs, comments and texts which the code does not keep | the same |
| `MCOrchestrator` | instance of `Orchestrator` for TLC | |
| `OrchestratorProofs` | proofs about `Orchestrator` | |
| `SlotPool` | abstract specification: a bounded pool of lanes with waiting requests | |
| `RateLimiter` | the limiter of one provider, with its timers, windows and callers | `services/rateLimiter.ts` |
| `MCRateLimiter` | instance of `RateLimiter` for TLC | |
| `RateLimiterProofs` | proofs about `RateLimiter` | |
| `LineEdits` | pure: renumbering of line edits, and their application to a file | `services/batch/executor.ts`, `src-tauri/src/lib.rs` |
| `LineRebase` | a batch of edit and read steps of one file, run step by step; extends `LineEdits` | the same |
| `LineRebaseProofs` | proofs about `LineRebase` and `LineEdits` | |
| `EditLocks` | the order in which each command of the back end takes its mutexes | `src-tauri/src/batch_query/mod.rs`, `file_ops.rs`, `file_watcher.rs` |
| `EditLocksProofs` | proofs about `EditLocks` | |
| `HashRegistry` | the registry of content hashes alone, as a specification of its own | `src-tauri/src/hash_resolver.rs` |
| `HashRegistryProofs` | proofs about `HashRegistry` | |
| `EditBackend` | edits, drafts, undo, file commands and reads on disk, cache, registry and undo store; extends and implements `HashRegistry` | `batch_query/mod.rs`, `snapshot.rs`, `edit_session.rs`, `file_ops.rs` |
| `MCEditBackend` | symmetry of `EditBackend` for TLC | |
| `EditBackendProofs` | proofs about `EditBackend`, with those of `HashRegistry` | |
| `Indexer` | the code index, the runs and scans that write it, and the watcher | `src/atls-rs/.../indexer/scanner.rs`, `git_ops.rs`, `file_watcher.rs`, `atls_ops.rs` |
| `MCIndexer`, `IndexerProofs` | instance, proofs | |
| `Refactor` | refactor execute and rollback | `batch_query/mod.rs`, `refactor_engine.rs`, `lib.rs` |
| `MCRefactor`, `RefactorProofs` | the operations of the instance, proofs | |

`RateLimiter` and `Orchestrator` are two views of the same boundary: `SlotPool` says what
`acquire` and `release` promise. `RateLimiter` implements it with a queue, windows,
back-off and timers; `Orchestrator`, which sees only lanes granted and lanes returned,
implements it as the clients' side. Both refinements are model-checked and proved.

`EditLocks`, `EditBackend`, `Indexer` and `Refactor` divide the back end by question:
who waits for whom; what the caches and the registry know of a file; what the index
knows of it; whether a chain of operations can be taken back. `EditBackend` implements
`HashRegistry` (proved), so what holds of the registry alone holds in it.

`PROJECT.json` lists for each definition the source lines it stands for, for each
property a mutant of the code which breaks it, and the hazards the properties are
for. Definitions with names such as `processQueueOnce` under a comment `Mutant:` are
such mutants; no specification uses them.

To run, with TLC and TLAPS on the path and the community modules in the library:

    tlc -workers 2 -config swarm.cfg MCOrchestrator
    tlapm OrchestratorProofs.tla

## 2. Inventory of the system

Each part: the state it keeps, what it does, whom it talks to, what is hard, and
what makes it correct.

### Multi-agent swarm

**Swarm store** (`stores/swarmStore.ts`). Status of the swarm, tasks with status,
dependencies, error count and assigned terminal, plan and approval, cancel flag and
mode. Operations are synchronous `set` calls made by the orchestrator, by agents and by
the panel; each recomputes the swarm's status from the tasks (`updateStats`). Hard:
every caller read the store before an `await`. Correct when a settled task stays
settled, the status agrees with the tasks, and dependencies are respected.

**Orchestrator and panel** (`services/orchestrator.ts`, `components/SwarmPanel`).
The map of running agents with their abort controllers, a poll loop of 1 s,
rows of tasks in SQLite. Plans, waits for approval, dispatches ready tasks, retries
them, waits for completion, synthesises. Hard: the loop, the agents, the panel and a
second call of `start` interleave at each `await`; an agent outlives the swarm that
started it. Correct when no task has two agents, no place is lost, a cancelled
swarm stops, and a swarm settles.

**Agent conversation** (`services/swarmChat.ts`). A bounded loop of rounds with tool
calls for one agent. It holds a lane of the rate limiter and a terminal meanwhile. Hard:
it declares an abort signal and never reads it. Correct when it ends and reports
once.

**API rate limiter** (`services/rateLimiter.ts`). Per provider: minute and day
windows, lanes in use, back-off, a queue with per-request timeouts, chains of
`setTimeout(processQueue)`. Called by the orchestrator, agents and the panel. Hard:
a lane freed by one callback, a request rejected by another, a wake-up computed from
a back-off which ends early. Correct when lanes are counted exactly, no
request is both granted and rejected, none waits for ever.

### Batch execution

**Batch executor** (`services/batch/executor.ts`). The results, bindings, step list
and per-file registers of one batch. Per step: swarm and policy gates, file claims,
condition, bindings, hash injection, rebasing, read gate, workspace check,
handler, snapshot recording, rebasing of the steps to come, context refresh,
`on_error`, inserted `__auto_verify` and `__rollback` steps. Hard: one step of
several fails; later steps hold line numbers and hashes of files which earlier
ones changed. Correct when a step acts on the lines its author meant, and a
failure leaves nothing half done.

**Line rebasing** (the same file, with `apply_line_edits` in
`src-tauri/src/lib.rs`). Renumbers the edits of one step and the steps to come.
Correct when what happens to the file is what the batch says of the file the model
had read.

**Intents, handlers, parsing and formatting** (`services/batch/intents`,
`handlers`, `formatResult.ts`, ...). Macro expansion, argument checks, text.
Correct when the expansion keeps order and dependencies of the steps.

**Snapshot tracker** (`services/batch/snapshotTracker.ts`). Which lines of which
revision of a file the model has seen (levels of awareness with regions). Correct
when an edit is let through only over lines seen in the current revision.

### Memory of the model

**Freshness and reconciliation** (`services/freshness*.ts`,
`universalFreshness.ts`, `hooks/useAtls.ts`). Revision of each source, journal of
changes, list of own writes with a life of 3 s. Hard: a watcher event may come before the
answer of the write which caused it, or after the own-write entry expired.
Correct when content shown as current has the revision of the disk.

**File views, context store, hash protocol, UHPP** (`services/fileView*.ts`,
`stores/contextStore.ts`, `services/hashProtocol.ts`, `utils/uhpp*`). Regions of
files with line shifts, chunks with pins, archive and staging, visibility of
references over rounds, notation. Correct when a reference resolves to the content it
was made for.

**History compression, prompt memory, spin detection** (`services/historyCompressor.ts`,
`spinDetector.ts`, ...). Heuristics on counts and text.

### Conversations and services

**Chat service** (`services/aiService.ts`), **subagents**
(`services/subagentService.ts`): loops of rounds with streaming, abort and budgets.
**Tool pool** (`services/aiConcurrency.ts`): a counting semaphore for parallel tools.
**Session persistence** (`hooks/useChatPersistence.ts`): debounced saves which read
several stores across `await`s; correct when a saved session never holds the memory of
another one. **Terminal, stores, costs, interface, prompts**: single-step state, I/O
and text.

### Back end

**Batch commands** (`src-tauri/src/batch_query/mod.rs`). One function,
`atls_batch_query`, dispatches a hundred commands, each call a task of its own. Shared
state is behind tokio mutexes: undo store, snapshot service, hash registry, file cache, and
one for refactorings. Hard: the order in which they are taken; what happens between the
end of one guard and the next. Correct when all calls return and the shared state
tells the truth about the files.

**Edit session and snapshots** (`edit_session.rs`, `snapshot.rs`). A cache of texts keyed by
path and validated by modification time and size; commit compares hashes and then writes.
Hard: another writer between the two, or between a write and the `stat` recorded with it.
Correct when a hit of the cache is the file.

**Hash registry and resolver** (`hash_resolver.rs`). Texts by hash, the hashes of each file,
a map that forwards old hashes to newer ones; used to resolve `h:` references and
to judge whether an edit is stale. Correct when forwarding leads to the text registered
last, and that is what is on disk.

**Drafts and undo** (`batch_query/mod.rs`). A capped stack of entries per file, with
text, parent and previous content, and whether it was written. Correct when undo gives back
a text the file had.

**Code index, runs and watcher** (`atls-rs/crates/atls-core/src/indexer/scanner.rs`, `git_ops.rs`,
`file_watcher.rs`, `atls_ops.rs`). Rows of files in SQLite with the hash and what was
derived from the text, and the relations of imports; written by scans of the project, runs
over changed files and removals, one at a time behind one mutex. Hard: the files change
between any two steps of a scan that takes minutes; changes are reported through a
debouncer, a channel and spawned tasks. Correct when the index comes to say what is on disk.

**Refactoring** (`batch_query/mod.rs`, `refactor_engine.rs`). A list of operations which
create files, remove lines or symbols, update imports; ends by a response with data to roll
it back, or by an error. Hard: line numbers of the original file through many
removals, several extracts to one target, pauses in the middle, others who write the
files meanwhile. Correct when each operation acts on what its author meant and the
whole can be taken back.

**Streaming, linters, search, MCP host**: network I/O, stateless helpers, one request at a
time.

## 3. The swarm

### State

| Variable | Code |
|---|---|
| `sessionId`, `sessions` | the store's current session; swarms started so far |
| `status`, `plan`, `planApproved`, `cancelRequested`, `cancelMode` | fields of the store |
| `tasks`, `taskStatus`, `dependencies`, `errorCount` | `tasks[]` and their fields |
| `dbTask` | rows of the tasks in the database; that of the swarm's own status is left out, as a load reads only tasks |
| `starter`, `planSession` | where the call of `start` is, across its awaits |
| `exec`, `execSession`, `verdict` | where `executePlan` is, for which session, and the status it is about to save |
| `phase[a]`, `outcome[a]`, `snapshot[a]` | where the call of `runAgent` is, how its conversation ended, and the error count of the task object it got |
| `activeAgents`, `aborted` | the map from tasks to agents; controllers that were aborted |
| `slots` | lanes the limiter counts as taken |
| `created`, `owner`, `planned`, `attempts`, `loads`, `restarts` | history and bounded counters: which task belongs to which session, the dependencies the plan gave it, agents started |

An agent is a pair of a task and the number of its attempt. `Unresolved` stands for
a dependency whose title the planner wrote but no task bears.

### Actions

One action is what runs between two `await`s, with every store call it makes,
because JavaScript cannot be interrupted there.

| Action | Code |
|---|---|
| `Start`, `InitDb`, `Researched`, `AddTask`, `SetPlan`, `StartFails` | `start`, `createPlan`: one action per await, one `AddTask` per task |
| `ApprovePlan`, `ExecStart`, `ExecRejected` | the panel's Approve, entry of `executePlan`, a rejected status write |
| `Poll` | one turn of the loop: `processReadyTasks`, which starts every agent there is place for |
| `WaitForCompletion`, `Synthesized`, `FinalSaved` | `AllDone`, then `cleanup`, synthesis, final row |
| `AgentStep(a)` | the parts of `runAgent`: lane granted at once, queued, granted later, rejected and requeued after a pause, conversation ends in one of its ways, retry delay, saving, terminal closed, `.finally` |
| `PanelTick` | the 2 s timer of the panel |
| `Pause`, `Resume`, `PanelCancel`, `OrchestratorCancel` | buttons; the service's own `cancel`, which no caller uses, only when `ServiceCancel` is TRUE |
| `LoadSession`, `Restart` | `rehydrateTasks` over whatever runs; the program closed and opened |

`RowsMayFail` lets each write of a row fail, where the code goes on after it.
Within `executePlan` the first and last status writes may always be rejected.

### Properties

Without a session loaded over a running swarm (`swarm`, `settles`):
`OneAgentPerTask`, `RunningHasAgent`, `DependencyOrder`, `AttemptsBounded`,
`FinalVerdictSound`, `SlotsMatchHolders`, `SettledIsFinal`, `DispatchOnlyApproved`,
`ImplementsSlotPool`; `AgentsEnd`, `CancelSettles`, `PollingSettles`. With loads and restarts
(`reloads`): `TypeOK`, `RunningBound`. `SlotsMatchHolders` and `ImplementsSlotPool` are
proved of loads and restarts too (section 11). Their comments in `Orchestrator.tla` say what
each is about.

Some of what they say is worth pointing out. `SettledIsFinal` does not name
`cancelled`: a cancelled task's agent does overwrite its status (section 9).
`PollingSettles` has the exceptions `Held`, each of which is a way in which a swarm
really polls for ever. `DependencyOrder` speaks of the dependencies the plan gave a
task, not of those the store has, since a load drops the latter.

## 4. The API rate limiter

Time is counted down in ticks of 50 ms, the shortest delay of the queue's timers. A
timer is due at 0, and `Tick` is not enabled while one is due; due callbacks
run in any order, with anything between them.

| Variable | Code |
|---|---|
| `windows[w]` | what is left of the minute and day windows, requests and tokens counted in them |
| `activeRequests`, `queue` | as in the code |
| `backoff`, `nextBackoff` | time to `backoffUntil`; consecutive errors and multiplier together, as the next back-off |
| `timeout[c]` | time to the rejection of a queued request |
| `timers[d]` | how many calls of `processQueue` are due in `d` ticks |
| `phase[c]`, `rounds[c]` | the agent that called |
| `cleared` | history: what would be left of a back-off that somebody without a lane has ended |

| Action | Code |
|---|---|
| `Acquire` | `acquire` up to its promise: a newcomer takes a free lane before those who wait |
| `recordSuccess`, `recordRateLimitError`, `release` | the calls `runAgent` and `swarmChat` make; `release` calls `processQueue`. `recordSuccess(NoAgent)` is that of a planner or a synthesis |
| `FireTimer` | a `setTimeout(processQueue)` |
| `RequestTimesOut` | the timer of the request |
| `getAllStates` | the panel, whose look resets expired windows |
| `Tick` | the clock |

The multiplier of the code grows by a half and the base doubles, so a
back-off is three times the one before, until its maximum. `getWaitTime` knows nothing of
lanes and tokens: a queue blocked by these is looked at every tick, which
`pollDelay` says.

The planner and the synthesis of a swarm (`orchestrator.ts:1010`, `1435`) stream without
`acquire`, and `swarmChat.ts:493` records their success as it does an agent's. So the back-off may
end while no lane is in use and agents of a former swarm are queued, whose timer still waits for the
end of the old back-off. `IdlePoolWakes` says what is left of the promise: the queue of an idle pool
that nothing blocks is looked at in the same tick, or, after such a success, before the back-off it
cut short would have ended. Without a planner it is the same tick (`cleared` is 0).

## 5. Line rebasing

The model writes all line numbers of a batch against the file it has read. For the
edits of one step the executor sorts them and computes their numbers when applied one
after the other (`rebaseIntraStepSnapshotLineEdits`); after the step it computes what
the step did to the numbers (`computePositionalDeltas`) and shifts those of all later
steps (`rebaseSubsequentSteps`), reads included. The back end then applies the edits of
a step one by one (`apply_line_edits`), backing up over lines which a replacement
repeats (`count_overlap_extended`), and returns the lines it resolved.

A line of content is a pair: `<<0, l>>` was line `l` of the file, `<<id, k>>` is the
`k`th new line of edit `id`. State: the file, the steps to come as renumbered,
the same steps as authored, and the set of edits that took effect. Every initial state is
one batch; `EditStep`, `ReadStep`, `StepFails` run its first step.

`FileAsAuthored` says what the file *means* from the edits as written and the original
file alone, with no renumbering and no order of execution (`AsWritten`): the file has exactly the original lines
which no edit took and the content of the edits (`Wanted`), each line belongs before, at or after
one original line (`Near`, `Side`), and lines stand in the order of these places (`Above`). `TargetsFollow` says of
each step to come that it names, now, the line its author named. `StepsApplicable`
says renumbering never makes a good step fail.

**Which batches.** `Batches` takes edits that make sense together: none names a line
another takes away, except that lines may be inserted right before a replaced
block. Steps are cut in every way and every step may fail. In `rebase.cfg`,
`SharedLines = FALSE` allows two edits of one step to name the same line
only when the first is an `insert_before`. With `SharedLines = TRUE`, TLC refutes
`TargetsFollow` and `FileAsAuthored`; with `Actions = {"move", "delete"}` it refutes `TargetsFollow` (section 12).
`Overlapping = FALSE` leaves out replacements that repeat lines below them: with `Overlapping = TRUE` and
`MaxEdits = 2` in `rebase.cfg`, TLC refutes `FileAsAuthored` and `TargetsFollow`, since the positions
recorded do not tell which later lines the replacement swallowed. With three edits, moves or overlaps
refute `StepsApplicable` too. Without these, all three properties are proved for files and
batches of any length (section 11).

Met while writing the module, outside these batches: a later edit
which names a line inside a taken block is shifted into a neighbour; an
`insert_after` of a line which was replaced by several lines lands inside
the replacement; after a delete, an `insert_before` of its first line in another
step cannot be told from one of the gap; a number shifted below 1 counts from the end of
the file (`resolve_single_edit_line`). The read gate (`executor.ts:2676-2708`)
compares renumbered lines with regions recorded before the edit. Two
`batch_edits` entries of one file use different coordinates (`executor.ts:521-583`).
The tests at `executor.test.ts:1005-1030` and `2266-2295` put `expect` in a handler
whose exceptions the executor catches (`executor.ts:2824-2832`), so they cannot fail.

## 6. The commands of the back end

### Who waits for whom: `EditLocks`

A command is the list of the places where it awaits a lock: what it holds there, what it
wants, and the places it may come to next. `Script` gives the 16 shapes of
commands that take locks (a `h:` reference in the parameters costs every command the
registry first). A caller begins any command, acquires, proceeds, repeats a part for
the next file of a list, returns early; only `refactor_rollback` gives up waiting, for the
refactoring mutex. What decides the next place is left open, so the model has
every order the code can take.

`NeverWaitsForItself`: no command awaits what it holds (refactor execute dispatches itself
recursively and must drop its mutex before). `DeadlockNeedsRegistryFirst`: a set of calls that
wait for one another contains a `read_lines` or `batch_edits`, the two
commands that take the registry before the snapshot service; all others agree on one order.
`CallsReturn`: but for such a set, every call returns. The exception is real: run `deadlock` lets
`read_lines` and `line_edits` block each other, and with them everything that needs the
registry.

### What is known of the files: `EditBackend`

| Variable | Code |
|---|---|
| `disk` | the files |
| `entries`, `forward`, `bySource` (`HashRegistry`) | `HashRegistry.entries`, `forward_map`, `source_index` |
| `cached` | `SnapshotService`: a text, and whether the recorded time and size are still the file's |
| `undo` | the undo store, at most `MaxEntries` per file |
| `job[p]` | where a call is: which file, what it has read and will write or register |
| `latest`, `ever`, `had`, `torn`, `adrift`, `late` | history the properties need |

A call is cut where it drops one lock and takes another or touches the file, so that other calls,
other programs and the watcher come in between; while it holds a lock across steps,
`Free` keeps others out. `line_edits` reads before any lock and then writes, records, registers, pushes its
undo entry. `draft` pushes and registers before it writes; `revise`, `flush`
and `undo` follow their lookups of an entry by hash, file or age. `batch_edits` holds
registry and service over several files. `create_files`, `write_file`, `delete_path` and
reads for context complete what can change or cache a text. Each rejection
and failed write is an alternative that returns.

`CacheHitIsDisk`, `RegistryFollowsDisk`, `FlushedWasWritten`, `UndoRestoresFormer` and
`ForwardsToLatest` say what the program relies on. Where an overlap makes the
code wrong for a while the history variables say exactly when: `torn` files were
written by somebody between a command's write and its `stat`; `adrift` files have a
draft that was not written, were changed by others, or had two calls register in
the other order than they wrote.

## 7. The code index

| Variable | Code |
|---|---|
| `row`, `relations` | tables `files` and `file_relations` |
| `deleting` | files a running `delete_files` has removed and not reported yet |
| `events`, `watcher` | changed paths in the debouncer and the channel; the watcher's task |
| `spawned`, `queue` | spawned tasks that have not reached `lock()`; waiters of the tokio mutex, which is fair |
| `scan`, `run` | the holder: `scan_filtered`, or `index_modified_files_run` |
| `calm`, `unseen` | history: no change since the scan began; files neither scanned nor changed since the project was opened |

The file may change between any two steps. A run hashes a file, reads it again, parses,
and writes the row if the path still exists; a scan does this in phases over all
files walked, removes the rows of others and resolves imports again at the end. Removals do not
look at the disk again. The watcher splits a batch by what exists now, waits for the removal and
then spawns the run.

`StaleIsReported` is the invariant behind convergence: a row that is not what is on
disk has an event, batch, run or removal on its way that will see what is there now.
`RemovalIsNotLast`: a removal that waits for the mutex has a run behind it
if the file is back. `ScanLeavesExact`: an undisturbed scan leaves exactly the rows (a full one
also texts and relations) of what it walked. `Converges`: when changes stop, rows become and
stay current.

*What the index refuses.* A run reads the text of a file with `read_to_string` and parses it with `?`
(`scanner.rs:859`, `1070`): a file that is not UTF-8 (`Binary`), whose text the parser refuses or whose language has
no parser (`Unparsed`), ends in an error and keeps its former row, and nothing says so later. A scan fails on
the first only; what the parser refuses it logs (`630`) and writes all the same. `StaleIsReported` and `Converges` except a
file while it holds such a text (`Refused`), and `ScanLeavesExact` asks for rows of files that are `Legible`.

*What is assumed of time.* `delete_files` removes its files one after another (`CommandDeletes`) and then joins the
queue for all of them (`CommandReports`). The loop (`batch_query/mod.rs:13200-13254`) awaits nothing, and the debouncer holds the events
of the first for 500 ms, so the watcher does not take a batch with files of a loop that still runs.

Choices: the hash of a text is the text; SQLite errors, symbols, calls, issues and importance
are left out; an import path leads to one candidate; equal spawned runs and equal pending events are merged;
the walk and the read of the rows are one step; a path that becomes a directory, or lies below a moved one, is left out.

## 8. Refactoring and its rollback

| Variable | Code |
|---|---|
| `disk` | the files, as sequences of lines |
| `call` | the locals of refactor execute: operations, `resume_after`, `snapshots`, `created_files`, `source_content_map`, `target_content_map`, `line_shifts`, and where it is |
| `given` | the `_rollback` data of the responses, kept by the client |
| `began`, `lost`, `foreign` | history: the files before the calls of `given`; files changed without data for them; files others changed during the call |

One action per write of a file: `Create`, `RemoveLines`, `UpdateLines`,
`RewriteImports` (the consumers of the extracted symbols, after the last operation), and per way
to end: `Done`, `Pause`, `PauseOrRollBack` (an incremental call restores its snapshots
itself), `Fail` (`?`, without data). `Rollback` takes the newest data. What linter and
preflight think of a text is left open, as is which consumers the index knows.

A line is a pair, `<<f, i>>` for line `i` of the file as it was opened, `<<f, 0>>` for one written since. What the
operations do to the lines is that of the code, with what surprises in it:

* *Updates* have the actions, `end_line` and `destination` of the code and contents of any length (`Update`,
  `UpdatedTexts`; a deletion is a replacement by nothing). Only `line` is adjusted for the lines removed before
  (`mod.rs:15623-15641`); `end_line` and `destination` are not, so after lines 1-5 are removed an update of 10-12 takes 5-12. What
  an update adds or takes is not recorded in `line_shifts`. A replacement may take lines below it that
  it repeats (`repeats`, `lib.rs:775-811`). Where a body begins and ends is left open (`Bodies`).
* *Symbols.* Their removal is widened over the attributes, decorators and doc comments above, blank lines and orphaned
  commas below, and a Rust separator comment (`Widened`, `refactor_engine.rs:641-694`); which lines are such is given by
  `Above`, `Below`, `Separators`. The copy has none of them, and its lines are found by another resolver than those that are
  removed (`mod.rs:14950-15015`, `15325`), so the two may differ (`copy`, `remove`).
* *Raw extracts* write the symbol alone: a second one to the same target overwrites what was there (`mod.rs:15037-15039`).

`RollbackRestores` holds at every moment, in the middle of a call too: rolling back with the data
of the call and of all responses, newest first, leaves each file as it was before those
calls; whatever others wrote in between. Its exceptions are collected in
`lost`, action by action, and each is a way in which the code cannot take something back: a call
ended by `?`; a creation over an existing file nobody had a snapshot of; a call with
nothing to restore, whose data rollback refuses; files only others changed.
`WorkingCopyIsDisk`: the text operations work on is that of the disk, so none writes over what
an earlier one wrote. `LinesAsAuthored` says from the original line numbers alone what the
operations so far have made of a file: a line that is left is at its place less the lines before it
that are gone, updated if an operation updated it, and there are no others. It speaks of files whose
lines are removed by number only (`RemovedByNumber`), one range an operation, none twice, whose updates replace
one line, not a removed one, by one line; the ways in which the code departs from it beyond that are the above and
those of section 12. `ExtractKeepsCode`: at every moment each line of a source is in the source or a target,
except attributes, comments and blank lines, for extracts that are not raw and whose copy has the symbol's lines.

## 9. Runs, bounds and results

| Run | Instance | Result |
|---|---|---|
| `swarm` | 2 tasks, 2 sessions, 1 dependency, 2 attempts of a task before failure, 2 agents at once, 1 lane, rows may fail | passes, 4.2 million states |
| `settles` | 2 tasks, 1 session, otherwise as above, but no failing rows | passes (liveness), 103 000 states |
| `reloads` | 2 sessions of 1 task each, 2 attempts, 1 agent at once, 1 load, 1 restart, `cancel` of the service | passes, 6.2 million states |
| `faileddep` | 2 tasks, 1 dependency, no retry | `SwarmCompletes` is violated |
| `abortall` | 1 task, no retry | `CancelledNeverCompletes` is violated |
| `limiter` | 3 agents and a planner, 2 lanes, 1 round each, windows of 2 and 3 ticks, back-off 1 to 2, timeout 2 | passes (liveness), 884 000 states |
| `rebase` | 4 lines, 3 edits or reads, up to 2 new lines each | passes, 361 000 states |
| `locking` | 2 callers, all commands | passes (liveness), 15 000 states |
| `deadlock` | 3 callers, `line_edits`, `read_lines`, `refactor_rollback` | `RollbackReturns` is violated |
| `edits` | 2 files, 2 texts, 2 calls at a time, 3 calls, 1 external event, undo stacks of 2 | passes, 3.3 million states (symmetric) |
| `index` | 2 files importing each other, 3 texts, one not UTF-8 and one without a parser in one file, 2 changes, 1 scan | passes (liveness), 1.5 million states |
| `refactor` | 3 files, 5 lines, 6 operations, calls of up to 2, 2 calls, 1 external change | passes, 7.0 million states |

**Why these bounds.** *Swarm*: two tasks are the least with a dependency, and with one
lane the second agent queues behind the first. Two errors make a task fail, so a
retry and a failure both happen; `MaxAttempts = 3` exceeds `MaxRetries`, so
`AttemptsBounded` is not the bound of the model. Two sessions let the agents, the
executor and the verdict of one swarm meet the tasks of the next.
`reloads` has one of each disturbance and one place. With two attempts a task that a load or a
restart has made pending is dispatched again, so that an agent of its former life meets a new one, and
with two sessions agents of the former swarm meet those of the next. Its tasks have no dependencies, since
a load drops them. *Limiter*: three agents
on two lanes give one who waits and one who barges; the limits of requests and of tokens can
both be reached; back-offs may last until a request times out; the planner may end a
back-off while all agents wait. *Rebasing*: three edits give two earlier ones whose shifts
accumulate before a third, on both sides of it; four lines leave room for a block of two and
neighbours; with up to two new lines, replacements grow, keep and shrink.
*Locks*: two callers make every circle of two; three show one that drags in a
third, and `DeadlockNeedsRegistryFirst` is proved for any number. *Edits*: two overlapping
calls on one or two files meet at each pair of steps, a third makes a register
overtaken twice and a stack of two overflow; two texts allow a file to go back to a former one (A, B, A) and two
files to share one. *Index*: two changes
suffice for delete and re-create, and for the two reads of one row to differ;
one of three texts is refused in both files and another in one of them, so that files go from good texts
to refused ones and back.
*Refactor*: the operations are two extracts to one target, one of them of a symbol that stands between a comment and a
blank line, a raw extract with a move in another file, a removal by number with a replacement of two lines that may
take one more, one with an update behind it and a creation, and a creation over a file with a new body and an
insertion elsewhere; pairs of them cover each relation the properties speak of.

The counters that bound a run are named and appear as guards: `MaxSessions`,
`MaxAttempts`, `MaxLoads`, `MaxRestarts`, `MaxRounds`, `MaxEdits`, `MaxNew`, `MaxCalls`,
`MaxEvents`, `MaxChanges`, `MaxScans`, `MaxOps`. `MaxEntries` is the code's cap of undo stacks.
`MaxRetries`, `MaxConcurrentAgents`, `SlotLimit` and those of the limiter are the
code's own settings. `MaxDelay` is no bound of the behaviour: no delay the code computes
is longer. Deadlock is not checked by TLC, as all these systems may stop: a
swarm has settled, no agent calls any more and the clock makes steps that
change nothing, a batch is done, nobody calls and nothing changes. That calls do not block one another
is what `locking` states as properties.

## 10. Fairness

`Orchestrator!Fairness`: weak fairness of what settles by itself. Timers fire (`Poll`,
`WaitForCompletion`, `PanelTick`, an agent's delays), database and model calls
answer or fail (`InitDb`, `Researched`, `SetPlan`, `ExecStart` or `ExecRejected`,
`FinalSaved` or `ExecRejected`), and an agent goes on: `acquire` rejects after 60 s,
rounds are bounded by `maxIterations`. None is assumed of the user (approve,
pause, resume, cancel, load, restart), nor that a write succeeds.
That `acquire` settles is not taken on trust: `RequestsSettle` checks it in
`RateLimiter`, where an agent need not ever give its lane back.

`RateLimiter!Fairness`: the clock goes on, and a due timer or timeout fires.

`EditLocks!Fairness`: a waiter whose lock comes free again and again gets it (tokio's mutex is
first in, first out), a call that has its locks goes on, and neither its lists nor its
choices keep it from an end for ever: lists are finite. Nobody is obliged to call.

`Indexer!Fairness`: a command that has deleted files, the spawned tasks and the holder of the mutex go on when they
can, as tasks of the runtime do. Changes and scans are up to the user; a fair queue needs no
fairness of its own. The watcher is not among them: before it looks at a batch it awaits the registry, the cache and the snapshot
service (`file_watcher.rs:80-105`), which two commands may block for good (`deadlock`). `Converges` therefore
promises convergence as long as the watcher goes on, which is stated as its premise.

`LineRebase`, `EditBackend` and `Refactor` have only invariants and need none.

## 11. Proofs

The theorems hold for all values of the constants which satisfy the named
assumptions of their modules, which ask only that counts
be naturals, limits positive and the set of clients finite, that `MaxDelay`
bound the windows and the back-off, that `None` be no text, and that operations be of their type
(an extract has a target, a source and one symbol to remove; no two updates of one operation are of the
same file), that refused texts be texts and the lines that go with a symbol be lines. Only the theorems about `LineRebase` assume more, which is said there.
`PROJECT.json` lists the theorems with what each establishes.

**`OrchestratorProofs`.** `TypeCorrect`: `TypeOK` is inductive. One lemma per group of
actions (`StartSteps`, `ExecSteps`, `AgentSteps`, `PanelSteps`) over lemmas on the
store's operations.

`SlotsCorrect`: `slots` is the number of holders and at most `SlotLimit`. Not
inductive alone: `processReadyTasks` starts agents named `<<t, attempts[t] + 1>>`, and the
count would go wrong were that agent at work already. `SlotInv` adds
`AgentsFresh`: agents beyond a task's attempts have not begun. `HoldersChange` then
reduces each action to whether it adds, removes or keeps a holder; dispatch, which adds
several at once, is the lemma `DispatchSlots`.

`RunningBounded`: at most `MaxConcurrentAgents` tasks are shown running, through loads
and restarts too. It needs `RowsNotRunning`: no row says `running`, nor does the outcome
an agent is about to save. `processReadyTasks` takes the free places from the store, so
`DispatchBound` adds what was running to what is started; no other action makes a
task running (`FewerRunning`).

`PoolImplemented`: with `SlotInv`, each step maps to a step of `SlotPool` or a stutter. A
dispatch is a `Join`, a grant of a waiting agent a `Grant`, a rejection a `Reject`, an
end a `Release`, a restart `Reset`.

Seven theorems are about the protocol between the store, the agents and the executor, and rest on
`SwarmInv`. A load replaces the list under agents at work and breaks the protocol (section 12), so
its parts are promised while `loads = 0`: five theorems are of the form `Spec => [](loads = 0 => P)`, which covers
every behaviour up to its first load, and the two action properties, `SettledStays` and
`DispatchApproved`, are of behaviours without loads, `Spec /\ [](loads = 0) => P`. Restarts are covered. The parts:

* `ChargeInv`: an agent that may still write its task's status is the task's newest, and the list shows
  the task running or cancelled. `OneAgent`, `RunningTended` and `SettledStays` follow: the result of an
  agent can change no settled task but a cancelled one.
* `PlanInv`: tasks are created in order, agents started only for created tasks, and the list keeps the
  dependencies of the plan. With it a dispatch, which looks at the list, obeys the plan (`DependenciesFirst`).
* `RetryInv`: a pending task was retried as often as it was started. The retry
  count is read by an agent when it starts and written after its conversation, so the part also says what each
  agent's snapshot is, phase by phase (`RetriesBounded`).
* `SessionInv`: the store shows the newest swarm or none, and one whose plan is not finished has only its own tasks.
  It shows that the plan a dispatch sees is the one the user approved.
* `ExecInv`: the executor runs an approved plan (`DispatchApproved`), and from the completion check on all tasks of a swarm
  nobody cancelled are settled, so the verdict counts final results (`VerdictSound`).

The first three parts speak of tasks and agents only; `TaskInvKept` disposes of every action
that leaves those alone.

**`RateLimiterProofs`.** Five of the six theorems come from one invariant, `LimiterInv` (type,
`ActiveIsHolders`, `QueueIsWaiting`, `WakeupPending`). Each part needs the others: a
grant keeps the count only as the queue holds no agent twice and no
holder; a release keeps `WakeupPending` only as `processQueue` schedules a look
whenever something remains. `ProcessQueueGrants` says what `processQueue` does to all
four, in terms of the agents granted; `release` and `FireTimer` cite it.
`LimiterNext` proves the invariant and the step of the pool together. `IdleWakes` (the queue of
an idle pool that nothing blocks is looked at in the same tick) is not a matter of counting timers: `IdleInv` relates the
timer to its reason. It is at most as long as the back-off or a full window, or it is the
next tick, or at most as long as the back-off which a success without a lane has cut short (`cleared`). As the clock
counts, timer and reason run out together.

**`LineRebaseProofs`.** `FileAsAuthored`, `TargetsFollow` and `StepsApplicable`, for any `FileLines`,
`MaxEdits` and `MaxNew`, any cut of a batch into steps and any failures (`EditsTakeEffect`,
`PendingEditsFollow`, `PendingStepsApply`). The theorems assume what the batches of `rebase.cfg`
satisfy: no `"move"` in `Actions`, `~SharedLines`, `~Overlapping`. Without any one of them some of the three properties
is false (section 5 names what TLC then refutes).

None of the properties is inductive. That later steps name the right lines does not say in
which order the lines of the file are, so the next step could put new text into the wrong place; and the
file alone says nothing of the numbers to come. `IInv` (`BatchesRun`) has both, and between them
`StandsIn`: each edit to come stands on the line it was written for or, for an `insert_before`, on the
first of the lines which have replaced it. `TargetsFollow` does not ask for
the second case, as the line is gone, but `FileAsAuthored` fails without it. `GoodEdits` and
`BatchInOrder` keep what `Batches`, `Cuts` and `Steps` say of the edits that are pending or in effect. TLC checked
`IInv` as an invariant of `rebase.cfg` before it was proved.

The proof goes from the numbers to the text.

* *Order and sums.* `RanksOrder` ranks a finite set under a strict order, so the sorted order which
  `InLineOrder` chooses exists (`LinesInOrder`); `SumAdds` says that `SumFunction` adds up in any order.
* *One edit.* `SpliceLines`, `EditedText`: which line a text has at each position after it; hence
  `SurvivingLinesFollow`, the case of one edit.
* *One step.* `Rewriting`: the recursive renumbering comes down to moving each edit by what the earlier ones add.
  `TextBelow` and `LinesStay` follow the files in between, edit by edit. `StepDeltas`: the shifts which the
  executor then reports, from edits which the back end has completed, add up to the same movement.
* *What the text means.* `TakesBlock`, `OneEdit`: an edit that stands on its line takes exactly the lines it
  names and puts its own where they belong, so that the file stays `AsWritten`; `StepWritten` and `StepRuns`
  for a step.
* *The steps to come.* `LineFollows`, `PendingFollow`: a pending edit, shifted, stands on its line in the new file.
* *The batch.* `Slices` says what a cut makes of the batch; with `InitSound` and `StepKeeps`, `IInv` is an invariant.

**`EditLocksProofs`.** `LocksInv` (type and `OneHolder`) is inductive once one knows of each place of
each script what it holds and wants (one fact per command, such as `QueryOrdered` or
`ReadLinesScript`, collected in `Scripts`). `DeadlockOnlyByRegistry`: the locks have a rank, and every place outside the
two commands wants a lock above those held. In a set of calls that wait for one another
the one that wants the highest lock waits for one that holds it and wants a higher one;
so one of them takes the registry first.

**`HashRegistryProofs`, `EditBackendProofs`.** Forwarding is proved of the registry alone, under any sequence of
registrations and invalidations (`RegistryForwards`). `BackendUsesRegistry` shows that each step of `EditBackend` is one of
`RegistrySpec` or leaves it alone, and `BackendForwards` follows. For the rest there are two layers.
`TypeInv` is the type with the shape of jobs in progress: a `batch_edits` that
pushes has entries, one that writes has read a text, listed hashes are registered. `Coherent` is
`CacheHitIsDisk` with what the jobs must know: `JobRight` (a call not late has on
disk what it wrote), `DraftRight` (a draft about to be written owns the newest entry),
`Deleted` and `Settled` (what is registered when nobody works on the file). `CacheIsRight` and
`RegistryIsRight` follow; there is one lemma per action. `UndoIsFormer` and `FlushedIsWritten` come
from `StoreInv`: the texts which a call carries from one lock to the next are ones the file had (`JobsKnow`),
so what it leaves in the undo store is too (`UndoRemembers`). A draft marks the *newest* entry
as flushed after writing its own text; that the two are the same (`DraftIsNewest`) needs that no two
calls hold the undo store (`UndoHeldOnce`).

**`IndexerProofs`.** `TypeInv` adds the shapes of scan and run to the type. `Exclusive` says that scan
and run do not both hold the mutex. `StaleInv` strengthens `StaleIsReported` with `RemovalIsNotLast`
and with what a scan or run in progress has seen: `RunRight`, `RunStale`, `ScanSees`, `ScanGoesOn`, `ScanStale` (a file whose scan
has read something that is no longer so has an event on its way, as it changed after the scan
began), and `UnseenRow`. `ExactInv` follows an undisturbed scan through its phases
(`OnlyWalked`, `FullGoesOn`); `ScanLeavesExact` is an action property from it. That a run ends without a row is
harmless to the invariant exactly where the file holds what it refused (`Refused`).

**`RefactorProofs`.** `Inv` adds to `RollbackRestores` and `WorkingCopyIsDisk`: `RefusedIsLost`
(data that rollback refuses speaks of lost files), `NotThere` (a file to snapshot that was
absent stays absent until somebody makes it, so an operation that finds a text writes a file
that is snapshot, created or foreign), `ForeignIsKnown`. The step is reduced once and for all: data
behind a list matters only for files the list does not speak of (`LastSaysRight`), so within a call it is enough that the
call's own data is right (`CallGoesOn`), and three lemmas serve the nine actions of a call:
one file written, nothing written, the call responds. The theorems hold for any number of files,
operations, calls and changes; `RollbackCorrect` and `WorkingCopyRight` do not even need the texts to be sequences.

The other three do. `RefactorTypeCorrect` gives the types through what the operations compute.
`ExtractsKeep` rests on `KeepInv`, for each file from which symbols are only extracted: no line but those of `Dressing` is missing from the
file and its targets together (`LinesKept`), the targets on disk are as the call wrote them (`TargetsWritten`),
and what is about to be removed is in its target by then (`CopiedFirst`); the last fails if the two
writes of an extract are swapped.

`LinesFollowAuthor` says that the line numbers of a call are those of the files before it,
through any number of removals in any order. `LinesInv` adds that the recorded `line_shifts` of a
file stand for the set of its lines that are gone, and that its text follows that set. The argument is
`AdjustedIsPlace`: for a line that is left, the shifts, added up in the order in which they were recorded,
take off exactly the lines gone before it. It holds because two recorded ranges never overlap (`RecordedApart`) and by
counting (`GoneBetween`, `PlacesInOrder`); `DeleteFollows` and `UpdateFollows` then say that the two text operations keep
the text right.

*Folds.* What the operations compute is written with `FoldLeft`, whose definition is a fold over the set of
indices with a recursive function inside. It can be reasoned about without the induction theorems of the library that
take an operator: `LeastNumber` (from the well-foundedness of the naturals) gives `CountingUp`, induction over
a *set* of numbers; `FoldExists` and `FoldValues` say from it that the recursive function exists and
has the expected value after each element; and a lemma on a fold unfolds `FoldLeft` and
`MapThenFoldSet` and supplies what holds between two elements.

Sums are treated alike: `SumsExist` gives the recursive function inside `SumFunction`.

**Only model-checked.** Liveness and everything of fairness, which needs `ENABLED`; and the disagreements
of section 12, which are counterexamples and need no more than a run. Every invariant that a passing run checks is
also proved.

## 12. Disagreements between the code and its documentation

Three have a run, and a finding in `PROJECT.json`:

* `abortall`: the panel's Abort All relabels the tasks, but `runAgent` does not look
  at its signal after the conversation, and its result overwrites `cancelled` with
  `completed` (`orchestrator.ts:1816`; the button says "Stop all agents immediately").
* `faileddep`: a dependency counts only when completed, nothing fails the dependents
  of a failed task, and `waitForCompletion` waits for them for ever
  (`swarmStore.ts:629`).
* `deadlock`: `read_lines` takes the registry and then the snapshot service
  (`batch_query/mod.rs:14010`), `line_edits` the other way round (`mod.rs:10889`). A
  `refactor_rollback` with its bounded wait for one mutex then waits for
  the registry without bound (`mod.rs:14364`).

Those of line rebasing are seen with the constants of `rebase.cfg` changed (section 5):

* after lines 1-2 are moved to 4, a step which names line 3, now line 1, is not shifted
  (`executor.ts:304`, `416-421`; `prompts/toolRef.ts:71`);
* after `insert_after 1` and `insert_before 1` in one step, the second
  shift is recorded at line 0 and dropped (`executor.ts:311`; the comment at 274-276).

And of the limiter: a success clears the back-off, but the queue's timers wait for the
end of the old one; after five errors in a row that is 81 s, longer than the queue's 60 s
(`rateLimiter.ts:329`), so a request may be rejected although its provider is available; a planner's success does
so even with no lane in use (section 4).

The other operators of `OrchestratorClaims` are refuted as well. To see
one, copy `abortall.cfg`, name the property, and take these constants, in the order
`MaxTasks MaxSessions PlanSize MaxDeps MaxAttempts MaxRetries MaxConcurrentAgents
SlotLimit MaxLoads MaxRestarts`:

| Claim | Constants | What happens |
|---|---|---|
| `GracefulLetsAgentsFinish` | 1 1 1 0 2 2 1 1 0 0 | `cleanup` aborts every agent under a graceful stop too (`orchestrator.ts:1951`) |
| `ImmediateIsFailed` | 1 1 1 0 1 1 1 1 0 0 | the verdict counts failed tasks, a cancelled one is not failed, and its `completed` overwrites the status (`orchestrator.ts:1338`) |
| `CleanupReachesAll` | 1 1 1 0 2 2 1 1 0 0 | the `.finally` of the old agent deletes the entry of the retry (`orchestrator.ts:1593`) |
| `PlanCanBeApproved` | 1 1 1 0 1 1 1 1 0 0 | Approve is shown while the plan is still being written; pressed then, execution refuses and the handler approves all the same, so the finished plan is approved and nothing runs it (`SwarmPanel/index.tsx:342`) |
| `FailurePersisted` | 1 1 1 0 1 1 1 1 0 0 | an agent that gives up waiting for a lane marks its task failed in the store only (`orchestrator.ts:1654`) |
| `AwaitingIsNotDone` | 1 1 1 0 1 1 1 1 1 0 | the status of a loaded swarm ignores tasks which await the user (`swarmStore.ts:481`) |
| `WorkingBound` | 2 2 1 0 1 1 1 2 0 0 | agents of the former swarm go on beside those of the new one |
| `CancelSettles`, `ServiceCancel = TRUE` | 1 1 1 0 1 1 1 1 0 0 | `cancel` stops the poll loop which should notice (`orchestrator.ts:1944`) |
| `OneAgentPerTask`, with a load | 1 1 1 0 2 1 1 2 1 0 | a reload makes a task pending whose agent still runs (`swarmStore.ts:457`) |

Noted without a run, in the back end:

* *Registry.* Forwards are kept by hash and not by file, so equal texts of two files
  forward across files (`hash_resolver.rs:372`); hence `OwnTexts` in `ForwardsToLatest`. After A, B, A the list of a
  file ends in B, and the "current revision" the front end is told (`get_current_revision`) is not the file's.
* *Drafts.* Undo of an entry without previous content may fall back to a registered draft the gate
  had rejected. Drafts formatted by `gofmt` are never marked flushed. A `batch_edits` that
  fails at a later file loses the undo entries of the files already written (`hash_resolver.rs:1952`); an
  undo whose write fails has lost its entry (`mod.rs:12602`). `replace` writes files and tells
  neither cache nor registry.
* *Index.* Relations of others to a removed file are gone until their files change or a full scan runs
  (`scanner.rs:1684`). Files that a run refuses keep their former row in silence (section 7). A row whose hash and text differ, of a file nobody watches, is skipped
  by incremental scans. The watcher's filter compares substrings, the scan's by pattern. `is_scanning`
  stays set after a failed scan (`atls_ops.rs:647`).
* *Refactoring.* Rollback refuses a response that only created files (`mod.rs:14391`) and deletes a file the
  call had created *over* (`mod.rs:14497`). A failed preflight of a symbol is not rolled back by an incremental call as
  the other failures are (`mod.rs:14884`). Resuming, as the hints tell (`mod.rs:15240`, `15715`), after
  an incremental rollback skips operations that were undone, and after an `import_lint` pause removes the
  lines of that operation twice; a resumed call has lost `line_shifts` and target contents, so an extract
  overwrites its target, and it never lints, as the totals count operations it skips. `?`
  errors return no rollback data. Several ranges of one operation are applied in order without
  renumbering; symbol removals and insertions are not in `line_shifts`. An extract to a target
  which an import update has touched meanwhile writes over that update. `dry_run` is ignored (`prompts/toolRef.ts:178`).

Noted without a run, in the swarm: `awaiting_input` has no way back but cancel; after a
restart Resume sets `running` with nothing that polls, and the dependencies
are gone; `docs/swarm-orchestration.md:129-132` says the orchestrator does not go
through the rate limiter, and it does (`orchestrator.ts:1616`, `swarmChat.ts:493`);
the same page gives `maxIterations` as 15 and 3, the code 50 and 10
(`orchestrator.ts:1774`); `recordSuccess` is called only for rounds that report tokens, so
others neither count nor end a back-off; an agent keeps its lane while it waits
up to 65 s after a 429, longer than the 60 s for which others queue.

## 13. What is not modelled

Within the modelled parts: token counters, agent statistics, research data, the log
and prompts of the swarm, the parsing of plans; several providers at once and the
limiter's unused operations (`recordError`, `reset`, setters); of rebasing, symbol
anchors, `replace_body`, ranges inside references, several files, and the
content-anchored path for stale hashes; of the back end's commands, `gofmt` and line endings,
the spilling of registry entries to disk and short-hash collisions, the content of queries; of
the index, what section 7 lists; of refactorings, how symbols are found, the header an extract puts into its target, failing
writes of a rollback, hashes evicted from the registry before it, several updates of one file in one
operation, end-open ranges, one path spelled in two ways (the snapshots would be two), and the CRLF endings a rollback
does not bring back. A write that fails is taken to leave the file as it was.

The conversation of an agent is one phase which ends completed, failed, rate limited or
awaiting input. That is enough for the swarm, which looks at nothing
else, but says nothing of tools or rounds.

The front end's batch executor beyond line numbers, its memory of what the model has read (snapshot tracker,
freshness, file views, context store), the chat and subagent loops and the saving of sessions
are not modelled; `PROJECT.json` says of each why. Their hazards are listed there
with a note where they have one.

Left out for good: text conversion (parsing, formatting, prompts, notation),
heuristics without a protocol (spin detection, compression), syntax-tree
algorithms, pure I/O (terminal, streaming, linters, MCP) and rendering. They make most of
the lines of the back end: of its 86 000 lines of Rust the modules map about 5000, those
that change files, locks, caches and the index.

## 14. What is left

In order of what it would add:

1. The loop of `executeUnifiedBatch` (`executor.ts:2324-3240`) with gates, `if`, bindings, `on_error`,
   inserted verification and rollback steps: after stop or rollback nothing but the rollback runs.
2. The front end's freshness: own writes with their life of 3 s, watcher events late, early or doubled,
   against `EditBackend` as the other side; content shown as current is that of the disk once
   events are delivered.
3. The rounds of `SwarmChat`, shown to implement the one-phase conversation of `Orchestrator`.
4. Saving of sessions: debounce, queue, session switch during a save.
5. Resumption of refactorings once the code keeps `line_shifts` and targets over a pause:
   `LinesAsAuthored` across calls.

Further theorems: which shared lines of a step do no harm (TLC finds `StepsApplicable` kept with
`SharedLines = TRUE`, up to the bounds of `rebase.cfg`), and moves, once the code renumbers them.
