------------------------------ MODULE EditLocks ------------------------------
(***************************************************************************)
(* The asynchronous mutexes of the Tauri back end that a call of           *)
(* atls_batch_query (batch_query/mod.rs) takes: the undo store, the        *)
(* snapshot service, the hash registry, the file cache and the mutex of    *)
(* refactor execute and rollback.  Every call is a task of its own, a      *)
(* guard lives until its scope or its drop() ends, and nothing times out   *)
(* but the try_lock loop of refactor_rollback.                             *)
(*                                                                         *)
(* What matters here is in which order a command takes them.  A command is *)
(* the list of the places where it awaits a lock: what it holds there,     *)
(* what it wants, and the places it may come to next (0: it returns, also  *)
(* by an early return or a `?`).  The conditions that choose the next      *)
(* place are left open; what the commands do to the files is EditBackend.  *)
(***************************************************************************)
EXTENDS Naturals, Sequences, FiniteSets

CONSTANTS
    Caller,      \* the tasks that may call the back end at the same time
    Commands     \* the commands they may call, a subset of AllCommands

Lock == {"undo", "snapshot", "registry", "cache", "refactor"}

\* A place where a command awaits `want` while holding `held`.
Await(held, want, next) == [held |-> held, want |-> want, next |-> next]

\* Every batch_query first resolves the h: references of its parameters.
Prologue(next) == Await({}, "registry", next)

(***************************************************************************)
(* The commands.                                                           *)
(***************************************************************************)
Query == << Prologue({0}) >>

\* Mutant: the undo store is read while the snapshot service is still held.
ContextHistoryInside ==
    << Prologue({2, 0}),
       Await({}, "snapshot", {2, 3, 0}),
       Await({"snapshot"}, "registry", {2, 4, 5, 0}),
       Await({"snapshot", "registry"}, "cache", {2, 5, 0}),
       Await({"snapshot"}, "undo", {2, 0}) >>

ContextSmart ==
    << Prologue({2, 0}),
       Await({}, "snapshot", {2, 3, 0}),
       Await({"snapshot"}, "registry", {2, 4, 5, 0}),
       Await({"snapshot", "registry"}, "cache", {2, 5, 0}),
       Await({}, "undo", {2, 0}) >>

ContextFull ==
    << Prologue({2, 0}),
       Await({}, "snapshot", {3, 5, 6}),
       Await({"snapshot"}, "registry", {4, 5, 6}),
       Await({"snapshot", "registry"}, "cache", {5, 6}),
       Await({}, "undo", {6}),
       Await({}, "snapshot", {7}),
       Await({}, "registry", {2, 8, 0}),
       Await({}, "snapshot", {2, 9, 0}),
       Await({}, "registry", {2, 0}) >>

LineEdits ==
    << Prologue({2, 0}),
       Await({}, "snapshot", {3, 5, 0}),
       Await({"snapshot"}, "registry", {4, 5, 0}),
       Await({}, "registry", {5, 0}),
       Await({}, "snapshot", {6, 0}),
       Await({}, "registry", {7}),
       Await({}, "undo", {0}) >>

Draft ==
    << Prologue({2, 0}),
       Await({}, "undo", {3, 6, 0}),
       Await({"undo"}, "snapshot", {4}),
       Await({"undo", "snapshot"}, "registry", {3, 5, 6, 0}),
       Await({"undo"}, "registry", {6, 0}),
       Await({"undo"}, "snapshot", {7}),
       Await({"undo"}, "registry", {8, 0}),
       Await({"undo"}, "registry", {0}) >>

Revise == << Prologue({2, 0}), Await({}, "undo", {3, 0}), Await({}, "registry", {0}) >>

Flush == << Prologue({2, 0}), Await({}, "undo", {3, 0}), Await({}, "registry", {0}) >>

Undo ==
    << Prologue({2, 0}),
       Await({}, "undo", {3, 4, 0}),
       Await({"undo"}, "registry", {4, 0}),
       Await({}, "registry", {0}) >>

ListDrafts == << Prologue({2}), Await({}, "undo", {0}) >>

CreateFiles ==
    << Prologue({2, 0}),
       Await({}, "snapshot", {3}),
       Await({}, "registry", {2, 0}) >>

ReadLines ==
    << Prologue({2, 0}),
       Await({}, "registry", {3}),
       Await({"registry"}, "snapshot", {4, 0}),
       Await({"registry", "snapshot"}, "undo", {0}) >>

BatchEdits ==
    << Prologue({2, 0}),
       Await({}, "registry", {3}),
       Await({"registry"}, "snapshot", {4, 5, 0}),
       Await({}, "cache", {4, 5}),
       Await({}, "undo", {0}) >>

RefactorRollback ==
    << Prologue({2}),
       Await({}, "refactor", {3, 0}),
       Await({"refactor"}, "registry", {3, 4, 0}),
       Await({"refactor"}, "undo", {3, 0}) >>

\* Mutant: the mutex is kept over the recursive dispatch.
RefactorKeepsMutex ==
    << Prologue({2}),
       Await({}, "refactor", {2, 3, 0}),
       Await({"refactor"}, "refactor", {3, 0}) >>

\* The shortcut for extractions drops the mutex and dispatches again.
RefactorExecute ==
    << Prologue({2}),
       Await({}, "refactor", {1, 3, 0}),
       Await({"refactor"}, "registry", {3, 0}) >>

\* The watcher's invalidation, and the file commands of the explorer.
Invalidate ==
    << Await({}, "registry", {2}), Await({}, "cache", {3}), Await({}, "snapshot", {0}) >>

WriteFile ==
    << Await({}, "snapshot", {2, 0}), Await({}, "registry", {3}), Await({}, "cache", {0}) >>

Script ==
    [query |-> Query, context_smart |-> ContextSmart, context_full |-> ContextFull,
     line_edits |-> LineEdits, draft |-> Draft, revise |-> Revise, flush |-> Flush,
     undo |-> Undo, list_drafts |-> ListDrafts, create_files |-> CreateFiles,
     read_lines |-> ReadLines, batch_edits |-> BatchEdits,
     refactor_rollback |-> RefactorRollback, refactor |-> RefactorExecute,
     invalidate |-> Invalidate, write_file |-> WriteFile]

AllCommands == DOMAIN Script

ASSUME CommandsAssumption == Commands \subseteq AllCommands

-----------------------------------------------------------------------------
VARIABLES
    call,      \* the command a caller is executing, or "none"
    place,     \* the place of its script it has reached
    inside     \* whether it has got the lock it wanted there

vars == <<call, place, inside>>

Here(p) == Script[call[p]][place[p]]

Held(p) ==
    IF call[p] = "none" THEN {}
    ELSE IF inside[p] THEN Here(p).held \cup {Here(p).want}
    ELSE Here(p).held

Free(l) == \A p \in Caller : l \notin Held(p)

Waiting(p) == call[p] # "none" /\ ~inside[p]

Init ==
    /\ call = [p \in Caller |-> "none"]
    /\ place = [p \in Caller |-> 0]
    /\ inside = [p \in Caller |-> FALSE]

Begin(p) ==
    /\ call[p] = "none"
    /\ \E c \in Commands : call' = [call EXCEPT ![p] = c]
    /\ place' = [place EXCEPT ![p] = 1]
    /\ UNCHANGED inside

\* lock().await is granted.
Acquire(p) ==
    /\ Waiting(p)
    /\ Free(Here(p).want)
    /\ inside' = [inside EXCEPT ![p] = TRUE]
    /\ UNCHANGED <<call, place>>

\* The command comes to a place, having dropped what it does not hold there.
GoTo(p, i) ==
    /\ i \in Here(p).next
    /\ IF i = 0 THEN call' = [call EXCEPT ![p] = "none"] ELSE UNCHANGED call
    /\ place' = [place EXCEPT ![p] = i]
    /\ inside' = [inside EXCEPT ![p] = FALSE]

Working(p) == call[p] # "none" /\ inside[p]

Return(p) == Working(p) /\ GoTo(p, 0)

\* The next part of the command.
Proceed(p) ==
    /\ Working(p)
    /\ \E i \in place[p] + 1 .. Len(Script[call[p]]) : GoTo(p, i)

\* The next item of a list of files or edits, or a recursive dispatch.
Again(p) ==
    /\ Working(p)
    /\ \E i \in 1 .. place[p] : GoTo(p, i)

\* refactor_rollback polls the mutex of the refactorings for five seconds.
GiveUp(p) ==
    /\ Waiting(p)
    /\ call[p] = "refactor_rollback" /\ Here(p).want = "refactor"
    /\ ~Free("refactor")
    /\ call' = [call EXCEPT ![p] = "none"]
    /\ place' = [place EXCEPT ![p] = 0]
    /\ UNCHANGED inside

Next ==
    \E p \in Caller : Begin(p) \/ Acquire(p) \/ Proceed(p) \/ Again(p) \/ Return(p) \/ GiveUp(p)

Spec == Init /\ [][Next]_vars

\* tokio's Mutex grants its waiters in order, a call that has its locks goes
\* on, and no call goes through its lists for ever: they are finite.
Fairness ==
    \A p \in Caller :
        /\ SF_vars(Acquire(p))
        /\ WF_vars(Proceed(p) \/ Again(p) \/ Return(p))
        /\ SF_vars(Proceed(p))
        /\ SF_vars(Return(p))
        /\ WF_vars(GiveUp(p))

FairSpec == Spec /\ Fairness

-----------------------------------------------------------------------------
(***************************************************************************)
(* Properties.                                                             *)
(***************************************************************************)
\* Every caller is at a place of the command it executes.
TypeOK ==
    /\ call \in [Caller -> Commands \cup {"none"}]
    /\ place \in [Caller -> Nat]
    /\ inside \in [Caller -> BOOLEAN]
    /\ \A p \in Caller :
        IF call[p] = "none" THEN place[p] = 0 /\ ~inside[p]
        ELSE place[p] \in DOMAIN Script[call[p]]

\* No two calls hold a lock at the same time, also where a command comes to a
\* place with locks it took at earlier places.
OneHolder ==
    \A p, q \in Caller : p # q => Held(p) \cap Held(q) = {}

\* No call awaits a lock it holds itself: tokio's Mutex is not reentrant, and
\* refactor execute dispatches itself again (mod.rs:14636).
NeverWaitsForItself ==
    \A p \in Caller : Waiting(p) => Here(p).want \notin Held(p)

\* A set of calls that wait for one another and for nobody else.
Deadlocked(D) ==
    /\ D # {}
    /\ \A p \in D : Waiting(p) /\ \E q \in D : Here(p).want \in Held(q)

\* A call that awaits another lock while it holds the registry.
RegistryFirst(p) == Waiting(p) /\ "registry" \in Here(p).held

\* Calls block one another for ever only if one of them, a read_lines or a
\* batch_edits, took the registry before the snapshot service or the undo
\* store; all other commands agree on one order of the locks.
DeadlockNeedsRegistryFirst ==
    \A D \in SUBSET Caller :
        Deadlocked(D) =>
            \E p \in D : RegistryFirst(p) /\ call[p] \in {"read_lines", "batch_edits"}

\* Every call returns, unless some calls block one another with the registry
\* taken first.
CallsReturn ==
    \A p \in Caller :
        call[p] # "none" ~>
            \/ call[p] = "none"
            \/ \E D \in SUBSET Caller : Deadlocked(D) /\ \E q \in D : RegistryFirst(q)

\* A rollback always ends: it waits for the refactorings no longer than five
\* seconds and takes the registry for each entry alone (mod.rs:14364).
RollbackReturns ==
    \A p \in Caller : call[p] = "refactor_rollback" ~> call[p] = "none"

=============================================================================
