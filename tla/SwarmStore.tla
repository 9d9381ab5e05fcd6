------------------------------ MODULE SwarmStore ------------------------------
(***************************************************************************)
(* The swarm store (stores/swarmStore.ts): the in-memory record of the     *)
(* swarm that the panel draws and that the orchestrator reads on every     *)
(* poll. A store operation runs to completion on the one JavaScript        *)
(* thread, so each is one operator here, which primes only the variables   *)
(* the operation assigns; an operation that ends by calling updateStats    *)
(* includes it. Actions are put together from these in Orchestrator.tla.   *)
(*                                                                         *)
(* A task is the number of its addTask call, so that the order of numbers  *)
(* is the order of the list. Task texts, token and cost counters, the      *)
(* conversation log and agent settings are left out.                       *)
(***************************************************************************)
EXTENDS Integers, FiniteSets

CONSTANTS
    MaxTasks,       \* bound: tasks created over the whole behaviour
    MaxSessions     \* bound: swarms started over the whole behaviour

ASSUME TaskAssumption == MaxTasks \in Nat \ {0}
ASSUME SessionAssumption == MaxSessions \in Nat \ {0}

Task == 1..MaxTasks

\* A dependency the planner named that is no earlier title of its plan: the
\* raw string stays in the list and matches no task id.
Unresolved == 0

TaskStatus == {"pending", "running", "awaiting_input",
               "completed", "failed", "cancelled"}
SwarmStatus == {"idle", "researching", "planning", "running", "paused",
                "synthesizing", "completed", "failed"}

VARIABLES
    isActive,       \* the panel is shown
    status,         \* status of the swarm
    sessionId,      \* 0 is null
    tasks,          \* the tasks in the list
    taskStatus,     \* status of each task (of interest for those in the list)
    retryCount,
    dependencies,   \* of each task, task ids or Unresolved
    plan,           \* a plan summary is set
    planApproved,
    cancelMode      \* "none" stands for cancelRequested = false

storeVars == <<isActive, status, sessionId, tasks, taskStatus, retryCount,
               dependencies, plan, planApproved, cancelMode>>

\* What the per-task operations of a running swarm leave alone.
planVars == <<isActive, sessionId, tasks, dependencies, plan, planApproved,
              cancelMode>>

StoreTypeOK ==
    /\ isActive \in BOOLEAN
    /\ status \in SwarmStatus
    /\ sessionId \in 0..MaxSessions
    /\ tasks \subseteq Task
    /\ taskStatus \in [Task -> TaskStatus]
    /\ retryCount \in [Task -> Nat]
    /\ dependencies \in [Task -> SUBSET (Task \cup {Unresolved})]
    /\ plan \in BOOLEAN
    /\ planApproved \in BOOLEAN
    /\ cancelMode \in {"none", "graceful", "immediate"}

StoreInit ==
    /\ isActive = FALSE
    /\ status = "idle"
    /\ sessionId = 0
    /\ tasks = {}
    /\ taskStatus = [t \in Task |-> "pending"]
    /\ retryCount = [t \in Task |-> 0]
    /\ dependencies = [t \in Task |-> {}]
    /\ plan = FALSE
    /\ planApproved = FALSE
    /\ cancelMode = "none"

-------------------------------------------------------------------------------
(***************************************************************************)
(* Reading the list.                                                       *)
(***************************************************************************)
cancelRequested == cancelMode # "none"

getTasksByStatus(st) == {t \in tasks : taskStatus[t] = st}

getRunningTasks == getTasksByStatus("running")

\* Mutant: a dependency that has settled in any way will do.
getReadyTasksSettled ==
    {t \in getTasksByStatus("pending") :
        \A d \in dependencies[t] :
            d \in tasks /\ taskStatus[d] \in {"completed", "failed"}}

getReadyTasks ==
    {t \in getTasksByStatus("pending") :
        \A d \in dependencies[t] : d \in tasks /\ taskStatus[d] = "completed"}

Unsettled == {"pending", "running", "awaiting_input"}

\* updateStats counts awaiting_input with the pending tasks, so the swarm is
\* done when no task is unsettled; a synthesizing status is not overwritten.
AllDone(list, st) == list # {} /\ \A t \in list : st[t] \notin Unsettled

Verdict(list, st) ==
    IF \E t \in list : st[t] = "failed" THEN "failed" ELSE "completed"

StatusAfterStats(list, st, old) ==
    IF AllDone(list, st) /\ old # "synthesizing" THEN Verdict(list, st) ELSE old

-------------------------------------------------------------------------------
(***************************************************************************)
(* Tasks. Each ends with updateStats, which may settle the swarm's status. *)
(***************************************************************************)
updateStats == status' = StatusAfterStats(tasks, taskStatus', status)

addTask(t, deps) ==
    /\ tasks' = tasks \cup {t}
    /\ taskStatus' = [taskStatus EXCEPT ![t] = "pending"]
    /\ retryCount' = [retryCount EXCEPT ![t] = 0]
    /\ dependencies' = [dependencies EXCEPT ![t] = deps]
    /\ status' = StatusAfterStats(tasks', taskStatus', status)

\* A task that is not in the list any more is not found, and nothing changes
\* but the statistics.
updateTaskStatus(T, st) ==
    /\ taskStatus' = [t \in Task |-> IF t \in T \cap tasks THEN st ELSE taskStatus[t]]
    /\ updateStats

updateTaskError(t) ==
    retryCount' = IF t \in tasks
                  THEN [retryCount EXCEPT ![t] = @ + 1]
                  ELSE retryCount

-------------------------------------------------------------------------------
(***************************************************************************)
(* The life of a swarm.                                                    *)
(***************************************************************************)
\* The list is replaced by an empty one.
noTasks ==
    /\ tasks' = {}
    /\ taskStatus' = [t \in Task |-> "pending"]
    /\ retryCount' = [t \in Task |-> 0]
    /\ dependencies' = [t \in Task |-> {}]

startSwarm(s) ==
    /\ isActive' = TRUE
    /\ status' = "researching"
    /\ sessionId' = s
    /\ noTasks
    /\ plan' = FALSE
    /\ planApproved' = FALSE
    /\ cancelMode' = "none"

\* Also the store of a program that has just started.
resetSwarm ==
    /\ isActive' = FALSE
    /\ status' = "idle"
    /\ sessionId' = 0
    /\ noTasks
    /\ plan' = FALSE
    /\ planApproved' = FALSE
    /\ cancelMode' = "none"

setStatus(st) ==
    /\ status' = st
    /\ UNCHANGED <<isActive, sessionId, tasks, taskStatus, retryCount,
                   dependencies, plan, planApproved, cancelMode>>

pauseSwarm == setStatus("paused")

resumeSwarm == status = "paused" /\ setStatus("running")

setPlan ==
    /\ plan' = TRUE
    /\ status' = "planning"
    /\ UNCHANGED <<isActive, sessionId, tasks, taskStatus, retryCount,
                   dependencies, planApproved, cancelMode>>

approvePlan ==
    /\ planApproved' = TRUE
    /\ status' = "running"
    /\ UNCHANGED <<isActive, sessionId, tasks, taskStatus, retryCount,
                   dependencies, plan, cancelMode>>

\* Mutant: every task of the list is relabelled.
cancelSwarmAll(mode) ==
    /\ cancelMode' = mode
    /\ status' = IF mode = "immediate" THEN "failed" ELSE status
    /\ taskStatus' =
         [t \in Task |-> IF mode = "immediate" /\ t \in tasks
                         THEN "cancelled" ELSE taskStatus[t]]
    /\ UNCHANGED <<isActive, sessionId, tasks, retryCount, dependencies, plan,
                   planApproved>>

\* The immediate mode relabels the running tasks and does not call updateStats.
cancelSwarm(mode) ==
    /\ cancelMode' = mode
    /\ status' = IF mode = "immediate" THEN "failed" ELSE status
    /\ taskStatus' =
         [t \in Task |-> IF mode = "immediate" /\ t \in getRunningTasks
                         THEN "cancelled" ELSE taskStatus[t]]
    /\ UNCHANGED <<isActive, sessionId, tasks, retryCount, dependencies, plan,
                   planApproved>>

\* Mutant: the whole task table is replaced, tasks without a row included.
rehydratedStatusAll(rows, rowStatus) == rowStatus

rehydratedStatus(rows, rowStatus) ==
    [t \in Task |-> IF t \in rows THEN rowStatus[t] ELSE "pending"]

\* The rows of a loaded session replace the list. Dependencies and retry
\* counts are not in the rows; the plan and the cancel flags are not reset; a
\* task that awaits input counts as done.
rehydrateTasks(s, rows, rowStatus) ==
    LET has(st)  == \E t \in rows : rowStatus[t] = st
        allDone  == ~has("running") /\ ~has("pending")
    IN  /\ rows # {}
        /\ sessionId' = s
        /\ tasks' = rows
        /\ taskStatus' = rehydratedStatus(rows, rowStatus)
        /\ retryCount' = [t \in Task |-> 0]
        /\ dependencies' = [t \in Task |-> {}]
        /\ isActive' = ~allDone
        /\ status' = IF ~allDone THEN "paused"
                     ELSE IF has("failed") /\ ~has("completed") THEN "failed"
                     ELSE "completed"
        /\ UNCHANGED <<plan, planApproved, cancelMode>>
===============================================================================
