----------------------------- MODULE Orchestrator -----------------------------
(***************************************************************************)
(* The swarm orchestrator (services/orchestrator.ts), with the user at the *)
(* swarm panel, the rows of the chat database it writes, and the lane      *)
(* count of the API rate limiter its agents hold.                          *)
(*                                                                         *)
(* Every action is the code between two awaits: the poll and the           *)
(* completion check are interval callbacks, an agent's steps are the       *)
(* continuations of runAgent, the panel's are click handlers. Between      *)
(* actions anything else may run. The conversation an agent has with its   *)
(* model is one phase that ends in any of the ways the code distinguishes. *)
(***************************************************************************)
EXTENDS SwarmStore

CONSTANTS
    PlanSize,           \* bound: tasks of one plan
    MaxDeps,            \* bound: dependencies of one task
    MaxAttempts,        \* bound: agents ever started for one task
    MaxRetries,         \* maxRetries of every task
    MaxConcurrentAgents,
    SlotLimit,          \* concurrentRequests of the provider
    MaxLoads,           \* bound: sessions loaded from the database
    MaxRestarts,        \* bound: restarts of the program
    RowsMayFail,        \* the write of a task's row may fail
    ServiceCancel       \* orchestrator.cancel is called, not only the store's

ASSUME OrchestratorAssumption ==
    /\ PlanSize \in Nat \ {0}
    /\ MaxDeps \in Nat
    /\ MaxAttempts \in Nat \ {0}
    /\ MaxRetries \in Nat \ {0}
    /\ MaxConcurrentAgents \in Nat \ {0}
    /\ SlotLimit \in Nat \ {0}
    /\ MaxLoads \in Nat
    /\ MaxRestarts \in Nat
    /\ RowsMayFail \in BOOLEAN
    /\ ServiceCancel \in BOOLEAN

Session == 1..MaxSessions

\* One run of runAgent: a task and the number of the attempt.
Agent == Task \X (1..MaxAttempts)

\* queued: waits in rateLimiter.acquire.   requeueWait: back-off, no slot held.
\* working: setup and conversation.        retryWait: back-off after a 429.
\* saving: writes its outcome to the database.
\* closing: slot released, waits for its terminal to close.
Phase == {"none", "queued", "requeueWait", "working", "retryWait", "saving",
          "closing", "done"}

VARIABLES
    starter,        \* where start() is; one at a time (the chat is generating)
    sessions,       \* number of swarms started
    planSession,    \* the session createPlan files its tasks under
    created,        \* number of tasks created
    owner,          \* session of each task
    planned,        \* dependencies as planned (history; rehydration forgets them)
    exec,           \* where executePlan is
    execSession,
    verdict,        \* the final status executePlan has chosen
    phase,          \* of each agent
    aborted,        \* agents whose abort signal has fired
    snapshot,       \* retryCount in the task object the agent was given
    outcome,        \* final status an agent saves
    attempts,       \* agents started for each task
    activeAgents,   \* the entry of each task in the map: an attempt, or 0
    slots,          \* activeRequests of the rate limiter
    dbTask,         \* status of each task's row
    loads, restarts

startVars  == <<starter, sessions, planSession, created, owner, planned>>
execVars   == <<exec, execSession, verdict>>
agentVars  == <<phase, aborted, snapshot, outcome, attempts, activeAgents, slots>>
dbVars     == <<dbTask>>
boundVars  == <<loads, restarts>>
vars == <<storeVars, startVars, execVars, agentVars, dbVars, boundVars>>

NoRow == "none"

StartTypeOK ==
    /\ starter \in {"idle", "init", "research", "planning"}
    /\ sessions \in 0..MaxSessions
    /\ planSession \in 0..MaxSessions
    /\ created \in 0..MaxTasks
    /\ owner \in [Task -> 0..MaxSessions]
    /\ planned \in [Task -> SUBSET (Task \cup {Unresolved})]

ExecTypeOK ==
    /\ exec \in {"idle", "starting", "polling", "synth", "final", "stranded"}
    /\ execSession \in 0..MaxSessions
    /\ verdict \in {"completed", "failed"}

AgentTypeOK ==
    /\ phase \in [Agent -> Phase]
    /\ aborted \subseteq Agent
    /\ snapshot \in [Agent -> Nat]
    /\ outcome \in [Agent -> TaskStatus]
    /\ attempts \in [Task -> 0..MaxAttempts]
    /\ activeAgents \in [Task -> 0..MaxAttempts]
    /\ slots \in Nat

DbTypeOK ==
    dbTask \in [Task -> TaskStatus \cup {NoRow}]

TypeOK ==
    /\ StoreTypeOK
    /\ StartTypeOK
    /\ ExecTypeOK
    /\ AgentTypeOK
    /\ DbTypeOK
    /\ loads \in 0..MaxLoads
    /\ restarts \in 0..MaxRestarts

Init ==
    /\ StoreInit
    /\ starter = "idle"
    /\ sessions = 0
    /\ planSession = 0
    /\ created = 0
    /\ owner = [t \in Task |-> 0]
    /\ planned = [t \in Task |-> {}]
    /\ exec = "idle"
    /\ execSession = 0
    /\ verdict = "completed"
    /\ phase = [a \in Agent |-> "none"]
    /\ aborted = {}
    /\ snapshot = [a \in Agent |-> 0]
    /\ outcome = [a \in Agent |-> "pending"]
    /\ attempts = [t \in Task |-> 0]
    /\ activeAgents = [t \in Task |-> 0]
    /\ slots = 0
    /\ dbTask = [t \in Task |-> NoRow]
    /\ loads = 0
    /\ restarts = 0

-------------------------------------------------------------------------------
(***************************************************************************)
(* start(): research and planning. The chat passes autoApprove: false, so  *)
(* start() returns once the plan is set and the panel resumes it.          *)
(***************************************************************************)
Start ==
    /\ starter = "idle"
    /\ sessions < MaxSessions
    /\ sessions' = sessions + 1
    /\ startSwarm(sessions + 1)
    /\ starter' = "init"
    /\ UNCHANGED <<planSession, created, owner, planned, execVars, agentVars,
                   dbVars, boundVars>>

\* The database is opened and the session's row written and read back.
InitDb ==
    /\ starter = "init"
    /\ setStatus("researching")
    /\ starter' = "research"
    /\ UNCHANGED <<sessions, planSession, created, owner, planned, execVars,
                   agentVars, dbTask, boundVars>>

Researched ==
    /\ starter = "research"
    /\ setStatus("planning")
    /\ planSession' = sessionId
    /\ starter' = "planning"
    /\ UNCHANGED <<sessions, created, owner, planned, execVars, agentVars,
                   dbTask, boundVars>>

\* The tasks this createPlan has added so far: the titles taskIdMap knows.
PlanTasks == {t \in 1..created : owner[t] = planSession}

\* The await in createTask lets others run between two tasks. A failed write
\* is logged, and the task has no row.
AddTask ==
    LET t == created + 1
    IN  /\ starter = "planning"
        /\ created < MaxTasks
        /\ Cardinality(PlanTasks) < PlanSize
        /\ created' = t
        /\ owner' = [owner EXCEPT ![t] = planSession]
        /\ \E deps \in SUBSET (PlanTasks \cup {Unresolved}) :
              /\ Cardinality(deps) <= MaxDeps
              /\ addTask(t, deps)
              /\ planned' = [planned EXCEPT ![t] = deps]
        /\ \/ dbTask' = [dbTask EXCEPT ![t] = "pending"]
           \/ RowsMayFail /\ UNCHANGED dbTask
        /\ UNCHANGED <<isActive, sessionId, plan, planApproved, cancelMode,
                       starter, sessions, planSession, execVars, agentVars,
                       boundVars>>

SetPlan ==
    /\ starter = "planning"
    /\ PlanTasks # {}
    /\ setPlan
    /\ starter' = "idle"
    /\ UNCHANGED <<sessions, planSession, created, owner, planned, execVars,
                   agentVars, dbVars, boundVars>>

\* Any failure before the first task exists; later ones fall back to a plan of
\* one task. The row is written on a best-effort basis.
StartFails ==
    /\ starter # "idle"
    /\ starter = "planning" => PlanTasks = {}
    /\ resetSwarm
    /\ starter' = "idle"
    /\ UNCHANGED <<sessions, planSession, created, owner, planned, execVars,
                   agentVars, dbTask, boundVars>>

-------------------------------------------------------------------------------
(***************************************************************************)
(* processReadyTasks: the first ready tasks in list order, up to the free  *)
(* places. startAgent and runAgent run up to the first await, so each      *)
(* agent is active and either has its rate-limiter slot or is queued.      *)
(***************************************************************************)
availableSlots == MaxConcurrentAgents - Cardinality(getRunningTasks)

\* Mutant: every ready task is started once a place is free.
tasksToStartAll(S) == S = getReadyTasks

tasksToStart(S) ==
    /\ S \subseteq getReadyTasks
    /\ Cardinality(S) <= availableSlots
    /\ \A t \in S, u \in getReadyTasks \ S : t < u
    /\ S # getReadyTasks => Cardinality(S) = availableSlots

startAgents(S, G) ==
    LET new(a) == a[1] \in S /\ a[2] = attempts[a[1]] + 1
    IN  /\ \A t \in S : attempts[t] < MaxAttempts
        /\ updateTaskStatus(S, "running")
        /\ slots + Cardinality(G) <= SlotLimit
        /\ slots' = slots + Cardinality(G)
        /\ phase' = [a \in Agent |-> IF ~new(a) THEN phase[a]
                                     ELSE IF a[1] \in G THEN "working"
                                     ELSE "queued"]
        /\ snapshot' = [a \in Agent |-> IF new(a) THEN retryCount[a[1]]
                                        ELSE snapshot[a]]
        /\ attempts' = [t \in Task |-> IF t \in S THEN attempts[t] + 1
                                       ELSE attempts[t]]
        /\ activeAgents' = [t \in Task |-> IF t \in S THEN attempts[t] + 1
                                           ELSE activeAgents[t]]
        /\ UNCHANGED <<planVars, retryCount, aborted, outcome>>

\* Mutant: the cancel flag is not looked at.
nothingToStartUncancelled ==
    \/ status = "paused"
    \/ availableSlots <= 0
    \/ getReadyTasks = {}

nothingToStart ==
    \/ cancelRequested
    \/ status = "paused"
    \/ availableSlots <= 0
    \/ getReadyTasks = {}

processReadyTasks ==
    IF nothingToStart
    THEN UNCHANGED <<storeVars, agentVars>>
    ELSE \E S \in SUBSET getReadyTasks :
           /\ tasksToStart(S)
           /\ \E G \in SUBSET S : startAgents(S, G)

\* cleanup(): aborts the agents that have an entry in the map.
cleanup ==
    /\ aborted' = aborted \cup {a \in Agent : activeAgents[a[1]] = a[2]}
    /\ activeAgents' = [t \in Task |-> 0]
    /\ UNCHANGED <<phase, snapshot, outcome, attempts, slots>>

-------------------------------------------------------------------------------
(***************************************************************************)
(* executePlan(), from the approval to the final status. Another approval  *)
(* is impossible while it is pending: the panel's button is disabled.      *)
(***************************************************************************)
ApprovePlan ==
    /\ isActive
    /\ status = "planning"
    /\ ~planApproved
    /\ exec = "idle"
    /\ sessionId # 0
    /\ approvePlan
    \* Without a plan resumeAfterApproval throws, and the panel's handler
    \* marks the plan approved all the same.
    /\ IF plan
       THEN exec' = "starting" /\ execSession' = sessionId
       ELSE UNCHANGED <<exec, execSession>>
    /\ UNCHANGED <<verdict, startVars, agentVars, dbVars, boundVars>>

ExecStart ==
    /\ exec = "starting"
    /\ exec' = "polling"
    /\ processReadyTasks
    /\ UNCHANGED <<execSession, verdict, startVars, dbTask, boundVars>>

\* A rejected status write, first or last: the panel's handler approves again.
ExecRejected ==
    /\ exec \in {"starting", "final"}
    /\ exec' = "idle"
    /\ approvePlan
    /\ UNCHANGED <<execSession, verdict, startVars, agentVars, dbVars, boundVars>>

Poll ==
    /\ exec = "polling"
    /\ ~nothingToStart
    /\ processReadyTasks
    /\ UNCHANGED <<execVars, startVars, dbVars, boundVars>>

chooseVerdict ==
    /\ verdict' = Verdict(tasks, taskStatus)
    /\ setStatus(verdict')
    /\ exec' = "final"

\* Mutants: a task that awaits input counts as settled; the cancel flag is not
\* looked at.
completionCheckedAwaiting ==
    cancelRequested \/ \A t \in tasks : taskStatus[t] \notin {"pending", "running"}
completionCheckedUncancelled ==
    \A t \in tasks : taskStatus[t] \notin Unsettled

completionChecked ==
    cancelRequested \/ \A t \in tasks : taskStatus[t] \notin Unsettled

\* The completion check, and executePlan up to its next await.
WaitForCompletion ==
    /\ exec = "polling"
    /\ completionChecked
    /\ cleanup
    /\ IF Cardinality(tasks) > 1 /\ ~cancelRequested
       THEN /\ exec' = "synth"
            /\ setStatus("synthesizing")
            /\ UNCHANGED verdict
       ELSE chooseVerdict
    /\ UNCHANGED <<execSession, startVars, dbVars, boundVars>>

\* synthesizeResults returns or throws; a failure is not fatal.
Synthesized ==
    /\ exec = "synth"
    /\ chooseVerdict
    /\ UNCHANGED <<execSession, startVars, agentVars, dbTask, boundVars>>

FinalSaved ==
    /\ exec = "final"
    /\ exec' = "idle"
    /\ UNCHANGED <<storeVars, execSession, verdict, startVars, agentVars, dbTask,
                   boundVars>>

-------------------------------------------------------------------------------
(***************************************************************************)
(* runAgent(), one agent a = <<task, attempt>>.                            *)
(***************************************************************************)
\* The promise of the agent settles: its handler deletes the entry of the
\* task, whichever agent the entry is of.
agentEnds(a) ==
    /\ phase' = [phase EXCEPT ![a] = "done"]
    /\ activeAgents' = [activeAgents EXCEPT ![a[1]] = 0]

\* The finally block: the slot is released, then the agent's terminal, if it
\* has one, is closed.
releaseAndClose(a) ==
    /\ slots' = IF slots > 0 THEN slots - 1 ELSE slots
    /\ \/ phase' = [phase EXCEPT ![a] = "closing"] /\ UNCHANGED activeAgents
       \/ agentEnds(a)

\* Mutant: the increment by updateTaskError is forgotten.
mayRetryLate(a) == snapshot[a] < MaxRetries

mayRetry(a) == snapshot[a] < MaxRetries - 1

\* Mutant: the agent goes on without a slot when there is none.
AcquiredRegardless(a) ==
    /\ phase[a] = "queued"
    /\ slots' = slots + 1
    /\ phase' = [phase EXCEPT ![a] = "working"]
    /\ UNCHANGED <<storeVars, aborted, snapshot, outcome, attempts, activeAgents,
                   startVars, execVars, dbVars, boundVars>>

\* The queued acquire of rateLimiter resolves.
Acquired(a) ==
    /\ phase[a] = "queued"
    /\ slots < SlotLimit
    /\ slots' = slots + 1
    /\ phase' = [phase EXCEPT ![a] = "working"]
    /\ UNCHANGED <<storeVars, aborted, snapshot, outcome, attempts, activeAgents,
                   startVars, execVars, dbVars, boundVars>>

\* Mutant: the exhausted agent returns without marking its task.
AcquireTimeoutSilent(a) ==
    /\ phase[a] = "queued"
    /\ updateTaskError(a[1])
    /\ IF mayRetry(a)
       THEN /\ phase' = [phase EXCEPT ![a] = "requeueWait"]
            /\ UNCHANGED activeAgents
       ELSE agentEnds(a)
    /\ UNCHANGED <<taskStatus, status, planVars, aborted, snapshot, outcome,
                   attempts, slots, startVars, execVars, dbVars, boundVars>>

\* It is rejected: back-off, or failure when the retries are used up, which
\* is not written to the database.
AcquireTimeout(a) ==
    /\ phase[a] = "queued"
    /\ updateTaskError(a[1])
    /\ IF mayRetry(a)
       THEN /\ phase' = [phase EXCEPT ![a] = "requeueWait"]
            /\ UNCHANGED <<taskStatus, status, activeAgents>>
       ELSE /\ updateTaskStatus({a[1]}, "failed")
            /\ agentEnds(a)
    /\ UNCHANGED <<planVars, aborted, snapshot, outcome, attempts, slots,
                   startVars, execVars, dbVars, boundVars>>

\* Mutants: the abort stops the timer and resolves nothing; the slot held
\* during a back-off is not released; the task is not set back to pending.
BackoffEndsUnaborted(a) ==
    /\ phase[a] \in {"requeueWait", "retryWait"}
    /\ a \notin aborted
    /\ updateTaskStatus({a[1]}, "pending")
    /\ IF phase[a] = "requeueWait"
       THEN agentEnds(a) /\ UNCHANGED slots
       ELSE releaseAndClose(a)
    /\ UNCHANGED <<planVars, retryCount, aborted, snapshot, outcome, attempts,
                   startVars, execVars, dbVars, boundVars>>
BackoffEndsLeaks(a) ==
    /\ phase[a] \in {"requeueWait", "retryWait"}
    /\ updateTaskStatus({a[1]}, IF a \in aborted THEN "failed" ELSE "pending")
    /\ agentEnds(a)
    /\ UNCHANGED <<slots, planVars, retryCount, aborted, snapshot, outcome,
                   attempts, startVars, execVars, dbVars, boundVars>>
BackoffEndsSilent(a) ==
    /\ phase[a] \in {"requeueWait", "retryWait"}
    /\ IF phase[a] = "requeueWait"
       THEN agentEnds(a) /\ UNCHANGED slots
       ELSE releaseAndClose(a)
    /\ UNCHANGED <<taskStatus, status, planVars, retryCount, aborted, snapshot,
                   outcome, attempts, startVars, execVars, dbVars, boundVars>>

\* A back-off ends, by its timer or by the abort.
BackoffEnds(a) ==
    /\ phase[a] \in {"requeueWait", "retryWait"}
    /\ updateTaskStatus({a[1]}, IF a \in aborted THEN "failed" ELSE "pending")
    /\ IF phase[a] = "requeueWait"
       THEN agentEnds(a) /\ UNCHANGED slots
       ELSE releaseAndClose(a)
    /\ UNCHANGED <<planVars, retryCount, aborted, snapshot, outcome, attempts,
                   startVars, execVars, dbVars, boundVars>>

\* The conversation returns; the abort signal is not consulted.
AgentFinishes(a) ==
    /\ phase[a] = "working"
    /\ \E st \in {"completed", "awaiting_input", "failed"} :
          /\ updateTaskStatus({a[1]}, st)
          /\ outcome' = [outcome EXCEPT ![a] = st]
    /\ phase' = [phase EXCEPT ![a] = "saving"]
    /\ UNCHANGED <<planVars, retryCount, aborted, snapshot, attempts,
                   activeAgents, slots, startVars, execVars, dbVars, boundVars>>

\* Mutant: the task is pending again before the back-off.
AgentRateLimitedEarly(a) ==
    /\ phase[a] = "working"
    /\ mayRetry(a)
    /\ updateTaskError(a[1])
    /\ updateTaskStatus({a[1]}, "pending")
    /\ phase' = [phase EXCEPT ![a] = "retryWait"]
    /\ UNCHANGED <<planVars, aborted, snapshot, outcome, attempts,
                   activeAgents, slots, startVars, execVars, dbVars, boundVars>>

\* It throws a 429 and the task may be retried; the slot is kept meanwhile.
AgentRateLimited(a) ==
    /\ phase[a] = "working"
    /\ mayRetry(a)
    /\ updateTaskError(a[1])
    /\ phase' = [phase EXCEPT ![a] = "retryWait"]
    /\ UNCHANGED <<planVars, taskStatus, status, aborted, snapshot, outcome,
                   attempts, activeAgents, slots, startVars, execVars, dbVars,
                   boundVars>>

\* It throws anything else, or a 429 too many.
AgentThrows(a) ==
    /\ phase[a] = "working"
    /\ updateTaskError(a[1])
    /\ updateTaskStatus({a[1]}, "failed")
    /\ outcome' = [outcome EXCEPT ![a] = "failed"]
    /\ phase' = [phase EXCEPT ![a] = "saving"]
    /\ UNCHANGED <<planVars, aborted, snapshot, attempts, activeAgents, slots,
                   startVars, execVars, dbVars, boundVars>>

\* The database writes settle, one way or the other; a task without a row has
\* nothing to update.
AgentSaved(a) ==
    /\ phase[a] = "saving"
    /\ \/ /\ dbTask[a[1]] # NoRow
          /\ dbTask' = [dbTask EXCEPT ![a[1]] = outcome[a]]
       \/ (RowsMayFail \/ dbTask[a[1]] = NoRow) /\ UNCHANGED dbTask
    /\ releaseAndClose(a)
    /\ UNCHANGED <<storeVars, aborted, snapshot, outcome, attempts, startVars,
                   execVars, boundVars>>

TerminalClosed(a) ==
    /\ phase[a] = "closing"
    /\ agentEnds(a)
    /\ UNCHANGED <<storeVars, aborted, snapshot, outcome, attempts, slots,
                   startVars, execVars, dbVars, boundVars>>

AgentStep(a) ==
    \/ Acquired(a)
    \/ AcquireTimeout(a)
    \/ BackoffEnds(a)
    \/ AgentFinishes(a)
    \/ AgentRateLimited(a)
    \/ AgentThrows(a)
    \/ AgentSaved(a)
    \/ TerminalClosed(a)

-------------------------------------------------------------------------------
(***************************************************************************)
(* The panel: its one-second updateStats, and the user's buttons.          *)
(***************************************************************************)
PanelTick ==
    /\ isActive
    /\ UNCHANGED taskStatus
    /\ updateStats
    /\ UNCHANGED <<planVars, retryCount, startVars, execVars, agentVars, dbVars,
                   boundVars>>

Pause ==
    /\ isActive
    /\ status = "running"
    /\ pauseSwarm
    /\ UNCHANGED <<startVars, execVars, agentVars, dbVars, boundVars>>

Resume ==
    /\ isActive
    /\ resumeSwarm
    /\ UNCHANGED <<startVars, execVars, agentVars, dbVars, boundVars>>

\* The modal's buttons call the store, not orchestrator.cancel.
PanelCancel ==
    /\ isActive
    /\ status \in {"running", "paused"}
    /\ ~cancelRequested
    /\ \E mode \in {"graceful", "immediate"} : cancelSwarm(mode)
    /\ UNCHANGED <<startVars, execVars, agentVars, dbVars, boundVars>>

\* orchestrator.cancel('immediate'). Clearing the completion interval leaves
\* the promise of waitForCompletion unresolved.
OrchestratorCancel ==
    /\ ServiceCancel
    /\ sessionId # 0
    /\ ~cancelRequested
    /\ cancelSwarm("immediate")
    /\ cleanup
    /\ exec' = IF exec = "polling" THEN "stranded" ELSE exec
    /\ UNCHANGED <<execSession, verdict, startVars, dbVars, boundVars>>

-------------------------------------------------------------------------------
(***************************************************************************)
(* Loading a swarm session from the database, and restarting the program.  *)
(***************************************************************************)
LoadSession ==
    /\ loads < MaxLoads
    /\ \E s \in 1..sessions :
          rehydrateTasks(s, {t \in Task : owner[t] = s /\ dbTask[t] # NoRow}, dbTask)
    /\ loads' = loads + 1
    /\ UNCHANGED <<startVars, execVars, agentVars, dbVars, restarts>>

Restart ==
    /\ restarts < MaxRestarts
    /\ restarts' = restarts + 1
    /\ resetSwarm
    /\ starter' = "idle"
    /\ planSession' = 0
    /\ exec' = "idle"
    /\ execSession' = 0
    /\ verdict' = "completed"
    /\ phase' = [a \in Agent |-> IF phase[a] = "none" THEN "none" ELSE "done"]
    /\ aborted' = {}
    /\ snapshot' = [a \in Agent |-> 0]
    /\ outcome' = [a \in Agent |-> "pending"]
    /\ activeAgents' = [t \in Task |-> 0]
    /\ slots' = 0
    /\ UNCHANGED <<sessions, created, owner, planned, attempts, dbVars, loads>>

-------------------------------------------------------------------------------
Next ==
    \/ Start \/ InitDb \/ Researched \/ AddTask \/ SetPlan \/ StartFails
    \/ ApprovePlan \/ ExecStart \/ ExecRejected \/ Poll \/ WaitForCompletion
    \/ Synthesized \/ FinalSaved
    \/ \E a \in Agent : AgentStep(a)
    \/ PanelTick \/ Pause \/ Resume \/ PanelCancel \/ OrchestratorCancel
    \/ LoadSession \/ Restart

Spec == Init /\ [][Next]_vars

\* Timers fire and pending calls settle: the database and the models answer,
\* runAgent's rounds are bounded, acquire times out after a minute. Nothing is
\* assumed of the user.
Fairness ==
    /\ WF_vars(InitDb) /\ WF_vars(Researched) /\ WF_vars(SetPlan)
    /\ WF_vars(ExecStart \/ (exec = "starting" /\ ExecRejected))
    /\ WF_vars(Poll) /\ WF_vars(WaitForCompletion) /\ WF_vars(Synthesized)
    /\ WF_vars(FinalSaved \/ (exec = "final" /\ ExecRejected))
    /\ WF_vars(PanelTick)
    /\ \A a \in Agent : WF_vars(AgentStep(a))

FairSpec == Spec /\ Fairness

-------------------------------------------------------------------------------
(***************************************************************************)
(* Properties. RunningBound, SlotsMatchHolders and ImplementsSlotPool are  *)
(* of every behaviour, the others of those in which no session is loaded   *)
(* over a swarm (MaxLoads = 0).                                            *)
(***************************************************************************)
\* The agents that are still to write their task's status.
InCharge == {a \in Agent : phase[a] \in {"queued", "requeueWait", "working",
                                         "retryWait"}}

\* The agents between acquire and release.
Holders == {a \in Agent : phase[a] \in {"working", "retryWait", "saving"}}

\* processReadyTasks computes its free places from the store while agents of
\* this and of an earlier swarm come and go: no more than maxConcurrentAgents
\* tasks are ever shown running.
RunningBound == Cardinality(getRunningTasks) <= MaxConcurrentAgents

\* "tasks wait for prerequisite tasks before starting": once an agent was
\* started for a listed task, each dependency the plan gave it is completed,
\* and stays so through retries, cancellation and late agents.
DependencyOrder ==
    \A t \in tasks : attempts[t] > 0 =>
        \A d \in planned[t] : d \in tasks /\ taskStatus[d] = "completed"

\* A task that returns to pending for a retry is dispatched again while its
\* former agent still closes its terminal: never are two agents about to write
\* the status of one task.
OneAgentPerTask == \A a, b \in InCharge : a[1] = b[1] => a = b

\* No task is left running without an agent that will settle it: such a task
\* would hold a place, and the completion check, for ever.
RunningHasAgent == \A t \in getRunningTasks : \E a \in InCharge : a[1] = t

\* Each path through runAgent, a failed row among them, releases the rate
\* limiter's slot exactly when it acquired one, and no more slots are held than
\* the provider allows.
SlotsMatchHolders ==
    /\ slots = Cardinality(Holders)
    /\ slots <= SlotLimit

Waiting == {a \in Agent : phase[a] = "queued"}
Lanes == INSTANCE SlotPool WITH Client <- Agent, Limit <- SlotLimit,
                                holders <- Holders, waiting <- Waiting

\* To the limiter the agents are well-behaved clients: through retries, failed
\* rows, cancellation and a second swarm, an agent asks once, holds a lane only
\* after waiting for it, and gives back only a lane it holds. A restart resets
\* the pool (PoolImplemented).
ImplementsSlotPool == Lanes!Spec

\* The retry test reads the count of a snapshot and updateTaskError adds to
\* that of the store: together they start at most maxRetries agents for a task.
AttemptsBounded == \A t \in Task : attempts[t] <= MaxRetries

\* The final status of a swarm that nobody cancelled is the verdict over tasks
\* that are all settled.
FinalVerdictSound ==
    exec = "final" /\ execSession = sessionId /\ ~cancelRequested
        => AllDone(tasks, taskStatus) /\ verdict = Verdict(tasks, taskStatus)

\* A task that completed, failed or awaits the user keeps that status as long
\* as it is listed, whatever late agents, retries and cancellations do.
SettledIsFinal ==
    [][\A t \in tasks \cap tasks' :
           taskStatus[t] \in {"completed", "failed", "awaiting_input"}
               => taskStatus'[t] = taskStatus[t]]_vars

\* The executor of a swarm starts agents only for its approved plan, and only
\* while that is neither paused nor cancelled, though processReadyTasks never
\* looks at planApproved.
DispatchOnlyApproved ==
    [][attempts' # attempts /\ execSession = sessionId
         => planApproved /\ ~cancelRequested /\ status # "paused"]_vars

\* Every agent that is started ends, whatever becomes of the swarm.
AgentsEnd == \A a \in Agent : phase[a] \notin {"none", "done"} ~> phase[a] = "done"

\* A cancelled swarm gets its final status: the completion check sees "any
\* mode -- graceful or immediate".
CancelSettles == (exec # "idle" /\ cancelRequested) ~> exec = "idle"

\* What keeps a swarm from settling by itself.
Held ==
    \/ status = "paused"
    \/ \E t \in tasks : \/ taskStatus[t] \in {"failed", "cancelled", "awaiting_input"}
                        \/ Unresolved \in dependencies[t]

\* A swarm that is polling settles, unless it is paused, a task failed or
\* awaits the user, or the planner named a task that does not exist.
PollingSettles == exec = "polling" ~> (exec = "idle" \/ Held)

===============================================================================
