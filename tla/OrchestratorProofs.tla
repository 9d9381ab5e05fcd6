-------------------------- MODULE OrchestratorProofs --------------------------
(***************************************************************************)
(* Theorems about the swarm orchestrator, for every number of tasks,       *)
(* agents, retries, swarms, loads and restarts.                            *)
(***************************************************************************)
EXTENDS Orchestrator, FiniteSetTheorems, FunctionTheorems, TLAPS

-------------------------------------------------------------------------------
(***************************************************************************)
(* Type correctness: first the operations of the store, then those the     *)
(* orchestrator's actions share, then one step for each action.            *)
(***************************************************************************)
LEMMA StoreTypeInit == StoreInit => StoreTypeOK
<1> SUFFICES ASSUME StoreInit PROVE StoreTypeOK
  OBVIOUS
<1>1. /\ isActive \in BOOLEAN
      /\ plan \in BOOLEAN
      /\ planApproved \in BOOLEAN
      /\ cancelMode \in {"none", "graceful", "immediate"}
      /\ status \in SwarmStatus
      /\ tasks \subseteq Task
  BY DEF StoreInit, SwarmStatus
<1>2. /\ taskStatus \in [Task -> TaskStatus]
      /\ retryCount \in [Task -> Nat]
      /\ dependencies \in [Task -> SUBSET (Task \cup {Unresolved})]
  BY DEF StoreInit, TaskStatus
<1>3. sessionId \in 0..MaxSessions
  BY SessionAssumption DEF StoreInit
<1> QED
  BY <1>1, <1>2, <1>3 DEF StoreTypeOK

LEMMA TypeInit == Init => TypeOK
<1> SUFFICES ASSUME Init PROVE TypeOK
  OBVIOUS
<1>1. StoreTypeOK
  BY StoreTypeInit DEF Init
<1>2. StartTypeOK
  BY TaskAssumption, SessionAssumption DEF Init, StartTypeOK
<1>3. ExecTypeOK
  BY SessionAssumption DEF Init, ExecTypeOK
<1>4. AgentTypeOK
  <2>1. phase \in [Agent -> Phase] /\ outcome \in [Agent -> TaskStatus]
    BY DEF Init, Phase, TaskStatus
  <2> QED
    BY <2>1, OrchestratorAssumption DEF Init, AgentTypeOK
<1>5. DbTypeOK
  BY DEF Init, DbTypeOK
<1>6. loads \in 0..MaxLoads /\ restarts \in 0..MaxRestarts
  BY OrchestratorAssumption DEF Init
<1> QED
  BY <1>1, <1>2, <1>3, <1>4, <1>5, <1>6 DEF TypeOK

\* A status computed by updateStats is a swarm status.
LEMMA StatusAfterStatsType ==
  ASSUME NEW list, NEW st, NEW old \in SwarmStatus
  PROVE  StatusAfterStats(list, st, old) \in SwarmStatus
BY DEF Verdict, StatusAfterStats, SwarmStatus

LEMMA VerdictType ==
  ASSUME NEW list, NEW st
  PROVE  Verdict(list, st) \in {"completed", "failed"}
BY DEF Verdict

\* The operations on a running swarm's tasks.
LEMMA UpdateTaskErrorType ==
  ASSUME StoreTypeOK, NEW t \in Task, updateTaskError(t)
  PROVE  retryCount' \in [Task -> Nat]
BY DEF StoreTypeOK, updateTaskError

LEMMA UpdateTaskStatusType ==
  ASSUME StoreTypeOK, UNCHANGED planVars, retryCount' \in [Task -> Nat],
         NEW T, NEW st \in TaskStatus, updateTaskStatus(T, st)
  PROVE  StoreTypeOK'
<1>1. taskStatus' \in [Task -> TaskStatus]
  BY DEF StoreTypeOK, updateTaskStatus
<1>2. status' \in SwarmStatus
  BY StatusAfterStatsType DEF StoreTypeOK, updateTaskStatus, updateStats
<1> QED
  BY <1>1, <1>2 DEF StoreTypeOK, planVars

\* The operations on the swarm as a whole.
LEMMA SwarmOperationTypes ==
  ASSUME StoreTypeOK
  PROVE  /\ \A s \in 0..MaxSessions : startSwarm(s) => StoreTypeOK'
         /\ resetSwarm => StoreTypeOK'
         /\ \A st \in SwarmStatus : setStatus(st) => StoreTypeOK'
         /\ setPlan => StoreTypeOK'
         /\ approvePlan => StoreTypeOK'
         /\ \A mode \in {"graceful", "immediate"} :
               cancelSwarm(mode) => StoreTypeOK'
<1>1. ASSUME NEW s \in 0..MaxSessions, startSwarm(s) PROVE StoreTypeOK'
  <2>1. /\ status' \in SwarmStatus
        /\ tasks' \subseteq Task
    BY <1>1 DEF startSwarm, noTasks, SwarmStatus
  <2>2. /\ taskStatus' \in [Task -> TaskStatus]
        /\ retryCount' \in [Task -> Nat]
        /\ dependencies' \in [Task -> SUBSET (Task \cup {Unresolved})]
    BY <1>1 DEF startSwarm, noTasks, TaskStatus
  <2> QED
    BY <1>1, <2>1, <2>2 DEF StoreTypeOK, startSwarm
<1>2. ASSUME resetSwarm PROVE StoreTypeOK'
  <2>1. /\ status' \in SwarmStatus
        /\ tasks' \subseteq Task
        /\ sessionId' \in 0..MaxSessions
    BY <1>2, SessionAssumption DEF resetSwarm, noTasks, SwarmStatus
  <2>2. /\ taskStatus' \in [Task -> TaskStatus]
        /\ retryCount' \in [Task -> Nat]
        /\ dependencies' \in [Task -> SUBSET (Task \cup {Unresolved})]
    BY <1>2 DEF resetSwarm, noTasks, TaskStatus
  <2> QED
    BY <1>2, <2>1, <2>2 DEF StoreTypeOK, resetSwarm
<1>4. ASSUME NEW st \in SwarmStatus, setStatus(st) PROVE StoreTypeOK'
  BY <1>4 DEF StoreTypeOK, setStatus
<1>5. setPlan => StoreTypeOK'
  BY DEF StoreTypeOK, setPlan, SwarmStatus
<1>6. approvePlan => StoreTypeOK'
  BY DEF StoreTypeOK, approvePlan, SwarmStatus
<1>7. ASSUME NEW mode \in {"graceful", "immediate"}, cancelSwarm(mode)
      PROVE  StoreTypeOK'
  <2>1. taskStatus' \in [Task -> TaskStatus]
    BY <1>7 DEF StoreTypeOK, cancelSwarm, TaskStatus
  <2>2. status' \in SwarmStatus
    BY <1>7 DEF StoreTypeOK, cancelSwarm, SwarmStatus
  <2> QED
    BY <1>7, <2>1, <2>2 DEF StoreTypeOK, cancelSwarm
<1> QED
  BY <1>1, <1>2, <1>4, <1>5, <1>6, <1>7

LEMMA AddTaskType ==
  ASSUME StoreTypeOK, NEW t \in Task,
         NEW deps \in SUBSET (Task \cup {Unresolved}), addTask(t, deps),
         UNCHANGED <<isActive, sessionId, plan, planApproved, cancelMode>>
  PROVE  StoreTypeOK'
<1>1. /\ tasks' \subseteq Task
      /\ taskStatus' \in [Task -> TaskStatus]
  BY DEF StoreTypeOK, addTask, TaskStatus
<1>2. /\ retryCount' \in [Task -> Nat]
      /\ dependencies' \in [Task -> SUBSET (Task \cup {Unresolved})]
  BY DEF StoreTypeOK, addTask
<1>3. status' \in SwarmStatus
  BY StatusAfterStatsType DEF StoreTypeOK, addTask
<1> QED
  BY <1>1, <1>2, <1>3 DEF StoreTypeOK

LEMMA RehydrateTasksType ==
  ASSUME StoreTypeOK, NEW s \in 0..MaxSessions, NEW rows \in SUBSET Task,
         NEW rowStatus, \A t \in rows : rowStatus[t] \in TaskStatus,
         rehydrateTasks(s, rows, rowStatus)
  PROVE  StoreTypeOK'
<1>1. taskStatus' \in [Task -> TaskStatus]
  BY DEF StoreTypeOK, rehydrateTasks, rehydratedStatus, TaskStatus
<1>2. /\ retryCount' \in [Task -> Nat]
      /\ dependencies' \in [Task -> SUBSET (Task \cup {Unresolved})]
  BY DEF StoreTypeOK, rehydrateTasks
<1>3. status' \in SwarmStatus /\ isActive' \in BOOLEAN
  BY DEF rehydrateTasks, SwarmStatus
<1> QED
  BY <1>1, <1>2, <1>3 DEF StoreTypeOK, rehydrateTasks

LEMMA TaskFinite ==
  IsFiniteSet(Task) /\ \A S \in SUBSET Task : IsFiniteSet(S)
<1>1. IsFiniteSet(Task)
  BY FS_Interval, TaskAssumption DEF Task
<1> QED
  BY <1>1, FS_Subset

\* Dispatch, cleanup and the steps an agent's paths share.
LEMMA ProcessReadyTasksType ==
  ASSUME TypeOK, processReadyTasks
  PROVE  StoreTypeOK' /\ AgentTypeOK'
<1>1. CASE UNCHANGED <<storeVars, agentVars>>
  BY <1>1 DEF TypeOK, StoreTypeOK, AgentTypeOK, storeVars, agentVars
<1>2. CASE ~UNCHANGED <<storeVars, agentVars>>
  <2>0. PICK S \in SUBSET getReadyTasks : \E G \in SUBSET S : startAgents(S, G)
    BY <1>2 DEF processReadyTasks
  <2>1. PICK G \in SUBSET S : startAgents(S, G)
    BY <2>0
  <2>2. S \subseteq Task
    BY <2>1 DEF TypeOK, StoreTypeOK, getReadyTasks, getTasksByStatus
  <2>3. StoreTypeOK'
    BY <2>1, UpdateTaskStatusType DEF TypeOK, StoreTypeOK, startAgents, TaskStatus
  <2>4. /\ phase' \in [Agent -> Phase]
        /\ snapshot' \in [Agent -> Nat]
    BY <2>1 DEF TypeOK, StoreTypeOK, AgentTypeOK, startAgents, Agent, Phase
  <2>5. /\ attempts' \in [Task -> 0..MaxAttempts]
        /\ activeAgents' \in [Task -> 0..MaxAttempts]
    BY <2>1, <2>2, OrchestratorAssumption DEF TypeOK, AgentTypeOK, startAgents
  <2>6. slots' \in Nat
    <3>1. IsFiniteSet(G)
      BY <2>1, <2>2, TaskFinite
    <3> QED
      BY <2>1, <3>1, FS_CardinalityType DEF TypeOK, AgentTypeOK, startAgents
  <2> QED
    BY <2>1, <2>3, <2>4, <2>5, <2>6 DEF TypeOK, AgentTypeOK, startAgents
<1> QED
  BY <1>1, <1>2

LEMMA CleanupType ==
  ASSUME AgentTypeOK, cleanup
  PROVE  AgentTypeOK'
BY OrchestratorAssumption DEF AgentTypeOK, cleanup

LEMMA AgentEndsType ==
  ASSUME AgentTypeOK, NEW a \in Agent
  PROVE  /\ agentEnds(a) => /\ phase' \in [Agent -> Phase]
                            /\ activeAgents' \in [Task -> 0..MaxAttempts]
         /\ releaseAndClose(a) => /\ phase' \in [Agent -> Phase]
                                  /\ activeAgents' \in [Task -> 0..MaxAttempts]
                                  /\ slots' \in Nat
<1>1. ASSUME agentEnds(a)
      PROVE  /\ phase' \in [Agent -> Phase]
             /\ activeAgents' \in [Task -> 0..MaxAttempts]
  <2>1. 0 \in 0..MaxAttempts /\ "done" \in Phase
    BY OrchestratorAssumption DEF Phase
  <2>2. phase' = [phase EXCEPT ![a] = "done"]
    BY <1>1 DEF agentEnds
  <2>3. activeAgents' = [activeAgents EXCEPT ![a[1]] = 0]
    BY <1>1 DEF agentEnds
  <2> QED
    BY <2>1, <2>2, <2>3 DEF AgentTypeOK
<1>2. ASSUME releaseAndClose(a)
      PROVE  /\ phase' \in [Agent -> Phase]
             /\ activeAgents' \in [Task -> 0..MaxAttempts]
             /\ slots' \in Nat
  BY <1>1, <1>2 DEF AgentTypeOK, releaseAndClose, Phase
<1> QED
  BY <1>1, <1>2

\* What an action leaves alone keeps its type.
LEMMA TypeUnchanged ==
  ASSUME TypeOK
  PROVE  /\ UNCHANGED storeVars => StoreTypeOK'
         /\ UNCHANGED startVars => StartTypeOK'
         /\ UNCHANGED execVars  => ExecTypeOK'
         /\ UNCHANGED agentVars => AgentTypeOK'
         /\ UNCHANGED dbVars    => DbTypeOK'
         /\ UNCHANGED boundVars => /\ loads' \in 0..MaxLoads
                                   /\ restarts' \in 0..MaxRestarts
<1>1. UNCHANGED storeVars => StoreTypeOK'
  BY DEF TypeOK, StoreTypeOK, storeVars
<1>2. UNCHANGED startVars => StartTypeOK'
  BY DEF TypeOK, StartTypeOK, startVars
<1>3. UNCHANGED execVars => ExecTypeOK'
  BY DEF TypeOK, ExecTypeOK, execVars
<1>4. UNCHANGED agentVars => AgentTypeOK'
  BY DEF TypeOK, AgentTypeOK, agentVars
<1>5. UNCHANGED dbVars => DbTypeOK'
  BY DEF TypeOK, DbTypeOK, dbVars
<1>6. UNCHANGED boundVars => loads' \in 0..MaxLoads /\ restarts' \in 0..MaxRestarts
  BY DEF TypeOK, boundVars
<1> QED
  BY <1>1, <1>2, <1>3, <1>4, <1>5, <1>6

LEMMA StartSteps ==
  ASSUME TypeOK,
         Start \/ InitDb \/ Researched \/ AddTask \/ SetPlan \/ StartFails
  PROVE  TypeOK'
<1>1. CASE Start
  <2>1. StoreTypeOK'
    BY <1>1, SwarmOperationTypes, SessionAssumption
       DEF TypeOK, StartTypeOK, Start
  <2>2. StartTypeOK'
    BY <1>1, SessionAssumption DEF TypeOK, StartTypeOK, Start
  <2> QED
    BY <1>1, <2>1, <2>2, TypeUnchanged DEF TypeOK, Start
<1>2. CASE InitDb
  <2>1. StoreTypeOK'
    BY <1>2, SwarmOperationTypes DEF TypeOK, InitDb, SwarmStatus
  <2>2. StartTypeOK'
    BY <1>2 DEF TypeOK, StartTypeOK, InitDb
  <2>3. DbTypeOK'
    BY <1>2 DEF TypeOK, DbTypeOK, InitDb, SwarmStatus
  <2> QED
    BY <1>2, <2>1, <2>2, <2>3, TypeUnchanged DEF TypeOK, InitDb
<1>3. CASE Researched
  <2>1. StoreTypeOK'
    BY <1>3, SwarmOperationTypes DEF TypeOK, Researched, SwarmStatus
  <2>2. StartTypeOK'
    BY <1>3 DEF TypeOK, StoreTypeOK, StartTypeOK, Researched
  <2>3. DbTypeOK'
    BY <1>3 DEF TypeOK, DbTypeOK, Researched, SwarmStatus
  <2> QED
    BY <1>3, <2>1, <2>2, <2>3, TypeUnchanged DEF TypeOK, Researched
<1>4. CASE AddTask
  <2>1. created + 1 \in Task
    BY <1>4, TaskAssumption DEF TypeOK, StartTypeOK, AddTask, Task
  <2>2. PlanTasks \subseteq Task
    BY TaskAssumption DEF TypeOK, StartTypeOK, PlanTasks, Task
  <2>3. PICK deps \in SUBSET (PlanTasks \cup {Unresolved}) :
           /\ addTask(created + 1, deps)
           /\ planned' = [planned EXCEPT ![created + 1] = deps]
    BY <1>4 DEF AddTask
  <2>4. StoreTypeOK'
    BY <1>4, <2>1, <2>2, <2>3, AddTaskType DEF TypeOK, AddTask
  <2>5. StartTypeOK'
    BY <1>4, <2>1, <2>2, <2>3, TaskAssumption
       DEF TypeOK, StartTypeOK, AddTask, Task
  <2>6. DbTypeOK'
    BY <1>4, <2>1 DEF TypeOK, DbTypeOK, AddTask, TaskStatus
  <2> QED
    BY <1>4, <2>4, <2>5, <2>6, TypeUnchanged DEF TypeOK, AddTask
<1>5. CASE SetPlan
  <2>1. StoreTypeOK'
    BY <1>5, SwarmOperationTypes DEF TypeOK, SetPlan
  <2>2. StartTypeOK'
    BY <1>5 DEF TypeOK, StartTypeOK, SetPlan
  <2> QED
    BY <1>5, <2>1, <2>2, TypeUnchanged DEF TypeOK, SetPlan
<1>6. CASE StartFails
  <2>1. StoreTypeOK'
    BY <1>6, SwarmOperationTypes DEF TypeOK, StartFails
  <2>2. StartTypeOK'
    BY <1>6 DEF TypeOK, StartTypeOK, StartFails
  <2>3. DbTypeOK'
    BY <1>6 DEF TypeOK, DbTypeOK, StartFails, SwarmStatus
  <2> QED
    BY <1>6, <2>1, <2>2, <2>3, TypeUnchanged DEF TypeOK, StartFails
<1> QED
  BY <1>1, <1>2, <1>3, <1>4, <1>5, <1>6

LEMMA ExecSteps ==
  ASSUME TypeOK,
         \/ ApprovePlan \/ ExecStart \/ ExecRejected \/ Poll
         \/ WaitForCompletion \/ Synthesized \/ FinalSaved
  PROVE  TypeOK'
<1>0. ASSUME chooseVerdict PROVE StoreTypeOK' /\ verdict' \in {"completed", "failed"}
  BY <1>0, VerdictType, SwarmOperationTypes DEF TypeOK, chooseVerdict, SwarmStatus
<1>1. CASE ApprovePlan
  <2>1. StoreTypeOK'
    BY <1>1, SwarmOperationTypes DEF TypeOK, ApprovePlan
  <2>2. ExecTypeOK'
    BY <1>1 DEF TypeOK, StoreTypeOK, ExecTypeOK, ApprovePlan
  <2> QED
    BY <1>1, <2>1, <2>2, TypeUnchanged DEF TypeOK, ApprovePlan
<1>2. CASE ExecStart
  <2>1. StoreTypeOK' /\ AgentTypeOK'
    BY <1>2, ProcessReadyTasksType DEF ExecStart
  <2>2. ExecTypeOK'
    BY <1>2 DEF TypeOK, ExecTypeOK, ExecStart
  <2>3. DbTypeOK'
    BY <1>2 DEF TypeOK, DbTypeOK, ExecStart, SwarmStatus
  <2> QED
    BY <1>2, <2>1, <2>2, <2>3, TypeUnchanged DEF TypeOK, ExecStart
<1>3. CASE ExecRejected
  <2>1. StoreTypeOK'
    BY <1>3, SwarmOperationTypes DEF TypeOK, ExecRejected
  <2>2. ExecTypeOK'
    BY <1>3 DEF TypeOK, ExecTypeOK, ExecRejected
  <2> QED
    BY <1>3, <2>1, <2>2, TypeUnchanged DEF TypeOK, ExecRejected
<1>4. CASE Poll
  <2>1. StoreTypeOK' /\ AgentTypeOK'
    BY <1>4, ProcessReadyTasksType DEF Poll
  <2> QED
    BY <1>4, <2>1, TypeUnchanged DEF TypeOK, Poll
<1>5. CASE WaitForCompletion
  <2>1. AgentTypeOK'
    BY <1>5, CleanupType DEF TypeOK, WaitForCompletion
  <2>2. StoreTypeOK' /\ ExecTypeOK'
    <3>1. CASE chooseVerdict
      BY <1>5, <1>0, <3>1 DEF TypeOK, ExecTypeOK, WaitForCompletion, chooseVerdict
    <3>2. CASE ~chooseVerdict
      BY <1>5, <3>2, SwarmOperationTypes
         DEF TypeOK, ExecTypeOK, WaitForCompletion, SwarmStatus
    <3> QED
      BY <3>1, <3>2
  <2> QED
    BY <1>5, <2>1, <2>2, TypeUnchanged DEF TypeOK, WaitForCompletion
<1>6. CASE Synthesized
  <2>1. StoreTypeOK' /\ ExecTypeOK'
    BY <1>6, <1>0 DEF TypeOK, ExecTypeOK, Synthesized, chooseVerdict
  <2>2. DbTypeOK'
    BY <1>6 DEF TypeOK, DbTypeOK, Synthesized, SwarmStatus
  <2> QED
    BY <1>6, <2>1, <2>2, TypeUnchanged DEF TypeOK, Synthesized
<1>7. CASE FinalSaved
  <2>1. ExecTypeOK'
    BY <1>7 DEF TypeOK, ExecTypeOK, FinalSaved
  <2>2. DbTypeOK'
    BY <1>7 DEF TypeOK, ExecTypeOK, DbTypeOK, FinalSaved, SwarmStatus
  <2> QED
    BY <1>7, <2>1, <2>2, TypeUnchanged DEF TypeOK, FinalSaved
<1> QED
  BY <1>1, <1>2, <1>3, <1>4, <1>5, <1>6, <1>7

LEMMA AgentSteps ==
  ASSUME TypeOK, NEW a \in Agent, AgentStep(a)
  PROVE  TypeOK'
<1>0. a[1] \in Task
  BY DEF Agent
<1>00. ASSUME UNCHANGED retryCount PROVE retryCount' \in [Task -> Nat]
  BY <1>00 DEF TypeOK, StoreTypeOK
<1>1. CASE Acquired(a)
  <2>1. AgentTypeOK'
    BY <1>1 DEF TypeOK, AgentTypeOK, Acquired, Phase
  <2> QED
    BY <1>1, <2>1, TypeUnchanged DEF TypeOK, Acquired
<1>2. CASE AcquireTimeout(a)
  <2>1. retryCount' \in [Task -> Nat]
    BY <1>0, <1>2, UpdateTaskErrorType DEF TypeOK, AcquireTimeout
  <2>2. CASE mayRetry(a)
    <3>1. StoreTypeOK'
      BY <1>2, <2>1, <2>2 DEF TypeOK, StoreTypeOK, AcquireTimeout, planVars
    <3>2. AgentTypeOK'
      BY <1>2, <2>2 DEF TypeOK, AgentTypeOK, AcquireTimeout, Phase
    <3> QED
      BY <1>2, <3>1, <3>2, TypeUnchanged DEF TypeOK, AcquireTimeout
  <2>3. CASE ~mayRetry(a)
    <3>1. StoreTypeOK'
      BY <1>2, <2>1, <2>3, UpdateTaskStatusType
         DEF TypeOK, AcquireTimeout, TaskStatus
    <3>2. AgentTypeOK'
      BY <1>2, <2>3, AgentEndsType DEF TypeOK, AgentTypeOK, AcquireTimeout
    <3> QED
      BY <1>2, <3>1, <3>2, TypeUnchanged DEF TypeOK, AcquireTimeout
  <2> QED
    BY <2>2, <2>3
<1>3. CASE BackoffEnds(a)
  <2>1. StoreTypeOK'
    BY <1>3, <1>00, UpdateTaskStatusType DEF TypeOK, BackoffEnds, TaskStatus
  <2>2. AgentTypeOK'
    BY <1>3, AgentEndsType DEF TypeOK, AgentTypeOK, BackoffEnds
  <2> QED
    BY <1>3, <2>1, <2>2, TypeUnchanged DEF TypeOK, BackoffEnds
<1>4. CASE AgentFinishes(a)
  <2>1. PICK st \in {"completed", "awaiting_input", "failed"} :
           /\ updateTaskStatus({a[1]}, st)
           /\ outcome' = [outcome EXCEPT ![a] = st]
    BY <1>4 DEF AgentFinishes
  <2>2. st \in TaskStatus
    BY DEF TaskStatus
  <2>3. StoreTypeOK'
    BY <1>4, <1>00, <2>1, <2>2, UpdateTaskStatusType DEF TypeOK, AgentFinishes
  <2>4. AgentTypeOK'
    BY <1>4, <2>1, <2>2 DEF TypeOK, AgentTypeOK, AgentFinishes, Phase
  <2> QED
    BY <1>4, <2>3, <2>4, TypeUnchanged DEF TypeOK, AgentFinishes
<1>5. CASE AgentRateLimited(a)
  <2>1. retryCount' \in [Task -> Nat]
    BY <1>0, <1>5, UpdateTaskErrorType DEF TypeOK, AgentRateLimited
  <2>2. StoreTypeOK'
    BY <1>5, <2>1 DEF TypeOK, StoreTypeOK, AgentRateLimited, planVars
  <2>3. AgentTypeOK'
    BY <1>5 DEF TypeOK, AgentTypeOK, AgentRateLimited, Phase
  <2> QED
    BY <1>5, <2>2, <2>3, TypeUnchanged DEF TypeOK, AgentRateLimited
<1>6. CASE AgentThrows(a)
  <2>1. retryCount' \in [Task -> Nat]
    BY <1>0, <1>6, UpdateTaskErrorType DEF TypeOK, AgentThrows
  <2>2. StoreTypeOK'
    BY <1>6, <2>1, UpdateTaskStatusType DEF TypeOK, AgentThrows, TaskStatus
  <2>3. AgentTypeOK'
    BY <1>6 DEF TypeOK, AgentTypeOK, AgentThrows, Phase, TaskStatus
  <2> QED
    BY <1>6, <2>2, <2>3, TypeUnchanged DEF TypeOK, AgentThrows
<1>7. CASE AgentSaved(a)
  <2>1. AgentTypeOK'
    BY <1>7, AgentEndsType DEF TypeOK, AgentTypeOK, AgentSaved
  <2>2. DbTypeOK'
    BY <1>7 DEF TypeOK, AgentTypeOK, DbTypeOK, AgentSaved
  <2> QED
    BY <1>7, <2>1, <2>2, TypeUnchanged DEF TypeOK, AgentSaved
<1>8. CASE TerminalClosed(a)
  <2>1. AgentTypeOK'
    BY <1>8, AgentEndsType DEF TypeOK, AgentTypeOK, TerminalClosed
  <2> QED
    BY <1>8, <2>1, TypeUnchanged DEF TypeOK, TerminalClosed
<1> QED
  BY <1>1, <1>2, <1>3, <1>4, <1>5, <1>6, <1>7, <1>8 DEF AgentStep

LEMMA PanelSteps ==
  ASSUME TypeOK,
         \/ PanelTick \/ Pause \/ Resume \/ PanelCancel \/ OrchestratorCancel
         \/ LoadSession \/ Restart
  PROVE  TypeOK'
<1>1. CASE PanelTick
  <2>1. StoreTypeOK'
    BY <1>1, StatusAfterStatsType
       DEF TypeOK, StoreTypeOK, PanelTick, updateStats, planVars
  <2> QED
    BY <1>1, <2>1, TypeUnchanged DEF TypeOK, PanelTick
<1>2. CASE Pause
  <2>1. StoreTypeOK'
    BY <1>2, SwarmOperationTypes DEF TypeOK, Pause, pauseSwarm, SwarmStatus
  <2> QED
    BY <1>2, <2>1, TypeUnchanged DEF TypeOK, Pause
<1>3. CASE Resume
  <2>1. StoreTypeOK'
    BY <1>3, SwarmOperationTypes DEF TypeOK, Resume, resumeSwarm, SwarmStatus
  <2> QED
    BY <1>3, <2>1, TypeUnchanged DEF TypeOK, Resume
<1>4. CASE PanelCancel
  <2>1. StoreTypeOK'
    BY <1>4, SwarmOperationTypes DEF TypeOK, PanelCancel
  <2> QED
    BY <1>4, <2>1, TypeUnchanged DEF TypeOK, PanelCancel
<1>5. CASE OrchestratorCancel
  <2>1. StoreTypeOK'
    BY <1>5, SwarmOperationTypes DEF TypeOK, OrchestratorCancel
  <2>2. ExecTypeOK'
    BY <1>5 DEF TypeOK, ExecTypeOK, OrchestratorCancel
  <2>3. AgentTypeOK'
    BY <1>5, CleanupType DEF TypeOK, OrchestratorCancel
  <2> QED
    BY <1>5, <2>1, <2>2, <2>3, TypeUnchanged DEF TypeOK, OrchestratorCancel
<1>6. CASE LoadSession
  <2>1. PICK s \in 1..sessions :
           rehydrateTasks(s, {t \in Task : owner[t] = s /\ dbTask[t] # NoRow}, dbTask)
    BY <1>6 DEF LoadSession
  <2>2. s \in 0..MaxSessions
    BY <2>1, SessionAssumption DEF TypeOK, StartTypeOK
  <2>3. StoreTypeOK'
    BY <2>1, <2>2, RehydrateTasksType DEF TypeOK, DbTypeOK
  <2>4. loads' \in 0..MaxLoads /\ restarts' \in 0..MaxRestarts
    BY <1>6, OrchestratorAssumption DEF TypeOK, LoadSession
  <2> QED
    BY <1>6, <2>3, <2>4, TypeUnchanged DEF TypeOK, LoadSession
<1>7. CASE Restart
  <2>1. StoreTypeOK'
    BY <1>7, SwarmOperationTypes DEF TypeOK, Restart
  <2>2. StartTypeOK'
    BY <1>7, SessionAssumption DEF TypeOK, StartTypeOK, Restart
  <2>3. ExecTypeOK'
    BY <1>7, SessionAssumption DEF ExecTypeOK, Restart
  <2>4. AgentTypeOK'
    <3>1. phase' \in [Agent -> Phase] /\ outcome' \in [Agent -> TaskStatus]
      BY <1>7 DEF Restart, Phase, TaskStatus
    <3>2. snapshot' \in [Agent -> Nat]
      BY <1>7 DEF Restart
    <3>3. activeAgents' \in [Task -> 0..MaxAttempts]
      BY <1>7, OrchestratorAssumption DEF Restart
    <3> QED
      BY <1>7, <3>1, <3>2, <3>3 DEF TypeOK, AgentTypeOK, Restart
  <2>5. loads' \in 0..MaxLoads /\ restarts' \in 0..MaxRestarts
    BY <1>7, OrchestratorAssumption DEF TypeOK, Restart
  <2> QED
    BY <1>7, <2>1, <2>2, <2>3, <2>4, <2>5, TypeUnchanged DEF TypeOK, Restart
<1> QED
  BY <1>1, <1>2, <1>3, <1>4, <1>5, <1>6, <1>7

LEMMA TypeNext == TypeOK /\ [Next]_vars => TypeOK'
<1> SUFFICES ASSUME TypeOK, [Next]_vars PROVE TypeOK'
  OBVIOUS
<1>1. CASE UNCHANGED vars
  BY <1>1, TypeUnchanged DEF TypeOK, vars
<1>2. CASE Next
  BY <1>2, StartSteps, ExecSteps, AgentSteps, PanelSteps DEF Next
<1> QED
  BY <1>1, <1>2

\* Whatever callbacks, timers and clicks run in whatever order, each field of
\* the store, of the orchestrator and of the rows holds a value of its type:
\* in particular a loaded list never has a status that no task can have.
THEOREM TypeCorrect == Spec => []TypeOK
BY TypeInit, TypeNext, PTL DEF Spec

-------------------------------------------------------------------------------
(***************************************************************************)
(* The slots of the rate limiter. The count goes up where acquire returns  *)
(* and down in the finally block of runAgent; that it equals the number of *)
(* agents in between needs that an agent which is started is a new one.    *)
(***************************************************************************)
\* No agent exists beyond the attempts made for its task.
AgentsFresh == \A a \in Agent : a[2] > attempts[a[1]] => phase[a] = "none"

SlotInv == TypeOK /\ AgentsFresh /\ SlotsMatchHolders

HolderPhase == {"working", "retryWait", "saving"}

LEMMA AgentFinite == IsFiniteSet(Agent) /\ \A S \in SUBSET Agent : IsFiniteSet(S)
<1>1. IsFiniteSet(1..MaxAttempts)
  BY FS_Interval, OrchestratorAssumption
<1>2. IsFiniteSet(Agent)
  BY <1>1, TaskFinite, FS_Product DEF Agent
<1> QED
  BY <1>2, FS_Subset

LEMMA HoldersFinite == IsFiniteSet(Holders) /\ Cardinality(Holders) \in Nat
BY AgentFinite, FS_CardinalityType DEF Holders

LEMMA SlotInit == Init => SlotInv
<1> SUFFICES ASSUME Init PROVE SlotInv
  OBVIOUS
<1>1. TypeOK
  BY TypeInit
<1>2. AgentsFresh
  BY DEF Init, AgentsFresh
<1>3. Holders = {}
  BY DEF Init, Holders
<1>4. SlotsMatchHolders
  BY <1>3, FS_EmptySet, OrchestratorAssumption DEF Init, SlotsMatchHolders
<1> QED
  BY <1>1, <1>2, <1>4 DEF SlotInv

\* One agent changes its phase: what becomes of the holders.
LEMMA HoldersChange ==
  ASSUME TypeOK, NEW a \in Agent, NEW p \in Phase,
         phase' = [phase EXCEPT ![a] = p]
  PROVE  Holders' = IF p \in HolderPhase THEN Holders \cup {a} ELSE Holders \ {a}
BY DEF TypeOK, AgentTypeOK, Holders, HolderPhase

\* An agent that does not start or stop holding leaves the count alone.
LEMMA SlotKept ==
  ASSUME SlotsMatchHolders, UNCHANGED slots, Holders' = Holders
  PROVE  SlotsMatchHolders'
BY DEF SlotsMatchHolders

LEMMA SlotGained ==
  ASSUME TypeOK, SlotsMatchHolders, NEW a \in Agent, a \notin Holders,
         slots < SlotLimit, slots' = slots + 1, Holders' = Holders \cup {a}
  PROVE  SlotsMatchHolders'
<1>1. Cardinality(Holders \cup {a}) = Cardinality(Holders) + 1
  BY HoldersFinite, FS_AddElement
<1> QED
  BY <1>1, HoldersFinite, OrchestratorAssumption DEF SlotsMatchHolders

LEMMA SlotReleased ==
  ASSUME TypeOK, SlotsMatchHolders, NEW a \in Holders, releaseAndClose(a)
  PROVE  SlotsMatchHolders'
<1>1. PICK p \in {"closing", "done"} : phase' = [phase EXCEPT ![a] = p]
  BY DEF releaseAndClose, agentEnds
<1>2. a \in Agent /\ p \in Phase /\ p \notin HolderPhase
  BY <1>1 DEF Holders, Phase, HolderPhase
<1>3. Holders' = Holders \ {a}
  BY <1>1, <1>2, HoldersChange
<1>4. Cardinality(Holders \ {a}) = Cardinality(Holders) - 1
  BY HoldersFinite, FS_RemoveElement
<1>5. Cardinality(Holders) # 0
  BY HoldersFinite, FS_EmptySet
<1>6. slots' = slots - 1
  BY <1>5, HoldersFinite DEF releaseAndClose, SlotsMatchHolders
<1> QED
  BY <1>3, <1>4, <1>6, HoldersFinite, OrchestratorAssumption DEF SlotsMatchHolders

LEMMA DispatchSlots ==
  ASSUME SlotInv, NEW S \in SUBSET Task, NEW G \in SUBSET S, startAgents(S, G)
  PROVE  AgentsFresh' /\ SlotsMatchHolders'
<1> DEFINE first == [t \in G |-> <<t, attempts[t] + 1>>]
           New == {<<t, attempts[t] + 1>> : t \in G}
<1>1. \A t \in S : attempts[t] + 1 \in 1..MaxAttempts
  BY OrchestratorAssumption DEF SlotInv, TypeOK, AgentTypeOK, startAgents
<1>2. ASSUME NEW t \in S
      PROVE  /\ <<t, attempts[t] + 1>> \in Agent
             /\ phase[<<t, attempts[t] + 1>>] = "none"
  <2>1. <<t, attempts[t] + 1>> \in Agent
    BY <1>1 DEF Agent
  <2>2. attempts[t] + 1 > attempts[t]
    BY DEF SlotInv, TypeOK, AgentTypeOK
  <2> QED
    BY <2>1, <2>2 DEF SlotInv, AgentsFresh
<1>3. Holders' = Holders \cup New
  <2>1. ASSUME NEW a \in Agent
        PROVE  a \in Holders' <=> a \in Holders \/ a \in New
    <3>1. a = <<a[1], a[2]>>
      BY DEF Agent
    <3>2. CASE a[1] \in S /\ a[2] = attempts[a[1]] + 1
      <4>1. phase[a] = "none"
        BY <3>1, <3>2, <1>2
      <4>2. phase'[a] = IF a[1] \in G THEN "working" ELSE "queued"
        BY <3>2 DEF startAgents
      <4>3. a \in New <=> a[1] \in G
        BY <3>1, <3>2
      <4> QED
        BY <4>1, <4>2, <4>3 DEF Holders
    <3>3. CASE ~(a[1] \in S /\ a[2] = attempts[a[1]] + 1)
      <4>1. phase'[a] = phase[a]
        BY <3>3 DEF startAgents
      <4>2. a \notin New
        BY <3>1, <3>3
      <4> QED
        BY <4>1, <4>2 DEF Holders
    <3> QED
      BY <3>2, <3>3
  <2>2. New \subseteq Agent
    BY <1>2
  <2> HIDE DEF New
  <2> QED
    BY <2>1, <2>2 DEF Holders
<1>4. Cardinality(New) = Cardinality(G) /\ IsFiniteSet(New)
  <2>1. first \in [G -> New] /\ \A t, u \in G : first[t] = first[u] => t = u
    OBVIOUS
  <2>2. \A x \in New : \E t \in G : first[t] = x
    OBVIOUS
  <2>3. first \in Bijection(G, New)
    <3> HIDE DEF first, New
    <3> QED
      BY <2>1, <2>2, Fun_IsBij
  <2> QED
    BY <2>3, TaskFinite, FS_Bijection DEF ExistsBijection
<1>5. Holders \cap New = {}
  <2>1. ASSUME NEW x \in New PROVE x \notin Holders
    BY <1>2 DEF Holders
  <2> HIDE DEF New
  <2> QED
    BY <2>1
<1>6. Cardinality(Holders \cup New) = Cardinality(Holders) + Cardinality(New)
  <2> HIDE DEF New
  <2>1. Cardinality(Holders \cup New)
          = Cardinality(Holders) + Cardinality(New) - Cardinality(Holders \cap New)
    BY <1>4, HoldersFinite, FS_Union
  <2>2. Cardinality(G) \in Nat
    <3>1. G \in SUBSET Task
      OBVIOUS
    <3> QED
      BY <3>1, TaskFinite, FS_CardinalityType
  <2>3. Cardinality(Holders \cap New) = 0
    BY <1>5, FS_EmptySet
  <2> QED
    BY <1>4, <2>1, <2>2, <2>3, HoldersFinite
<1>7. SlotsMatchHolders'
  BY <1>3, <1>4, <1>6 DEF SlotInv, SlotsMatchHolders, startAgents
<1>8. AgentsFresh'
  BY <1>1 DEF SlotInv, AgentsFresh, TypeOK, AgentTypeOK, startAgents, Agent
<1> QED
  BY <1>7, <1>8

\* An action that changes no agent and no attempt changes nothing of this.
LEMMA SlotUnchanged ==
  ASSUME AgentsFresh, SlotsMatchHolders, UNCHANGED <<phase, attempts, slots>>
  PROVE  AgentsFresh' /\ SlotsMatchHolders'
BY DEF AgentsFresh, SlotsMatchHolders, Holders

LEMMA ProcessReadyTasksSlots ==
  ASSUME SlotInv, processReadyTasks
  PROVE  AgentsFresh' /\ SlotsMatchHolders'
<1>1. CASE UNCHANGED <<storeVars, agentVars>>
  BY <1>1, SlotUnchanged DEF SlotInv, agentVars
<1>2. CASE ~UNCHANGED <<storeVars, agentVars>>
  <2>1. PICK S \in SUBSET getReadyTasks : \E G \in SUBSET S : startAgents(S, G)
    BY <1>2 DEF processReadyTasks
  <2>2. PICK G \in SUBSET S : startAgents(S, G)
    BY <2>1
  <2>3. S \in SUBSET Task
    BY DEF SlotInv, TypeOK, StoreTypeOK, getReadyTasks, getTasksByStatus
  <2> QED
    BY <2>2, <2>3, DispatchSlots
<1> QED
  BY <1>1, <1>2

LEMMA AgentStepSlots ==
  ASSUME SlotInv, NEW a \in Agent, AgentStep(a)
  PROVE  AgentsFresh' /\ SlotsMatchHolders'
<1>1. /\ TypeOK /\ AgentsFresh /\ SlotsMatchHolders
  BY DEF SlotInv
<1>2. /\ phase[a] # "none"
      /\ UNCHANGED attempts
      /\ \E p \in Phase : phase' = [phase EXCEPT ![a] = p]
  BY DEF AgentStep, Acquired, AcquireTimeout, BackoffEnds, AgentFinishes,
         AgentRateLimited, AgentThrows, AgentSaved, TerminalClosed,
         releaseAndClose, agentEnds, Phase
<1>3. AgentsFresh'
  BY <1>1, <1>2 DEF AgentsFresh, TypeOK, AgentTypeOK
<1> SUFFICES SlotsMatchHolders'
  BY <1>3
<1>4. ASSUME NEW p \in Phase, phase' = [phase EXCEPT ![a] = p],
             a \in Holders <=> p \in HolderPhase, UNCHANGED slots
      PROVE  SlotsMatchHolders'
  <2>1. Holders' = Holders
    BY <1>1, <1>4, HoldersChange
  <2> QED
    BY <1>1, <1>4, <2>1, SlotKept
<1>5. CASE Acquired(a)
  <2>1. a \notin Holders /\ slots < SlotLimit /\ slots' = slots + 1
    BY <1>5 DEF Acquired, Holders
  <2>2. Holders' = Holders \cup {a}
    BY <1>1, <1>5, HoldersChange DEF Acquired, Phase, HolderPhase
  <2> QED
    BY <1>1, <2>1, <2>2, SlotGained
<1>6. CASE AcquireTimeout(a)
  <2>1. PICK p \in {"requeueWait", "done"} : phase' = [phase EXCEPT ![a] = p]
    BY <1>6 DEF AcquireTimeout, agentEnds
  <2>2. a \notin Holders /\ UNCHANGED slots
    BY <1>6 DEF AcquireTimeout, Holders
  <2>3. p \in Phase /\ p \notin HolderPhase
    BY DEF Phase, HolderPhase
  <2> QED
    BY <1>4, <2>1, <2>2, <2>3
<1>7. CASE BackoffEnds(a)
  <2>1. CASE phase[a] = "requeueWait"
    <3>1. /\ phase' = [phase EXCEPT ![a] = "done"]
          /\ a \notin Holders
          /\ UNCHANGED slots
      BY <1>7, <2>1 DEF BackoffEnds, agentEnds, Holders
    <3>2. "done" \in Phase /\ "done" \notin HolderPhase
      BY DEF Phase, HolderPhase
    <3> QED
      BY <1>4, <3>1, <3>2
  <2>2. CASE phase[a] # "requeueWait"
    <3>1. a \in Holders /\ releaseAndClose(a)
      BY <1>7, <2>2 DEF BackoffEnds, Holders
    <3> QED
      BY <1>1, <3>1, SlotReleased
  <2> QED
    BY <2>1, <2>2
<1>8. CASE AgentFinishes(a) \/ AgentRateLimited(a) \/ AgentThrows(a)
  <2>1. PICK p \in {"saving", "retryWait"} : phase' = [phase EXCEPT ![a] = p]
    BY <1>8 DEF AgentFinishes, AgentRateLimited, AgentThrows
  <2>2. a \in Holders /\ UNCHANGED slots
    BY <1>8 DEF AgentFinishes, AgentRateLimited, AgentThrows, Holders
  <2>3. p \in Phase /\ p \in HolderPhase
    BY DEF Phase, HolderPhase
  <2> QED
    BY <1>4, <2>1, <2>2, <2>3
<1>9. CASE AgentSaved(a)
  <2>1. a \in Holders /\ releaseAndClose(a)
    BY <1>9 DEF AgentSaved, Holders
  <2> QED
    BY <1>1, <2>1, SlotReleased
<1>10. CASE TerminalClosed(a)
  <2>1. phase' = [phase EXCEPT ![a] = "done"] /\ a \notin Holders /\ UNCHANGED slots
    BY <1>10 DEF TerminalClosed, agentEnds, Holders
  <2>2. "done" \in Phase /\ "done" \notin HolderPhase
    BY DEF Phase, HolderPhase
  <2> QED
    BY <1>4, <2>1, <2>2
<1> QED
  BY <1>5, <1>6, <1>7, <1>8, <1>9, <1>10 DEF AgentStep

LEMMA SlotNext == SlotInv /\ [Next]_vars => SlotInv'
<1> SUFFICES ASSUME SlotInv, [Next]_vars PROVE SlotInv'
  OBVIOUS
<1>1. /\ TypeOK /\ AgentsFresh /\ SlotsMatchHolders
  BY DEF SlotInv
<1>2. TypeOK'
  BY <1>1, TypeNext
<1>3. CASE UNCHANGED <<phase, attempts, slots>>
  BY <1>1, <1>2, <1>3, SlotUnchanged DEF SlotInv
<1>4. CASE ExecStart \/ Poll
  BY <1>2, <1>4, ProcessReadyTasksSlots DEF SlotInv, ExecStart, Poll
<1>5. CASE \E a \in Agent : AgentStep(a)
  BY <1>2, <1>5, AgentStepSlots DEF SlotInv
<1>6. CASE Restart
  <2>1. AgentsFresh'
    BY <1>1, <1>6 DEF AgentsFresh, Restart
  <2>2. Holders' = {}
    BY <1>6 DEF Holders, Restart
  <2>3. SlotsMatchHolders'
    BY <1>6, <2>2, FS_EmptySet, OrchestratorAssumption DEF SlotsMatchHolders, Restart
  <2> QED
    BY <1>2, <2>1, <2>3 DEF SlotInv
<1>7. CASE Start \/ InitDb \/ Researched \/ AddTask \/ SetPlan \/ StartFails
  BY <1>3, <1>7
     DEF Start, InitDb, Researched, AddTask, SetPlan, StartFails, agentVars
<1>8. CASE ApprovePlan \/ ExecRejected \/ WaitForCompletion \/ Synthesized \/ FinalSaved
  BY <1>3, <1>8
     DEF ApprovePlan, ExecRejected, WaitForCompletion, Synthesized, FinalSaved,
         cleanup, agentVars
<1>9. CASE \/ PanelTick \/ Pause \/ Resume \/ PanelCancel \/ OrchestratorCancel
           \/ LoadSession
  BY <1>3, <1>9
     DEF PanelTick, Pause, Resume, PanelCancel, OrchestratorCancel, LoadSession,
         cleanup, agentVars
<1>10. CASE UNCHANGED vars
  BY <1>3, <1>10 DEF vars, agentVars
<1> QED
  BY <1>4, <1>5, <1>6, <1>7, <1>8, <1>9, <1>10 DEF Next

\* Every path through runAgent -- success, failure, back-off, timeout, abort --
\* pairs the rate limiter's acquire with one release, so the limiter's count
\* is the number of agents between the two, and never above the limit.
THEOREM SlotsCorrect == Spec => []SlotsMatchHolders
<1>1. Spec => []SlotInv
  BY SlotInit, SlotNext, PTL DEF Spec
<1> QED
  BY <1>1, PTL DEF SlotInv

-------------------------------------------------------------------------------
(***************************************************************************)
(* The bound on running tasks. Only dispatch makes a task running, and it  *)
(* counts the running tasks in the same callback; a loaded list brings no  *)
(* running task because no row is ever marked running.                     *)
(***************************************************************************)
RowsNotRunning ==
    /\ \A t \in Task : dbTask[t] # "running"
    /\ \A a \in Agent : outcome[a] # "running"

RunningInv == TypeOK /\ RowsNotRunning /\ RunningBound

LEMMA RunningFinite ==
  ASSUME TypeOK
  PROVE  /\ getRunningTasks \in SUBSET Task
         /\ IsFiniteSet(getRunningTasks)
         /\ Cardinality(getRunningTasks) \in Nat
<1>1. getRunningTasks \in SUBSET Task
  BY DEF TypeOK, StoreTypeOK, getRunningTasks, getTasksByStatus
<1> QED
  BY <1>1, TaskFinite, FS_CardinalityType

LEMMA RunningInit == Init => RunningInv
<1> SUFFICES ASSUME Init PROVE RunningInv
  OBVIOUS
<1>1. getRunningTasks = {}
  BY DEF Init, StoreInit, getRunningTasks, getTasksByStatus
<1>2. RunningBound
  BY <1>1, FS_EmptySet, OrchestratorAssumption DEF RunningBound
<1>3. RowsNotRunning
  BY DEF Init, RowsNotRunning, NoRow
<1> QED
  BY <1>2, <1>3, TypeInit DEF RunningInv

LEMMA FewerRunning ==
  ASSUME RunningInv, getRunningTasks' \subseteq getRunningTasks
  PROVE  RunningBound'
<1>1. /\ Cardinality(getRunningTasks') <= Cardinality(getRunningTasks)
      /\ Cardinality(getRunningTasks') \in Nat
  BY RunningFinite, FS_Subset, FS_CardinalityType DEF RunningInv
<1> QED
  BY <1>1, RunningFinite, OrchestratorAssumption DEF RunningInv, RunningBound

LEMMA DispatchBound ==
  ASSUME RunningInv, ~nothingToStart, processReadyTasks
  PROVE  RunningBound'
<1>1. PICK S \in SUBSET getReadyTasks :
         tasksToStart(S) /\ \E G \in SUBSET S : startAgents(S, G)
  BY DEF processReadyTasks
<1>2. getRunningTasks' = getRunningTasks \cup S
  <2>1. S \subseteq tasks /\ S \subseteq Task /\ tasks \subseteq Task
    BY DEF RunningInv, TypeOK, StoreTypeOK, getReadyTasks, getTasksByStatus
  <2>2. UNCHANGED tasks /\ updateTaskStatus(S, "running")
    BY <1>1 DEF startAgents, planVars
  <2> QED
    BY <2>1, <2>2 DEF updateTaskStatus, getRunningTasks, getTasksByStatus
<1>3. IsFiniteSet(S) /\ Cardinality(S) \in Nat
  BY TaskFinite, FS_CardinalityType
     DEF RunningInv, TypeOK, StoreTypeOK, getReadyTasks, getTasksByStatus
<1>4. Cardinality(getRunningTasks \cup S)
        <= Cardinality(getRunningTasks) + Cardinality(S)
  <2>1. Cardinality(getRunningTasks \cap S) \in Nat
    BY <1>3, RunningFinite, FS_Intersection, FS_CardinalityType DEF RunningInv
  <2>2. Cardinality(getRunningTasks \cup S) = Cardinality(getRunningTasks)
          + Cardinality(S) - Cardinality(getRunningTasks \cap S)
    BY <1>3, RunningFinite, FS_Union DEF RunningInv
  <2> QED
    BY <1>3, <2>1, <2>2, RunningFinite DEF RunningInv
<1>5. /\ Cardinality(S) <= MaxConcurrentAgents - Cardinality(getRunningTasks)
      /\ Cardinality(getRunningTasks \cup S) \in Nat
  BY <1>1, <1>3, RunningFinite, FS_Union, FS_CardinalityType
     DEF RunningInv, tasksToStart, availableSlots
<1> QED
  BY <1>2, <1>3, <1>4, <1>5, RunningFinite, OrchestratorAssumption
     DEF RunningInv, RunningBound

LEMMA AgentStepRunning ==
  ASSUME RunningInv, NEW a \in Agent, AgentStep(a)
  PROVE  RowsNotRunning' /\ getRunningTasks' \subseteq getRunningTasks
<1>1. UNCHANGED tasks
  BY DEF AgentStep, Acquired, AcquireTimeout, BackoffEnds, AgentFinishes,
         AgentRateLimited, AgentThrows, AgentSaved, TerminalClosed, storeVars,
         planVars
<1>2. \/ UNCHANGED taskStatus
      \/ \E st \in TaskStatus \ {"running"} : updateTaskStatus({a[1]}, st)
  BY DEF AgentStep, Acquired, AcquireTimeout, BackoffEnds, AgentFinishes,
         AgentRateLimited, AgentThrows, AgentSaved, TerminalClosed, storeVars,
         TaskStatus
<1>3. getRunningTasks' \subseteq getRunningTasks
  BY <1>1, <1>2 DEF updateTaskStatus, getRunningTasks, getTasksByStatus,
                    RunningInv, TypeOK, StoreTypeOK
<1>4. \/ UNCHANGED outcome
      \/ \E st \in TaskStatus \ {"running"} : outcome' = [outcome EXCEPT ![a] = st]
  BY DEF AgentStep, Acquired, AcquireTimeout, BackoffEnds, AgentFinishes,
         AgentRateLimited, AgentThrows, AgentSaved, TerminalClosed, TaskStatus
<1>5. \/ UNCHANGED dbTask
      \/ dbTask' = [dbTask EXCEPT ![a[1]] = outcome[a]]
  BY DEF AgentStep, Acquired, AcquireTimeout, BackoffEnds, AgentFinishes,
         AgentRateLimited, AgentThrows, AgentSaved, TerminalClosed, dbVars
<1>6. RowsNotRunning'
  BY <1>4, <1>5 DEF RunningInv, RowsNotRunning, TypeOK, AgentTypeOK, DbTypeOK
<1> QED
  BY <1>3, <1>6

\* The store operations on the swarm as a whole set no task running.
LEMMA SwarmOperationsRunning ==
  /\ \A s : startSwarm(s) => getRunningTasks' = {}
  /\ resetSwarm => getRunningTasks' = {}
  /\ \A st : setStatus(st) => UNCHANGED getRunningTasks
  /\ setPlan \/ approvePlan => UNCHANGED getRunningTasks
  /\ \A mode : cancelSwarm(mode) /\ TypeOK
        => getRunningTasks' \subseteq getRunningTasks
<1>1. /\ \A s : startSwarm(s) => getRunningTasks' = {}
      /\ resetSwarm => getRunningTasks' = {}
  BY DEF startSwarm, resetSwarm, noTasks, getRunningTasks, getTasksByStatus
<1>2. /\ \A st : setStatus(st) => UNCHANGED getRunningTasks
      /\ setPlan \/ approvePlan => UNCHANGED getRunningTasks
  BY DEF setStatus, setPlan, approvePlan, getRunningTasks, getTasksByStatus
<1>3. ASSUME NEW mode, cancelSwarm(mode), TypeOK
      PROVE  getRunningTasks' \subseteq getRunningTasks
  BY <1>3 DEF cancelSwarm, getRunningTasks, getTasksByStatus, TypeOK, StoreTypeOK
<1> QED
  BY <1>1, <1>2, <1>3

LEMMA RunningNext == RunningInv /\ [Next]_vars => RunningInv'
<1> SUFFICES ASSUME RunningInv, [Next]_vars PROVE RunningInv'
  OBVIOUS
<1>1. TypeOK /\ TypeOK'
  BY TypeNext DEF RunningInv
<1>2. ASSUME RowsNotRunning', getRunningTasks' \subseteq getRunningTasks
      PROVE  RunningInv'
  BY <1>1, <1>2, FewerRunning DEF RunningInv
<1>3. ASSUME UNCHANGED <<dbTask, outcome>> PROVE RowsNotRunning'
  BY <1>3 DEF RunningInv, RowsNotRunning
<1>4. CASE Start \/ InitDb \/ Researched \/ SetPlan \/ StartFails
  <2>1. getRunningTasks' \subseteq getRunningTasks
    BY <1>4, SwarmOperationsRunning
       DEF Start, InitDb, Researched, SetPlan, StartFails
  <2>2. UNCHANGED <<dbTask, outcome>>
    BY <1>4 DEF Start, InitDb, Researched, SetPlan, StartFails, agentVars, dbVars
  <2> QED
    BY <1>2, <1>3, <2>1, <2>2
<1>5. CASE AddTask
  <2>1. getRunningTasks' \subseteq getRunningTasks
    BY <1>1, <1>5
       DEF AddTask, addTask, getRunningTasks, getTasksByStatus, TypeOK,
           StoreTypeOK
  <2>2. RowsNotRunning'
    BY <1>5 DEF RunningInv, RowsNotRunning, TypeOK, DbTypeOK, AddTask, agentVars
  <2> QED
    BY <1>2, <2>1, <2>2
<1>6. CASE \/ ApprovePlan \/ ExecRejected \/ WaitForCompletion \/ Synthesized
           \/ FinalSaved
  <2>1. getRunningTasks' \subseteq getRunningTasks
    BY <1>6, SwarmOperationsRunning
       DEF ApprovePlan, ExecRejected, WaitForCompletion, Synthesized,
           FinalSaved, chooseVerdict, storeVars, getRunningTasks,
           getTasksByStatus
  <2>2. UNCHANGED <<dbTask, outcome>>
    BY <1>6 DEF ApprovePlan, ExecRejected, WaitForCompletion, Synthesized,
                FinalSaved, cleanup, agentVars, dbVars
  <2> QED
    BY <1>2, <1>3, <2>1, <2>2
<1>7. CASE ExecStart \/ Poll
  <2>1. UNCHANGED dbTask /\ processReadyTasks
    BY <1>7 DEF ExecStart, Poll, dbVars
  <2>2. UNCHANGED outcome
    BY <2>1 DEF processReadyTasks, startAgents, agentVars
  <2>3. CASE nothingToStart
    BY <1>2, <1>3, <2>1, <2>2, <2>3
       DEF processReadyTasks, storeVars, getRunningTasks, getTasksByStatus
  <2>4. CASE ~nothingToStart
    BY <1>1, <1>3, <2>1, <2>2, <2>4, DispatchBound DEF RunningInv
  <2> QED
    BY <2>3, <2>4
<1>8. CASE \E a \in Agent : AgentStep(a)
  BY <1>2, <1>8, AgentStepRunning
<1>9. CASE PanelTick \/ Pause \/ Resume \/ PanelCancel \/ OrchestratorCancel
  <2>1. getRunningTasks' \subseteq getRunningTasks
    BY <1>1, <1>9, SwarmOperationsRunning
       DEF PanelTick, Pause, Resume, pauseSwarm, resumeSwarm, PanelCancel,
           OrchestratorCancel, planVars, getRunningTasks, getTasksByStatus
  <2>2. UNCHANGED <<dbTask, outcome>>
    BY <1>9 DEF PanelTick, Pause, Resume, PanelCancel, OrchestratorCancel,
                cleanup, agentVars, dbVars
  <2> QED
    BY <1>2, <1>3, <2>1, <2>2
<1>10. CASE LoadSession
  <2>1. PICK s \in 1..sessions :
           rehydrateTasks(s, {t \in Task : owner[t] = s /\ dbTask[t] # NoRow}, dbTask)
    BY <1>10 DEF LoadSession
  <2>2. getRunningTasks' \subseteq getRunningTasks
    BY <1>1, <2>1
       DEF rehydrateTasks, rehydratedStatus, getRunningTasks, getTasksByStatus,
           RunningInv, RowsNotRunning
  <2>3. UNCHANGED <<dbTask, outcome>>
    BY <1>10 DEF LoadSession, agentVars, dbVars
  <2> QED
    BY <1>2, <1>3, <2>2, <2>3
<1>11. CASE Restart
  <2>1. getRunningTasks' \subseteq getRunningTasks
    BY <1>11, SwarmOperationsRunning DEF Restart
  <2>2. RowsNotRunning'
    BY <1>11 DEF RunningInv, RowsNotRunning, Restart, dbVars
  <2> QED
    BY <1>2, <2>1, <2>2
<1>12. CASE UNCHANGED vars
  BY <1>2, <1>3, <1>12
     DEF vars, storeVars, agentVars, dbVars, getRunningTasks, getTasksByStatus
<1> QED
  BY <1>4, <1>5, <1>6, <1>7, <1>8, <1>9, <1>10, <1>11, <1>12 DEF Next

\* However agents of this and of earlier swarms come and go, and whatever
\* session is loaded over them, processReadyTasks never shows more than
\* maxConcurrentAgents tasks running.
THEOREM RunningBounded == Spec => []RunningBound
<1>1. Spec => []RunningInv
  BY RunningInit, RunningNext, PTL DEF Spec
<1> QED
  BY <1>1, PTL DEF RunningInv

-------------------------------------------------------------------------------
(***************************************************************************)
(* The agents are clients of a pool of lanes: every step of the            *)
(* orchestrator is a step of SlotPool or leaves holders and waiting alone. *)
(***************************************************************************)
LEMMA LanesUnchanged ==
  ASSUME UNCHANGED phase
  PROVE  UNCHANGED <<Holders, Waiting>>
BY DEF Holders, Waiting

\* The instance has a copy of Cardinality.
LEMMA LanesCardinality ==
  ASSUME NEW T
  PROVE  Lanes!Cardinality(T) = Cardinality(T)
BY DEF Cardinality, Lanes!Cardinality

LEMMA DispatchJoins ==
  ASSUME SlotInv, SlotsMatchHolders', NEW S \in SUBSET Task,
         NEW G \in SUBSET S, startAgents(S, G)
  PROVE  [Lanes!Next]_<<Holders, Waiting>>
<1> DEFINE New(T) == {<<t, attempts[t] + 1>> : t \in T}
           J == New(S)
           L == New(G)
<1>1. \A t \in S : attempts[t] + 1 \in 1..MaxAttempts
  BY OrchestratorAssumption DEF SlotInv, TypeOK, AgentTypeOK, startAgents
<1>2. ASSUME NEW t \in S
      PROVE  /\ <<t, attempts[t] + 1>> \in Agent
             /\ phase[<<t, attempts[t] + 1>>] = "none"
  <2>1. <<t, attempts[t] + 1>> \in Agent
    BY <1>1 DEF Agent
  <2>2. attempts[t] + 1 > attempts[t]
    BY DEF SlotInv, TypeOK, AgentTypeOK
  <2> QED
    BY <2>1, <2>2 DEF SlotInv, AgentsFresh
<1>3. J \subseteq Agent /\ L \subseteq J
  BY <1>2
<1>4. \A a \in J : phase[a] = "none"
  BY <1>2
<1>5. ASSUME NEW a \in Agent
      PROVE  phase'[a] = IF a \notin J THEN phase[a]
                         ELSE IF a \in L THEN "working" ELSE "queued"
  <2>1. a = <<a[1], a[2]>>
    BY DEF Agent
  <2>2. a \in J <=> a[1] \in S /\ a[2] = attempts[a[1]] + 1
    BY <2>1
  <2>3. a \in J => (a \in L <=> a[1] \in G)
    BY <2>1
  <2> HIDE DEF J, L
  <2> QED
    BY <2>2, <2>3 DEF startAgents
<1> HIDE DEF J, L
<1>6. J \in SUBSET (Agent \ (Holders \cup Waiting))
  BY <1>3, <1>4 DEF Holders, Waiting
<1>7. Holders' = Holders \cup L /\ Waiting' = Waiting \cup (J \ L)
  BY <1>3, <1>4, <1>5 DEF Holders, Waiting
<1>8. CASE J = {}
  BY <1>3, <1>7, <1>8
<1>9. CASE J # {}
  <2>1. Lanes!Cardinality(Holders') <= SlotLimit
    BY LanesCardinality DEF SlotsMatchHolders
  <2>2. J \ Holders' = J \ L
    BY <1>6, <1>7
  <2>3. Lanes!Join(J)
    BY <1>3, <1>7, <1>9, <2>1, <2>2 DEF Lanes!Join
  <2> QED
    BY <1>6, <2>3 DEF Lanes!Next
<1> QED
  BY <1>8, <1>9

LEMMA AgentStepLanes ==
  ASSUME SlotInv, SlotsMatchHolders', NEW a \in Agent, AgentStep(a)
  PROVE  [Lanes!Next]_<<Holders, Waiting>>
<1>1. PICK p \in Phase :
         /\ phase' = [phase EXCEPT ![a] = p]
         /\ p \notin {"none", "queued"}
         /\ p \in HolderPhase => phase[a] \in HolderPhase \cup {"queued"}
  BY DEF AgentStep, Acquired, AcquireTimeout, BackoffEnds, AgentFinishes,
         AgentRateLimited, AgentThrows, AgentSaved, TerminalClosed,
         releaseAndClose, agentEnds, Phase, HolderPhase
<1>2. Holders' = IF p \in HolderPhase THEN Holders \cup {a} ELSE Holders \ {a}
  BY <1>1, HoldersChange DEF SlotInv
<1>3. Waiting' = Waiting \ {a}
  BY <1>1 DEF SlotInv, TypeOK, AgentTypeOK, Waiting
<1>4. Lanes!Cardinality(Holders') <= SlotLimit
  BY LanesCardinality DEF SlotsMatchHolders
<1>5. CASE phase[a] = "queued"
  <2>1. a \in Waiting /\ a \notin Holders
    BY <1>5 DEF Waiting, Holders
  <2>2. CASE p \in HolderPhase
    <3>1. Lanes!Grant({a})
      BY <1>2, <1>3, <1>4, <2>1, <2>2 DEF Lanes!Grant
    <3> QED
      BY <2>1, <3>1 DEF Lanes!Next
  <2>3. CASE p \notin HolderPhase
    <3>1. Lanes!Reject(a)
      BY <1>2, <1>3, <2>1, <2>3 DEF Lanes!Reject
    <3> QED
      BY <2>1, <3>1 DEF Lanes!Next
  <2> QED
    BY <2>2, <2>3
<1>6. CASE phase[a] \in HolderPhase
  <2>1. a \in Holders /\ a \notin Waiting
    BY <1>6 DEF Waiting, Holders, HolderPhase
  <2>2. CASE p \in HolderPhase
    BY <1>2, <1>3, <2>1, <2>2
  <2>3. CASE p \notin HolderPhase
    <3>1. Lanes!Release(a, {})
      BY <1>2, <1>3, <1>4, <2>1, <2>3 DEF Lanes!Release
    <3> QED
      BY <2>1, <3>1 DEF Lanes!Next
  <2> QED
    BY <2>2, <2>3
<1>7. CASE phase[a] \notin HolderPhase \cup {"queued"}
  <2>1. a \notin Holders /\ a \notin Waiting
    BY <1>7 DEF Waiting, Holders, HolderPhase
  <2> QED
    BY <1>1, <1>2, <1>3, <1>7, <2>1
<1> QED
  BY <1>5, <1>6, <1>7

LEMMA LanesNext == SlotInv /\ SlotInv' /\ [Next]_vars => [Lanes!Next]_<<Holders, Waiting>>
<1> SUFFICES ASSUME SlotInv, SlotInv', [Next]_vars
             PROVE  [Lanes!Next]_<<Holders, Waiting>>
  OBVIOUS
<1>1. SlotsMatchHolders'
  BY DEF SlotInv
<1>2. CASE UNCHANGED phase
  BY <1>2, LanesUnchanged
<1>3. CASE processReadyTasks
  <2>1. CASE UNCHANGED <<storeVars, agentVars>>
    BY <1>2, <2>1 DEF agentVars
  <2>2. CASE ~UNCHANGED <<storeVars, agentVars>>
    <3>1. PICK S \in SUBSET getReadyTasks : \E G \in SUBSET S : startAgents(S, G)
      BY <1>3, <2>2 DEF processReadyTasks
    <3>2. PICK G \in SUBSET S : startAgents(S, G)
      BY <3>1
    <3>3. S \in SUBSET Task
      BY DEF SlotInv, TypeOK, StoreTypeOK, getReadyTasks, getTasksByStatus
    <3> QED
      BY <1>1, <3>2, <3>3, DispatchJoins
  <2> QED
    BY <2>1, <2>2
<1>4. CASE ExecStart \/ Poll
  BY <1>3, <1>4 DEF ExecStart, Poll
<1>5. CASE \E a \in Agent : AgentStep(a)
  BY <1>1, <1>5, AgentStepLanes
<1>6. CASE Restart
  <2>1. Holders' = {} /\ Waiting' = {}
    BY <1>6 DEF Holders, Waiting, Restart
  <2> QED
    BY <2>1 DEF Lanes!Next, Lanes!Reset
<1>7. CASE Start \/ InitDb \/ Researched \/ AddTask \/ SetPlan \/ StartFails
  BY <1>2, <1>7
     DEF Start, InitDb, Researched, AddTask, SetPlan, StartFails, agentVars
<1>8. CASE ApprovePlan \/ ExecRejected \/ WaitForCompletion \/ Synthesized \/ FinalSaved
  BY <1>2, <1>8
     DEF ApprovePlan, ExecRejected, WaitForCompletion, Synthesized, FinalSaved,
         cleanup, agentVars
<1>9. CASE \/ PanelTick \/ Pause \/ Resume \/ PanelCancel \/ OrchestratorCancel
           \/ LoadSession
  BY <1>2, <1>9
     DEF PanelTick, Pause, Resume, PanelCancel, OrchestratorCancel, LoadSession,
         cleanup, agentVars
<1>10. CASE UNCHANGED vars
  BY <1>2, <1>10 DEF vars, agentVars
<1> QED
  BY <1>4, <1>5, <1>6, <1>7, <1>8, <1>9, <1>10 DEF Next

\* Through dispatch, retries, cancellation, loads and restarts the agents use
\* the provider's lanes as SlotPool promises: an agent asks for a lane before it
\* holds one, gives back only what it holds, and never too many hold one.
THEOREM PoolImplemented == Spec => ImplementsSlotPool
<1>1. Init => Lanes!Init
  BY DEF Init, Lanes!Init, Holders, Waiting
<1>2. SlotInv /\ SlotInv' /\ [Next]_vars => [Lanes!Next]_<<Holders, Waiting>>
  BY LanesNext
<1>3. Spec => []SlotInv
  BY SlotInit, SlotNext, PTL DEF Spec
<1> QED
  BY <1>1, <1>2, <1>3, PTL DEF Spec, ImplementsSlotPool, Lanes!Spec
-------------------------------------------------------------------------------
(***************************************************************************)
(* The tasks and their agents, the plan and the retries, the sessions and  *)
(* the executor, as long as no session is loaded from the database. The    *)
(* properties need one another: that two agents never have one task, that  *)
(* a settled task stays settled and that no task is retried too often all  *)
(* rest on what the list may show of a task an agent is in charge of.      *)
(***************************************************************************)
\* An agent that may still write its task's status is the task's newest one, and the
\* list shows the task running, or cancelled under the agent.
ChargeInv ==
    /\ \A a \in InCharge : a[2] = attempts[a[1]]
    /\ \A a \in InCharge : a[1] \in tasks => taskStatus[a[1]] \in {"running", "cancelled"}
    /\ RunningHasAgent

\* Tasks are created in order, an agent is started only for a created task, and the list
\* keeps the dependencies of the plan.
PlanInv ==
    /\ \A t \in tasks : t <= created /\ dependencies[t] = planned[t]
    /\ \A t \in Task : t > created => attempts[t] = 0
    /\ DependencyOrder

\* The retry counts. A task that is pending was retried as often as it was started; while
\* its agent is at work it was started once more than retried.
RetryInv ==
    /\ \A t \in tasks :
          taskStatus[t] = "pending" => retryCount[t] = attempts[t] /\ attempts[t] < MaxRetries
    /\ \A a \in InCharge :
          /\ snapshot[a] = a[2] - 1
          /\ phase[a] \in {"queued", "working"} =>
                (a[1] \in tasks => retryCount[a[1]] = a[2] - 1)
          /\ phase[a] \in {"requeueWait", "retryWait"} =>
                a[2] < MaxRetries /\ (a[1] \in tasks => retryCount[a[1]] = a[2])
    /\ AttemptsBounded

\* The sessions. The store shows the newest swarm or none; until it is planned it has no
\* tasks but those filed under it, and from then on starting is over.
SessionInv ==
    /\ sessionId \in {0, sessions}
    /\ \A t \in Task : t <= created => owner[t] <= sessions
    /\ starter # "idle" => sessionId = sessions /\ sessions # 0
    /\ starter \in {"init", "research"} =>
          tasks = {} /\ \A t \in Task : t <= created => owner[t] < sessions
    /\ starter = "planning" => planSession = sessions /\ tasks = PlanTasks
    /\ plan => starter = "idle" /\ tasks # {}

\* The executor. It runs the newest swarm only after its plan was approved, and from the
\* completion check on all tasks of a swarm nobody cancelled are settled.
ExecInv ==
    /\ exec # "idle" => execSession \in 1..sessions
    /\ exec # "idle" /\ execSession = sessionId => plan /\ planApproved
    /\ ~cancelRequested => \A t \in tasks : taskStatus[t] # "cancelled"
    /\ exec \in {"synth", "final"} /\ execSession = sessionId /\ ~cancelRequested
          => AllDone(tasks, taskStatus)
    /\ FinalVerdictSound

TaskInv == ChargeInv /\ PlanInv /\ RetryInv
UnloadedInv == TaskInv /\ SessionInv /\ ExecInv

\* Loading a session replaces the list under the agents, so all this is promised only as
\* long as none was loaded.
SwarmInv == TypeOK /\ (loads = 0 => UnloadedInv)

\* What the three parts about tasks and agents speak of.
taskVars == <<tasks, taskStatus, retryCount, dependencies, planned, created,
              phase, snapshot, attempts>>

LEMMA TaskInvKept ==
  ASSUME TaskInv, UNCHANGED taskVars
  PROVE  TaskInv'
BY DEF TaskInv, ChargeInv, PlanInv, RetryInv, taskVars, InCharge, RunningHasAgent,
       DependencyOrder, AttemptsBounded, getRunningTasks, getTasksByStatus

\* A swarm is started or reset: its agents go on without a list.
LEMMA ListEmptied ==
  ASSUME TypeOK, TaskInv, tasks' = {}, UNCHANGED <<created, phase, snapshot, attempts>>
  PROVE  TaskInv'
<1>1. InCharge' = InCharge /\ getRunningTasks' = {}
  BY DEF InCharge, getRunningTasks, getTasksByStatus
<1>2. ChargeInv'
  BY <1>1 DEF TaskInv, ChargeInv, RunningHasAgent
<1>3. PlanInv'
  BY DEF TaskInv, PlanInv, DependencyOrder
<1>4. RetryInv'
  BY <1>1 DEF TaskInv, RetryInv, AttemptsBounded
<1> QED
  BY <1>2, <1>3, <1>4 DEF TaskInv

LEMMA RestartTasks ==
  ASSUME TypeOK, TaskInv, Restart
  PROVE  TaskInv'
<1>1. InCharge' = {} /\ getRunningTasks' = {} /\ tasks' = {}
  BY DEF Restart, resetSwarm, noTasks, InCharge, getRunningTasks, getTasksByStatus
<1>2. UNCHANGED <<attempts, created>>
  BY DEF Restart
<1> QED
  BY <1>1, <1>2 DEF TaskInv, ChargeInv, RunningHasAgent, PlanInv, DependencyOrder,
                    RetryInv, AttemptsBounded

LEMMA AgentParts ==
  ASSUME NEW a \in Agent
  PROVE  a[1] \in Task /\ a[2] \in 1..MaxAttempts /\ a = <<a[1], a[2]>>
BY DEF Agent

\* A new task was never started and is nobody's dependency yet.
LEMMA AddTaskTasks ==
  ASSUME TypeOK, TypeOK', TaskInv, AddTask
  PROVE  TaskInv'
<1> DEFINE t == created + 1
<1>1. t \in Task /\ created \in Nat
  BY TaskAssumption DEF TypeOK, StartTypeOK, AddTask, Task
<1>2. PICK deps \in SUBSET (PlanTasks \cup {Unresolved}) :
         addTask(t, deps) /\ planned' = [planned EXCEPT ![t] = deps]
  BY DEF AddTask
<1>3. /\ UNCHANGED <<phase, snapshot, attempts>>
      /\ created' = t
  BY DEF AddTask, agentVars
<1>4. attempts[t] = 0 /\ t \notin tasks
  BY <1>1 DEF TaskInv, PlanInv
<1>5. tasks \subseteq Task
  BY DEF TypeOK, StoreTypeOK
<1>6. /\ tasks' = tasks \cup {t}
      /\ taskStatus'[t] = "pending" /\ retryCount'[t] = 0
      /\ dependencies'[t] = deps /\ planned'[t] = deps
      /\ \A u \in tasks : /\ taskStatus'[u] = taskStatus[u]
                          /\ retryCount'[u] = retryCount[u]
                          /\ dependencies'[u] = dependencies[u]
                          /\ planned'[u] = planned[u]
  BY <1>1, <1>2, <1>4, <1>5 DEF addTask, TypeOK, StoreTypeOK, StartTypeOK
<1>7. ASSUME NEW a \in InCharge PROVE a \in Agent /\ a[1] # t /\ a[1] \in Task
  <2>1. a[2] = attempts[a[1]] /\ a[2] # 0 /\ a \in Agent /\ a[1] \in Task
    BY AgentParts DEF TaskInv, ChargeInv, InCharge
  <2> QED
    BY <1>4, <2>1
<1>8. InCharge' = InCharge /\ getRunningTasks' = getRunningTasks
  <2>1. InCharge' = InCharge
    BY <1>3 DEF InCharge
  <2>2. getRunningTasks' = getRunningTasks
    BY <1>4, <1>6 DEF getRunningTasks, getTasksByStatus
  <2> QED
    BY <2>1, <2>2
<1>9. ChargeInv'
  <2>1. \A a \in InCharge' : a[1] \in tasks' => taskStatus'[a[1]] \in {"running", "cancelled"}
    BY <1>6, <1>7, <1>8 DEF TaskInv, ChargeInv
  <2>2. RunningHasAgent'
    BY <1>8 DEF TaskInv, ChargeInv, RunningHasAgent
  <2> QED
    BY <1>3, <1>8, <2>1, <2>2 DEF TaskInv, ChargeInv
<1>10. PlanInv'
  <2>1. \A u \in tasks' : u <= created' /\ dependencies'[u] = planned'[u]
    BY <1>1, <1>3, <1>5, <1>6 DEF TaskInv, PlanInv, Task
  <2>2. \A u \in Task : u > created' => attempts'[u] = 0
    BY <1>1, <1>3 DEF TaskInv, PlanInv, Task
  <2>3. DependencyOrder'
    BY <1>3, <1>4, <1>6 DEF TaskInv, PlanInv, DependencyOrder
  <2> QED
    BY <2>1, <2>2, <2>3 DEF PlanInv
<1>11. RetryInv'
  <2>1. \A u \in tasks' : taskStatus'[u] = "pending"
           => retryCount'[u] = attempts'[u] /\ attempts'[u] < MaxRetries
    BY <1>3, <1>4, <1>6, OrchestratorAssumption DEF TaskInv, RetryInv
  <2>2. \A a \in InCharge' :
          /\ snapshot'[a] = a[2] - 1
          /\ phase'[a] \in {"queued", "working"} =>
                (a[1] \in tasks' => retryCount'[a[1]] = a[2] - 1)
          /\ phase'[a] \in {"requeueWait", "retryWait"} =>
                a[2] < MaxRetries /\ (a[1] \in tasks' => retryCount'[a[1]] = a[2])
    BY <1>3, <1>6, <1>7, <1>8 DEF TaskInv, RetryInv
  <2>3. AttemptsBounded'
    BY <1>3 DEF TaskInv, RetryInv, AttemptsBounded
  <2> QED
    BY <2>1, <2>2, <2>3 DEF RetryInv
<1> QED
  BY <1>9, <1>10, <1>11 DEF TaskInv

\* The user cancels: running tasks are relabelled, their agents go on.
LEMMA CancelTasks ==
  ASSUME TypeOK, TaskInv, NEW mode, cancelSwarm(mode),
         UNCHANGED <<planned, created, phase, snapshot, attempts>>
  PROVE  TaskInv'
<1>1. /\ UNCHANGED <<tasks, retryCount, dependencies>>
      /\ \A t \in tasks : \/ taskStatus'[t] = taskStatus[t]
                          \/ taskStatus[t] = "running" /\ taskStatus'[t] = "cancelled"
  BY DEF cancelSwarm, getRunningTasks, getTasksByStatus, TypeOK, StoreTypeOK
<1>2. InCharge' = InCharge
  BY DEF InCharge
<1>3. ChargeInv'
  BY <1>1, <1>2
     DEF TaskInv, ChargeInv, RunningHasAgent, getRunningTasks, getTasksByStatus
<1>4. PlanInv'
  BY <1>1 DEF TaskInv, PlanInv, DependencyOrder
<1>5. RetryInv'
  BY <1>1, <1>2 DEF TaskInv, RetryInv, AttemptsBounded
<1> QED
  BY <1>3, <1>4, <1>5 DEF TaskInv

\* Dispatch gives a pending task a new agent: no former one is in charge of it any more.
LEMMA DispatchTasks ==
  ASSUME TypeOK, TaskInv, NEW S \in SUBSET getReadyTasks, NEW G \in SUBSET S,
         startAgents(S, G), UNCHANGED <<planned, created>>
  PROVE  TaskInv'
<1> DEFINE new(a) == a[1] \in S /\ a[2] = attempts[a[1]] + 1
<1>1. /\ UNCHANGED <<tasks, dependencies, retryCount>>
      /\ \A t \in tasks : taskStatus'[t] = IF t \in S THEN "running" ELSE taskStatus[t]
  BY DEF startAgents, planVars, updateTaskStatus, TypeOK, StoreTypeOK
<1>2. /\ S \subseteq tasks /\ tasks \subseteq Task
      /\ \A t \in S : /\ taskStatus[t] = "pending"
                      /\ \A d \in dependencies[t] : d \in tasks /\ taskStatus[d] = "completed"
  BY DEF getReadyTasks, getTasksByStatus, TypeOK, StoreTypeOK
<1>3. /\ \A t \in Task : attempts'[t] = IF t \in S THEN attempts[t] + 1 ELSE attempts[t]
      /\ \A t \in Task : attempts[t] \in Nat
      /\ \A t \in S : attempts[t] + 1 \in 1..MaxAttempts
  BY <1>2, OrchestratorAssumption DEF startAgents, TypeOK, AgentTypeOK
<1>4. \A a \in Agent :
         /\ new(a) => phase'[a] \in {"working", "queued"} /\ snapshot'[a] = retryCount[a[1]]
         /\ ~new(a) => phase'[a] = phase[a] /\ snapshot'[a] = snapshot[a]
  BY DEF startAgents
<1>5. \A a \in InCharge : a \in Agent /\ a[1] \in Task /\ a[1] \notin S
  BY <1>2, AgentParts DEF TaskInv, ChargeInv, InCharge
<1>6. \A a \in InCharge' : a \in Agent /\ a[1] \in Task /\ (new(a) \/ (~new(a) /\ a \in InCharge))
  BY <1>4, AgentParts DEF InCharge
<1>7. ASSUME NEW t \in S PROVE <<t, attempts[t] + 1>> \in InCharge'
  <2>1. <<t, attempts[t] + 1>> \in Agent /\ new(<<t, attempts[t] + 1>>)
    BY <1>2, <1>3 DEF Agent
  <2> QED
    BY <1>4, <2>1 DEF InCharge
<1>8. InCharge \subseteq InCharge'
  BY <1>4, <1>5 DEF InCharge
<1>9. ChargeInv'
  <2>1. \A a \in InCharge' : a[2] = attempts'[a[1]]
    BY <1>3, <1>5, <1>6 DEF TaskInv, ChargeInv
  <2>2. \A a \in InCharge' : a[1] \in tasks' => taskStatus'[a[1]] \in {"running", "cancelled"}
    BY <1>1, <1>5, <1>6 DEF TaskInv, ChargeInv
  <2>3. RunningHasAgent'
    <3> SUFFICES ASSUME NEW t \in getRunningTasks' PROVE \E a \in InCharge' : a[1] = t
      BY DEF RunningHasAgent
    <3>1. CASE t \in S
      BY <1>7, <3>1
    <3>2. CASE t \notin S
      <4>1. t \in getRunningTasks
        BY <1>1, <3>2 DEF getRunningTasks, getTasksByStatus
      <4> QED
        BY <1>8, <4>1 DEF TaskInv, ChargeInv, RunningHasAgent
    <3> QED
      BY <3>1, <3>2
  <2> QED
    BY <2>1, <2>2, <2>3 DEF ChargeInv
<1>10. PlanInv'
  <2>1. \A t \in tasks' : t <= created' /\ dependencies'[t] = planned'[t]
    BY <1>1 DEF TaskInv, PlanInv
  <2>2. \A t \in Task : t > created' => attempts'[t] = 0
    BY <1>2, <1>3 DEF TaskInv, PlanInv, TypeOK, StartTypeOK, Task
  <2>3. DependencyOrder'
    <3> SUFFICES ASSUME NEW t \in tasks, attempts'[t] > 0, NEW d \in planned[t]
                 PROVE  d \in tasks /\ taskStatus'[d] = "completed"
      BY <1>1 DEF DependencyOrder
    <3>1. d \in tasks /\ taskStatus[d] = "completed"
      <4>1. CASE t \in S
        BY <1>2, <4>1 DEF TaskInv, PlanInv
      <4>2. CASE t \notin S
        BY <1>2, <1>3, <4>2 DEF TaskInv, PlanInv, DependencyOrder
      <4> QED
        BY <4>1, <4>2
    <3> QED
      BY <1>1, <1>2, <3>1
  <2> QED
    BY <2>1, <2>2, <2>3 DEF PlanInv
<1>11. RetryInv'
  <2>1. \A t \in tasks' : taskStatus'[t] = "pending"
           => retryCount'[t] = attempts'[t] /\ attempts'[t] < MaxRetries
    BY <1>1, <1>2, <1>3 DEF TaskInv, RetryInv
  <2>2. ASSUME NEW a \in InCharge'
        PROVE  /\ snapshot'[a] = a[2] - 1
               /\ phase'[a] \in {"queued", "working"} =>
                     (a[1] \in tasks' => retryCount'[a[1]] = a[2] - 1)
               /\ phase'[a] \in {"requeueWait", "retryWait"} =>
                     a[2] < MaxRetries /\ (a[1] \in tasks' => retryCount'[a[1]] = a[2])
    <3>1. CASE new(a)
      <4>1. a[1] \in S /\ a[2] = attempts[a[1]] + 1 /\ a \in Agent
        BY <1>6, <3>1
      <4>2. retryCount[a[1]] = attempts[a[1]] /\ attempts[a[1]] \in Nat
        BY <1>2, <1>3, <4>1 DEF TaskInv, RetryInv
      <4>3. phase'[a] \in {"working", "queued"} /\ snapshot'[a] = retryCount[a[1]]
        BY <1>4, <3>1, <4>1
      <4>4. retryCount' = retryCount /\ retryCount[a[1]] = a[2] - 1
        BY <1>1, <4>1, <4>2
      <4> QED
        BY <4>3, <4>4
    <3>2. CASE ~new(a)
      <4>1. a \in InCharge /\ phase'[a] = phase[a] /\ snapshot'[a] = snapshot[a]
        BY <1>4, <1>6, <3>2
      <4> QED
        BY <1>1, <4>1 DEF TaskInv, RetryInv
    <3> QED
      BY <3>1, <3>2
  <2>3. AttemptsBounded'
    <3>1. \A t \in S : attempts[t] < MaxRetries
      BY <1>2 DEF TaskInv, RetryInv
    <3> QED
      BY <1>2, <1>3, <3>1, OrchestratorAssumption DEF TaskInv, RetryInv, AttemptsBounded
  <2> QED
    BY <2>1, <2>2, <2>3 DEF RetryInv
<1> QED
  BY <1>9, <1>10, <1>11 DEF TaskInv

ChargePhase == {"queued", "requeueWait", "working", "retryWait"}

\* An agent that writes its task's status is in charge of the task no longer.
LEMMA AgentLeaves ==
  ASSUME TypeOK, TaskInv, NEW a \in InCharge, NEW p \in Phase \ ChargePhase,
         NEW st \in TaskStatus \ {"running"},
         phase' = [phase EXCEPT ![a] = p],
         updateTaskStatus({a[1]}, st),
         UNCHANGED <<tasks, dependencies, planned, created, snapshot, attempts>>,
         \A t \in Task \ {a[1]} : retryCount'[t] = retryCount[t],
         st = "pending" => phase[a] \in {"requeueWait", "retryWait"} /\ UNCHANGED retryCount
  PROVE  TaskInv'
<1>0. a \in Agent /\ a[1] \in Task /\ a[2] = attempts[a[1]] /\ tasks \subseteq Task
  BY AgentParts DEF TaskInv, ChargeInv, InCharge, TypeOK, StoreTypeOK
<1>1. /\ \A t \in tasks : taskStatus'[t] = IF t = a[1] THEN st ELSE taskStatus[t]
      /\ \A b \in Agent : phase'[b] = IF b = a THEN p ELSE phase[b]
  BY <1>0 DEF updateTaskStatus, TypeOK, StoreTypeOK, AgentTypeOK
<1>2. InCharge' = InCharge \ {a}
  BY <1>1 DEF InCharge, ChargePhase
<1>3. \A b \in InCharge \ {a} : b \in Agent /\ b[1] \in Task /\ b[1] # a[1]
  BY <1>0, AgentParts DEF TaskInv, ChargeInv, InCharge
<1>4. ChargeInv'
  <2>1. \A b \in InCharge' : b[1] \in tasks' => taskStatus'[b[1]] \in {"running", "cancelled"}
    BY <1>1, <1>2, <1>3 DEF TaskInv, ChargeInv
  <2>2. RunningHasAgent'
    BY <1>1, <1>2 DEF TaskInv, ChargeInv, RunningHasAgent, getRunningTasks, getTasksByStatus
  <2> QED
    BY <1>2, <2>1, <2>2 DEF TaskInv, ChargeInv
<1>5. PlanInv'
  <2>1. DependencyOrder'
    <3> SUFFICES ASSUME NEW t \in tasks, attempts[t] > 0, NEW d \in planned[t]
                 PROVE  d \in tasks /\ taskStatus'[d] = "completed"
      BY DEF DependencyOrder
    <3>1. d \in tasks /\ taskStatus[d] = "completed"
      BY DEF TaskInv, PlanInv, DependencyOrder
    <3>2. d # a[1]
      BY <3>1 DEF TaskInv, ChargeInv
    <3> QED
      BY <1>1, <3>1, <3>2
  <2> QED
    BY <2>1 DEF TaskInv, PlanInv
<1>6. RetryInv'
  <2>1. ASSUME NEW t \in tasks, taskStatus'[t] = "pending"
        PROVE  retryCount'[t] = attempts[t] /\ attempts[t] < MaxRetries
    <3>1. CASE t = a[1]
      BY <1>0, <1>1, <2>1, <3>1 DEF TaskInv, RetryInv
    <3>2. CASE t # a[1]
      BY <1>0, <1>1, <2>1, <3>2 DEF TaskInv, RetryInv
    <3> QED
      BY <3>1, <3>2
  <2>2. ASSUME NEW b \in InCharge \ {a}
        PROVE  /\ snapshot'[b] = b[2] - 1
               /\ phase'[b] \in {"queued", "working"} =>
                     (b[1] \in tasks' => retryCount'[b[1]] = b[2] - 1)
               /\ phase'[b] \in {"requeueWait", "retryWait"} =>
                     b[2] < MaxRetries /\ (b[1] \in tasks' => retryCount'[b[1]] = b[2])
    BY <1>1, <1>3, <2>2 DEF TaskInv, RetryInv
  <2>3. AttemptsBounded'
    BY DEF TaskInv, RetryInv, AttemptsBounded
  <2> QED
    BY <1>2, <2>1, <2>2, <2>3 DEF RetryInv
<1> QED
  BY <1>4, <1>5, <1>6 DEF TaskInv

\* An agent that may retry backs off and stays in charge.
LEMMA AgentRetries ==
  ASSUME TypeOK, TaskInv, NEW a \in InCharge, NEW p \in {"requeueWait", "retryWait"},
         phase[a] \in {"queued", "working"}, mayRetry(a), updateTaskError(a[1]),
         phase' = [phase EXCEPT ![a] = p],
         UNCHANGED <<tasks, taskStatus, dependencies, planned, created, snapshot, attempts>>
  PROVE  TaskInv'
<1>0. a \in Agent /\ a[1] \in Task /\ a[2] = attempts[a[1]] /\ tasks \subseteq Task
      /\ a[2] \in Nat /\ attempts[a[1]] \in Nat
  BY AgentParts, OrchestratorAssumption
     DEF TaskInv, ChargeInv, InCharge, TypeOK, StoreTypeOK
<1>1. \A b \in Agent : phase'[b] = IF b = a THEN p ELSE phase[b]
  BY <1>0 DEF TypeOK, AgentTypeOK
<1>2. InCharge' = InCharge
  BY <1>1 DEF InCharge
<1>3. \A b \in InCharge \ {a} : b \in Agent /\ b[1] \in Task /\ b[1] # a[1]
  BY <1>0, AgentParts DEF TaskInv, ChargeInv, InCharge
<1>4. /\ a[1] \in tasks => retryCount'[a[1]] = retryCount[a[1]] + 1
      /\ \A t \in Task \ {a[1]} : retryCount'[t] = retryCount[t]
  BY <1>0 DEF updateTaskError, TypeOK, StoreTypeOK
<1>5. ChargeInv'
  BY <1>2 DEF TaskInv, ChargeInv, RunningHasAgent, getRunningTasks, getTasksByStatus
<1>6. PlanInv'
  BY DEF TaskInv, PlanInv, DependencyOrder
<1>7. RetryInv'
  <2>1. ASSUME NEW t \in tasks, taskStatus[t] = "pending"
        PROVE  retryCount'[t] = attempts[t] /\ attempts[t] < MaxRetries
    <3>1. t # a[1] /\ t \in Task
      BY <1>0, <2>1 DEF TaskInv, ChargeInv
    <3> QED
      BY <1>4, <2>1, <3>1 DEF TaskInv, RetryInv
  <2>2. /\ a[1] \in tasks => retryCount'[a[1]] = a[2]
        /\ a[2] < MaxRetries
        /\ snapshot[a] = a[2] - 1
    <3>1. snapshot[a] = a[2] - 1 /\ (a[1] \in tasks => retryCount[a[1]] = a[2] - 1)
      BY DEF TaskInv, RetryInv
    <3>2. a[2] - 1 < MaxRetries - 1
      BY <3>1 DEF mayRetry
    <3> QED
      BY <1>0, <1>4, <3>1, <3>2, OrchestratorAssumption
  <2>3. ASSUME NEW b \in InCharge \ {a}
        PROVE  /\ snapshot'[b] = b[2] - 1
               /\ phase'[b] \in {"queued", "working"} =>
                     (b[1] \in tasks' => retryCount'[b[1]] = b[2] - 1)
               /\ phase'[b] \in {"requeueWait", "retryWait"} =>
                     b[2] < MaxRetries /\ (b[1] \in tasks' => retryCount'[b[1]] = b[2])
    BY <1>1, <1>3, <1>4, <2>3 DEF TaskInv, RetryInv
  <2>4. AttemptsBounded'
    BY DEF TaskInv, RetryInv, AttemptsBounded
  <2>5. phase'[a] = p
    BY <1>0, <1>1
  <2> QED
    BY <1>2, <2>1, <2>2, <2>3, <2>4, <2>5 DEF RetryInv
<1> QED
  BY <1>5, <1>6, <1>7 DEF TaskInv

LEMMA AgentStepTasks ==
  ASSUME TypeOK, TaskInv, NEW a \in Agent, AgentStep(a)
  PROVE  TaskInv'
<1>1. UNCHANGED <<tasks, dependencies, planned, created, snapshot, attempts>>
  BY DEF AgentStep, Acquired, AcquireTimeout, BackoffEnds, AgentFinishes,
         AgentRateLimited, AgentThrows, AgentSaved, TerminalClosed, storeVars,
         planVars, startVars
<1>2. \A t \in Task \ {a[1]} : UNCHANGED retryCount \/ updateTaskError(a[1])
         => retryCount'[t] = retryCount[t]
  BY DEF updateTaskError, TypeOK, StoreTypeOK
<1>3. /\ {"closing", "done", "saving"} \subseteq Phase \ ChargePhase
      /\ {"pending", "completed", "awaiting_input", "failed"} \subseteq TaskStatus \ {"running"}
  BY DEF Phase, ChargePhase, TaskStatus
<1>4. ASSUME phase[a] \in ChargePhase PROVE a \in InCharge
  BY <1>4 DEF InCharge, ChargePhase
<1>5. CASE Acquired(a)
  <2>1. phase' = [phase EXCEPT ![a] = "working"] /\ phase[a] = "queued"
    BY <1>5 DEF Acquired
  <2>2. \A b \in Agent : phase'[b] = IF b = a THEN "working" ELSE phase[b]
    BY <2>1 DEF TypeOK, AgentTypeOK
  <2>3. InCharge' = InCharge
    BY <2>1, <2>2 DEF InCharge
  <2>4. UNCHANGED <<taskStatus, retryCount>>
    BY <1>5 DEF Acquired, storeVars
  <2>5. ChargeInv'
    BY <1>1, <2>3, <2>4
       DEF TaskInv, ChargeInv, RunningHasAgent, getRunningTasks, getTasksByStatus
  <2>6. PlanInv'
    BY <1>1, <2>4 DEF TaskInv, PlanInv, DependencyOrder
  <2>7. RetryInv'
    <3>1. AttemptsBounded'
      BY <1>1 DEF TaskInv, RetryInv, AttemptsBounded
    <3>2. \A b \in InCharge : b \in Agent
      BY DEF InCharge
    <3> QED
      BY <1>1, <2>1, <2>2, <2>3, <2>4, <3>1, <3>2 DEF TaskInv, RetryInv
  <2> QED
    BY <2>5, <2>6, <2>7 DEF TaskInv
<1>6. CASE AcquireTimeout(a)
  <2>1. a \in InCharge /\ phase[a] \in {"queued", "working"} /\ updateTaskError(a[1])
    BY <1>4, <1>6 DEF AcquireTimeout, ChargePhase
  <2>2. CASE mayRetry(a)
    <3>1. phase' = [phase EXCEPT ![a] = "requeueWait"] /\ UNCHANGED taskStatus
      BY <1>6, <2>2 DEF AcquireTimeout
    <3> QED
      BY <1>1, <2>1, <2>2, <3>1, AgentRetries
  <2>3. CASE ~mayRetry(a)
    <3>1. phase' = [phase EXCEPT ![a] = "done"] /\ updateTaskStatus({a[1]}, "failed")
      BY <1>6, <2>3 DEF AcquireTimeout, agentEnds
    <3> QED
      BY <1>1, <1>2, <1>3, <2>1, <3>1, AgentLeaves
  <2> QED
    BY <2>2, <2>3
<1>7. CASE BackoffEnds(a)
  <2>1. a \in InCharge /\ phase[a] \in {"requeueWait", "retryWait"} /\ UNCHANGED retryCount
    BY <1>4, <1>7 DEF BackoffEnds, ChargePhase
  <2>2. PICK p \in {"closing", "done"} : phase' = [phase EXCEPT ![a] = p]
    BY <1>7 DEF BackoffEnds, releaseAndClose, agentEnds
  <2>3. PICK st \in {"failed", "pending"} : updateTaskStatus({a[1]}, st)
    BY <1>7 DEF BackoffEnds
  <2> QED
    BY <1>1, <1>2, <1>3, <2>1, <2>2, <2>3, AgentLeaves
<1>8. CASE AgentFinishes(a) \/ AgentThrows(a)
  <2>1. a \in InCharge /\ phase' = [phase EXCEPT ![a] = "saving"]
    BY <1>4, <1>8 DEF AgentFinishes, AgentThrows, ChargePhase
  <2>2. PICK st \in {"completed", "awaiting_input", "failed"} : updateTaskStatus({a[1]}, st)
    BY <1>8 DEF AgentFinishes, AgentThrows
  <2>3. UNCHANGED retryCount \/ updateTaskError(a[1])
    BY <1>8 DEF AgentFinishes, AgentThrows
  <2> QED
    BY <1>1, <1>2, <1>3, <2>1, <2>2, <2>3, AgentLeaves
<1>9. CASE AgentRateLimited(a)
  <2>1. /\ a \in InCharge /\ phase[a] \in {"queued", "working"} /\ updateTaskError(a[1])
        /\ mayRetry(a) /\ phase' = [phase EXCEPT ![a] = "retryWait"] /\ UNCHANGED taskStatus
    BY <1>4, <1>9 DEF AgentRateLimited, ChargePhase
  <2> QED
    BY <1>1, <2>1, AgentRetries
<1>10. CASE AgentSaved(a) \/ TerminalClosed(a)
  <2>1. PICK p \in {"closing", "done"} : phase' = [phase EXCEPT ![a] = p]
    BY <1>10 DEF AgentSaved, TerminalClosed, releaseAndClose, agentEnds
  <2>2. phase[a] \notin ChargePhase /\ UNCHANGED <<taskStatus, retryCount>>
    BY <1>10 DEF AgentSaved, TerminalClosed, ChargePhase, storeVars
  <2>3. /\ \A b \in Agent : phase'[b] = IF b = a THEN p ELSE phase[b]
        /\ a \notin InCharge
    BY <2>1, <2>2 DEF TypeOK, AgentTypeOK, InCharge, ChargePhase
  <2>4. InCharge' = InCharge /\ \A b \in InCharge : phase'[b] = phase[b]
    BY <2>3 DEF InCharge
  <2>5. ChargeInv'
    BY <1>1, <2>2, <2>4
       DEF TaskInv, ChargeInv, RunningHasAgent, getRunningTasks, getTasksByStatus
  <2>6. PlanInv'
    BY <1>1, <2>2 DEF TaskInv, PlanInv, DependencyOrder
  <2>7. RetryInv'
    BY <1>1, <2>2, <2>4 DEF TaskInv, RetryInv, AttemptsBounded
  <2> QED
    BY <2>5, <2>6, <2>7 DEF TaskInv
<1> QED
  BY <1>5, <1>6, <1>7, <1>8, <1>9, <1>10 DEF AgentStep

\* One step of the swarm, and what the list and the agents are after it.
LEMMA TasksNext ==
  ASSUME TypeOK, TypeOK', TaskInv, [Next]_vars, loads' = 0
  PROVE  TaskInv'
<1>1. CASE UNCHANGED taskVars
  BY <1>1, TaskInvKept
<1>2. CASE Start \/ StartFails
  BY <1>2, ListEmptied DEF Start, StartFails, startSwarm, resetSwarm, noTasks, agentVars
<1>3. CASE AddTask
  BY <1>3, AddTaskTasks
<1>4. CASE processReadyTasks /\ UNCHANGED startVars
  <2>1. CASE UNCHANGED <<storeVars, agentVars>>
    BY <1>1, <1>4, <2>1 DEF storeVars, agentVars, startVars, taskVars
  <2>2. CASE ~UNCHANGED <<storeVars, agentVars>>
    <3>1. PICK S \in SUBSET getReadyTasks : \E G \in SUBSET S : startAgents(S, G)
      BY <1>4, <2>2 DEF processReadyTasks
    <3>2. PICK G \in SUBSET S : startAgents(S, G)
      BY <3>1
    <3> QED
      BY <1>4, <3>2, DispatchTasks DEF startVars
  <2> QED
    BY <2>1, <2>2
<1>5. CASE ExecStart \/ Poll
  BY <1>4, <1>5 DEF ExecStart, Poll
<1>6. CASE \E a \in Agent : AgentStep(a)
  BY <1>6, AgentStepTasks
<1>7. CASE PanelCancel \/ OrchestratorCancel
  BY <1>7, CancelTasks DEF PanelCancel, OrchestratorCancel, cleanup, startVars, agentVars
<1>8. CASE Restart
  BY <1>8, RestartTasks
<1>9. CASE InitDb \/ Researched \/ SetPlan
  BY <1>1, <1>9 DEF InitDb, Researched, SetPlan, setStatus, setPlan, agentVars, taskVars
<1>10. CASE \/ ApprovePlan \/ ExecRejected \/ WaitForCompletion \/ Synthesized
            \/ FinalSaved
  BY <1>1, <1>10
     DEF ApprovePlan, ExecRejected, WaitForCompletion, Synthesized, FinalSaved,
         approvePlan, chooseVerdict, setStatus, cleanup, storeVars, startVars,
         agentVars, taskVars
<1>11. CASE PanelTick \/ Pause \/ Resume
  BY <1>1, <1>11
     DEF PanelTick, Pause, Resume, pauseSwarm, resumeSwarm, setStatus, planVars,
         startVars, agentVars, taskVars
<1>12. CASE LoadSession
  BY <1>12 DEF LoadSession, TypeOK
<1>13. CASE UNCHANGED vars
  BY <1>1, <1>13 DEF vars, storeVars, startVars, agentVars, taskVars
<1> QED
  BY <1>2, <1>3, <1>5, <1>6, <1>7, <1>8, <1>9, <1>10, <1>11, <1>12, <1>13 DEF Next

\* What the part about the sessions speaks of.
sessionVars == <<sessionId, sessions, planSession, created, owner, starter, tasks, plan>>

LEMMA SessionKept ==
  ASSUME SessionInv, UNCHANGED sessionVars
  PROVE  SessionInv'
BY DEF SessionInv, sessionVars, PlanTasks

\* A swarm is begun, planned task by task, and approved or given up.
LEMMA StartSessions ==
  ASSUME TypeOK, TypeOK', SessionInv,
         Start \/ InitDb \/ Researched \/ AddTask \/ SetPlan \/ StartFails
  PROVE  SessionInv'
<1>0. sessions \in Nat /\ created \in Nat /\ owner \in [Task -> Nat]
  BY SessionAssumption, TaskAssumption DEF TypeOK, StartTypeOK
<1>1. CASE Start
  BY <1>0, <1>1 DEF Start, startSwarm, noTasks, SessionInv
<1>2. CASE InitDb
  BY <1>2 DEF InitDb, setStatus, SessionInv
<1>3. CASE Researched
  <2>1. /\ planSession' = sessions /\ tasks' = {} /\ starter' = "planning" /\ ~plan'
        /\ UNCHANGED <<sessionId, sessions, created, owner, tasks>>
    BY <1>3 DEF Researched, setStatus, SessionInv
  <2>2. \A t \in Task : t <= created => owner[t] < sessions
    BY <1>3 DEF Researched, SessionInv
  <2>3. PlanTasks' = {}
    <3>1. \A t \in 1..created : t \in Task /\ t <= created
      BY <1>0, TaskAssumption DEF Task, TypeOK, StartTypeOK
    <3>2. \A t \in 1..created : owner[t] # sessions
      BY <1>0, <2>2, <3>1
    <3> QED
      BY <2>1, <3>2 DEF PlanTasks
  <2> QED
    BY <2>1, <2>3, <1>3 DEF SessionInv, Researched
<1>4. CASE AddTask
  <2> DEFINE t == created + 1
  <2>1. /\ starter = "planning" /\ created' = t
        /\ owner' = [owner EXCEPT ![t] = planSession]
        /\ tasks' = tasks \cup {t}
        /\ UNCHANGED <<sessionId, plan, starter, sessions, planSession>>
    BY <1>4 DEF AddTask, addTask
  <2>2. planSession = sessions /\ tasks = PlanTasks /\ ~plan
    BY <2>1 DEF SessionInv
  <2>3. t \in Task
    BY <1>0, <1>4 DEF AddTask, Task, TypeOK, StartTypeOK
  <2>4. \A u \in Task : owner'[u] = IF u = t THEN sessions ELSE owner[u]
    BY <1>0, <2>1, <2>2, <2>3
  <2>5. \A u \in Task : u <= t => owner'[u] <= sessions
    BY <1>0, <2>4 DEF SessionInv, Task
  <2>6. PlanTasks' = PlanTasks \cup {t}
    <3>1. 1..t = 1..created \cup {t} /\ 1..t \subseteq Task
      BY <1>0, <2>3, TaskAssumption DEF Task
    <3>2. owner'[t] = planSession' /\ \A u \in 1..created : owner'[u] = owner[u]
      BY <1>0, <2>1, <2>2, <2>4, <3>1
    <3> QED
      BY <2>1, <3>1, <3>2 DEF PlanTasks
  <2> QED
    BY <2>1, <2>2, <2>5, <2>6 DEF SessionInv
<1>5. CASE SetPlan
  BY <1>5 DEF SetPlan, setPlan, SessionInv
<1>6. CASE StartFails
  BY <1>6 DEF StartFails, resetSwarm, noTasks, SessionInv
<1> QED
  BY <1>1, <1>2, <1>3, <1>4, <1>5, <1>6

LEMMA SessionNext ==
  ASSUME TypeOK, TypeOK', SessionInv, [Next]_vars, loads' = 0
  PROVE  SessionInv'
<1>1. CASE UNCHANGED sessionVars
  BY <1>1, SessionKept
<1>2. CASE Start \/ InitDb \/ Researched \/ AddTask \/ SetPlan \/ StartFails
  BY <1>2, StartSessions
<1>3. CASE processReadyTasks /\ UNCHANGED startVars
  BY <1>1, <1>3 DEF processReadyTasks, startAgents, storeVars, planVars, startVars, sessionVars
<1>4. CASE ExecStart \/ Poll
  BY <1>3, <1>4 DEF ExecStart, Poll
<1>5. CASE \E a \in Agent : AgentStep(a)
  <2>1. UNCHANGED <<sessionId, tasks, plan>> /\ UNCHANGED startVars
    BY <1>5 DEF AgentStep, Acquired, AcquireTimeout, BackoffEnds, AgentFinishes,
                AgentRateLimited, AgentThrows, AgentSaved, TerminalClosed, storeVars,
                planVars
  <2> QED
    BY <1>1, <2>1 DEF startVars, sessionVars
<1>6. CASE PanelCancel \/ OrchestratorCancel
  BY <1>1, <1>6 DEF PanelCancel, OrchestratorCancel, cancelSwarm, startVars, sessionVars
<1>7. CASE Restart
  BY <1>7 DEF Restart, resetSwarm, noTasks, SessionInv
<1>8. CASE \/ ApprovePlan \/ ExecRejected \/ WaitForCompletion \/ Synthesized
           \/ FinalSaved
  BY <1>1, <1>8
     DEF ApprovePlan, ExecRejected, WaitForCompletion, Synthesized, FinalSaved,
         approvePlan, chooseVerdict, setStatus, storeVars, startVars, sessionVars
<1>9. CASE PanelTick \/ Pause \/ Resume
  BY <1>1, <1>9
     DEF PanelTick, Pause, Resume, pauseSwarm, resumeSwarm, setStatus, planVars,
         startVars, sessionVars
<1>10. CASE LoadSession
  BY <1>10 DEF LoadSession, TypeOK
<1>11. CASE UNCHANGED vars
  BY <1>1, <1>11 DEF vars, storeVars, startVars, sessionVars
<1> QED
  BY <1>2, <1>4, <1>5, <1>6, <1>7, <1>8, <1>9, <1>10, <1>11 DEF Next

\* Only the agent in charge of a task writes its status, and never "cancelled".
LEMMA AgentStepStatus ==
  ASSUME TypeOK, TaskInv, NEW a \in Agent, AgentStep(a)
  PROVE  /\ UNCHANGED <<planVars, execVars, startVars>>
         /\ \A t \in tasks : \/ taskStatus'[t] = taskStatus[t]
                             \/ /\ taskStatus[t] \in {"running", "cancelled"}
                                /\ taskStatus'[t] # "cancelled"
<1>1. UNCHANGED <<planVars, execVars, startVars>>
  BY DEF AgentStep, Acquired, AcquireTimeout, BackoffEnds, AgentFinishes,
         AgentRateLimited, AgentThrows, AgentSaved, TerminalClosed, storeVars, planVars
<1>2. \/ UNCHANGED taskStatus
      \/ /\ a \in InCharge
         /\ \E st \in {"pending", "failed", "completed", "awaiting_input"} :
               updateTaskStatus({a[1]}, st)
  BY DEF AgentStep, Acquired, AcquireTimeout, BackoffEnds, AgentFinishes,
         AgentRateLimited, AgentThrows, AgentSaved, TerminalClosed, storeVars, InCharge
<1>3. CASE UNCHANGED taskStatus
  BY <1>1, <1>3
<1>4. CASE a \in InCharge /\ \E st \in {"pending", "failed", "completed", "awaiting_input"} :
                                 updateTaskStatus({a[1]}, st)
  <2>1. PICK st \in {"pending", "failed", "completed", "awaiting_input"} :
               updateTaskStatus({a[1]}, st)
    BY <1>4
  <2>2. a[1] \in tasks => taskStatus[a[1]] \in {"running", "cancelled"}
    BY <1>4 DEF TaskInv, ChargeInv
  <2>3. \A t \in tasks : taskStatus'[t] = IF t = a[1] THEN st ELSE taskStatus[t]
    BY <2>1 DEF updateTaskStatus, TypeOK, StoreTypeOK
  <2> QED
    BY <1>1, <2>2, <2>3
<1> QED
  BY <1>2, <1>3, <1>4

\* Dispatch touches pending tasks only.
LEMMA DispatchStatus ==
  ASSUME TypeOK, processReadyTasks
  PROVE  /\ UNCHANGED planVars
         /\ \A t \in tasks : \/ taskStatus'[t] = taskStatus[t]
                             \/ taskStatus[t] = "pending" /\ taskStatus'[t] = "running"
         /\ ~UNCHANGED attempts => ~nothingToStart
<1>1. CASE nothingToStart
  BY <1>1 DEF processReadyTasks, storeVars, agentVars, planVars
<1>2. CASE ~nothingToStart
  <2>1. PICK S \in SUBSET getReadyTasks : \E G \in SUBSET S : startAgents(S, G)
    BY <1>2 DEF processReadyTasks
  <2>2. UNCHANGED planVars /\ updateTaskStatus(S, "running")
    BY <2>1 DEF startAgents
  <2>3. S \subseteq getTasksByStatus("pending")
    BY DEF getReadyTasks
  <2>4. \A t \in tasks : taskStatus'[t] = IF t \in S THEN "running" ELSE taskStatus[t]
    BY <2>2 DEF updateTaskStatus, TypeOK, StoreTypeOK
  <2> QED
    BY <1>2, <2>2, <2>3, <2>4 DEF getTasksByStatus
<1> QED
  BY <1>1, <1>2

\* The user or the service cancels: running tasks are relabelled.
LEMMA CancelStatus ==
  ASSUME TypeOK, PanelCancel \/ OrchestratorCancel
  PROVE  /\ UNCHANGED <<isActive, sessionId, tasks, plan, planApproved>>
         /\ cancelRequested'
         /\ UNCHANGED <<execSession, verdict, startVars, attempts>>
         /\ exec' # exec => exec = "polling" /\ exec' = "stranded"
         /\ \A t \in tasks : \/ taskStatus'[t] = taskStatus[t]
                             \/ taskStatus[t] = "running" /\ taskStatus'[t] = "cancelled"
BY DEF PanelCancel, OrchestratorCancel, cancelSwarm, cancelRequested, getRunningTasks,
       getTasksByStatus, cleanup, execVars, agentVars, TypeOK, StoreTypeOK

\* No step but dispatch, an agent's and a cancellation writes a status.
LEMMA OtherStatus ==
  ASSUME [Next]_vars, loads' = 0, TypeOK,
         ~(ExecStart \/ Poll), ~(\E a \in Agent : AgentStep(a)),
         ~(PanelCancel \/ OrchestratorCancel), ~AddTask, ~Restart
  PROVE  UNCHANGED attempts /\ (UNCHANGED <<tasks, taskStatus>> \/ tasks' = {})
<1>1. CASE Start \/ StartFails
  BY <1>1 DEF Start, StartFails, startSwarm, resetSwarm, noTasks, agentVars
<1>2. CASE InitDb \/ Researched \/ SetPlan
  BY <1>2 DEF InitDb, Researched, SetPlan, setStatus, setPlan, agentVars
<1>3. CASE \/ ApprovePlan \/ ExecRejected \/ WaitForCompletion \/ Synthesized
           \/ FinalSaved
  BY <1>3
     DEF ApprovePlan, ExecRejected, WaitForCompletion, Synthesized, FinalSaved,
         approvePlan, chooseVerdict, setStatus, cleanup, storeVars, agentVars
<1>4. CASE PanelTick \/ Pause \/ Resume
  BY <1>4 DEF PanelTick, Pause, Resume, pauseSwarm, resumeSwarm, setStatus, planVars,
              agentVars
<1>5. CASE LoadSession
  BY <1>5 DEF LoadSession, TypeOK
<1>6. CASE UNCHANGED vars
  BY <1>6 DEF vars, storeVars, agentVars
<1> QED
  BY <1>1, <1>2, <1>3, <1>4, <1>5, <1>6 DEF Next

\* What the part about the executor speaks of, the statuses apart.
executorVars == <<exec, execSession, verdict, sessionId, sessions, tasks, plan,
                  planApproved, cancelMode>>

LEMMA ExecKept ==
  ASSUME ExecInv, UNCHANGED executorVars, \A t \in tasks : taskStatus'[t] = taskStatus[t]
  PROVE  ExecInv'
<1>1. AllDone(tasks, taskStatus)' = AllDone(tasks, taskStatus)
  BY DEF executorVars, AllDone
<1>2. Verdict(tasks, taskStatus)' = Verdict(tasks, taskStatus)
  BY DEF executorVars, Verdict
<1> QED
  BY <1>1, <1>2 DEF ExecInv, executorVars, cancelRequested, FinalVerdictSound

\* A new swarm, and one that failed to start: the executor that may still be at work is
\* that of an earlier one.
LEMMA ExecStarts ==
  ASSUME TypeOK, SessionInv, ExecInv, Start \/ StartFails
  PROVE  ExecInv'
<1>1. /\ UNCHANGED <<exec, execSession>> /\ tasks' = {}
      /\ sessions' \in {sessions, sessions + 1}
      /\ sessionId' \in {0, sessions + 1}
  BY DEF Start, StartFails, startSwarm, resetSwarm, noTasks, execVars
<1>2. exec # "idle" => execSession \in 1..sessions' /\ execSession # sessionId'
  BY <1>1, SessionAssumption DEF ExecInv, TypeOK, StartTypeOK
<1> QED
  BY <1>1, <1>2 DEF ExecInv, FinalVerdictSound

\* While a swarm is planned no executor runs it.
LEMMA ExecPlanning ==
  ASSUME TypeOK, TypeOK', SessionInv, ExecInv, AddTask \/ SetPlan
  PROVE  ExecInv'
<1>1. exec # "idle" => execSession # sessionId
  BY DEF AddTask, SetPlan, SessionInv, ExecInv
<1>2. UNCHANGED <<exec, execSession, sessionId, sessions, cancelMode>>
  BY DEF AddTask, SetPlan, setPlan, execVars
<1>3. \A t \in tasks' : (t \in tasks /\ taskStatus'[t] = taskStatus[t])
                           \/ taskStatus'[t] = "pending"
  <2>1. CASE AddTask
    <3>1. tasks' = tasks \cup {created + 1}
          /\ taskStatus' = [taskStatus EXCEPT ![created + 1] = "pending"]
      BY <2>1 DEF AddTask, addTask
    <3>2. tasks' \subseteq Task
      BY DEF TypeOK, StoreTypeOK
    <3> QED
      BY <3>1, <3>2 DEF TypeOK, StoreTypeOK
  <2>2. CASE SetPlan
    BY <2>2 DEF SetPlan, setPlan
  <2> QED
    BY <2>1, <2>2
<1> QED
  BY <1>1, <1>2, <1>3 DEF ExecInv, FinalVerdictSound, cancelRequested

\* An agent in charge is in charge of a running or a cancelled task: once all tasks are
\* settled and none is cancelled, no agent writes a status any more.
LEMMA ExecAgents ==
  ASSUME TypeOK, TaskInv, ExecInv, NEW a \in Agent, AgentStep(a)
  PROVE  ExecInv'
<1>1. UNCHANGED executorVars
  BY AgentStepStatus DEF planVars, execVars, startVars, executorVars
<1>2. CASE \A t \in tasks : taskStatus'[t] = taskStatus[t]
  BY <1>1, <1>2, ExecKept
<1>3. CASE \E t \in tasks : taskStatus'[t] # taskStatus[t]
  <2>1. PICK t \in tasks : taskStatus[t] \in {"running", "cancelled"}
    BY <1>3, AgentStepStatus
  <2>2. exec \in {"synth", "final"} /\ execSession = sessionId => cancelRequested
    BY <2>1 DEF ExecInv, AllDone, Unsettled
  <2>3. \A u \in tasks : taskStatus'[u] = taskStatus[u] \/ taskStatus'[u] # "cancelled"
    BY AgentStepStatus
  <2> QED
    BY <1>1, <2>2, <2>3 DEF ExecInv, executorVars, FinalVerdictSound, cancelRequested
<1> QED
  BY <1>2, <1>3

LEMMA ExecDispatches ==
  ASSUME TypeOK, ExecInv, ExecStart \/ Poll
  PROVE  ExecInv'
<1>1. /\ exec # "idle" /\ exec' = "polling" /\ UNCHANGED <<execSession, sessions>>
      /\ processReadyTasks
  BY DEF ExecStart, Poll, execVars, startVars
<1>2. /\ UNCHANGED planVars
      /\ \A t \in tasks : taskStatus'[t] = taskStatus[t] \/ taskStatus'[t] = "running"
  BY <1>1, DispatchStatus
<1> QED
  BY <1>1, <1>2 DEF ExecInv, planVars, cancelRequested, FinalVerdictSound

\* The completion check passes: of a swarm that was not cancelled all tasks are settled,
\* and there is one, since its plan was approved.
LEMMA ExecCompletes ==
  ASSUME TypeOK, SessionInv, ExecInv, WaitForCompletion \/ Synthesized
  PROVE  ExecInv'
<1>1. /\ exec \in {"polling", "synth"} /\ exec' \in {"synth", "final"}
      /\ UNCHANGED <<execSession, sessions, sessionId, tasks, taskStatus, plan,
                     planApproved, cancelMode>>
  BY DEF WaitForCompletion, Synthesized, chooseVerdict, setStatus, startVars
<1>2. execSession = sessionId /\ ~cancelRequested => AllDone(tasks, taskStatus)
  <2>1. CASE WaitForCompletion
    BY <1>1, <2>1
       DEF WaitForCompletion, completionChecked, ExecInv, SessionInv, AllDone
  <2>2. CASE Synthesized
    BY <2>2 DEF Synthesized, ExecInv
  <2> QED
    BY <2>1, <2>2
<1>3. exec' = "final" => verdict' = Verdict(tasks, taskStatus)
  BY DEF WaitForCompletion, Synthesized, chooseVerdict
<1>4. /\ AllDone(tasks, taskStatus)' = AllDone(tasks, taskStatus)
      /\ Verdict(tasks, taskStatus)' = Verdict(tasks, taskStatus)
  BY <1>1
<1> QED
  BY <1>1, <1>2, <1>3, <1>4 DEF ExecInv, FinalVerdictSound, cancelRequested

LEMMA ExecNext ==
  ASSUME TypeOK, TypeOK', TaskInv, SessionInv, ExecInv, [Next]_vars, loads' = 0
  PROVE  ExecInv'
<1>1. CASE UNCHANGED executorVars /\ UNCHANGED taskStatus
  BY <1>1, ExecKept
<1>2. CASE Start \/ StartFails
  BY <1>2, ExecStarts
<1>3. CASE AddTask \/ SetPlan
  BY <1>3, ExecPlanning
<1>4. CASE ExecStart \/ Poll
  BY <1>4, ExecDispatches
<1>5. CASE \E a \in Agent : AgentStep(a)
  BY <1>5, ExecAgents
<1>6. CASE PanelCancel \/ OrchestratorCancel
  <2>1. /\ cancelRequested'
        /\ UNCHANGED <<execSession, sessions, sessionId, plan, planApproved>>
        /\ exec' # "idle" => exec # "idle"
    BY <1>6, CancelStatus DEF startVars
  <2> QED
    BY <2>1 DEF ExecInv, FinalVerdictSound
<1>7. CASE Restart
  BY <1>7 DEF Restart, resetSwarm, noTasks, ExecInv, FinalVerdictSound
<1>8. CASE ApprovePlan
  <2>1. /\ exec = "idle" /\ sessionId # 0 /\ planApproved'
        /\ UNCHANGED <<sessionId, sessions, tasks, taskStatus, plan, cancelMode>>
        /\ exec' = "idle" \/ (exec' = "starting" /\ plan /\ execSession' = sessionId)
    BY <1>8 DEF ApprovePlan, approvePlan, startVars
  <2>2. sessionId \in 1..sessions
    BY <2>1, SessionAssumption DEF SessionInv, TypeOK, StoreTypeOK, StartTypeOK
  <2> QED
    BY <2>1, <2>2 DEF ExecInv, FinalVerdictSound, cancelRequested
<1>9. CASE ExecRejected \/ FinalSaved
  BY <1>9 DEF ExecRejected, FinalSaved, approvePlan, storeVars, ExecInv,
              FinalVerdictSound, cancelRequested
<1>10. CASE WaitForCompletion \/ Synthesized
  BY <1>10, ExecCompletes
<1>11. CASE InitDb \/ Researched
  BY <1>1, <1>11 DEF InitDb, Researched, setStatus, execVars, executorVars
<1>12. CASE PanelTick \/ Pause \/ Resume
  BY <1>1, <1>12
     DEF PanelTick, Pause, Resume, pauseSwarm, resumeSwarm, setStatus, planVars,
         startVars, execVars, executorVars
<1>13. CASE LoadSession
  BY <1>13 DEF LoadSession, TypeOK
<1>14. CASE UNCHANGED vars
  BY <1>1, <1>14 DEF vars, storeVars, startVars, execVars, executorVars
<1> QED
  BY <1>2, <1>3, <1>4, <1>5, <1>6, <1>7, <1>8, <1>9, <1>10, <1>11, <1>12, <1>13, <1>14
     DEF Next

LEMMA SwarmInit == Init => SwarmInv
<1> SUFFICES ASSUME Init PROVE UnloadedInv
  BY TypeInit DEF SwarmInv
<1>1. /\ tasks = {} /\ ~plan /\ sessionId = 0 /\ sessions = 0 /\ created = 0
      /\ starter = "idle" /\ exec = "idle"
      /\ \A t \in Task : attempts[t] = 0
  BY DEF Init, StoreInit
<1>2. InCharge = {} /\ getRunningTasks = {}
  BY <1>1 DEF Init, InCharge, getRunningTasks, getTasksByStatus
<1>3. ChargeInv
  BY <1>2 DEF ChargeInv, RunningHasAgent
<1>4. PlanInv
  BY <1>1 DEF PlanInv, DependencyOrder
<1>5. RetryInv
  BY <1>1, <1>2, OrchestratorAssumption DEF RetryInv, AttemptsBounded
<1>6. SessionInv
  BY <1>1, TaskAssumption DEF SessionInv, Task
<1>7. ExecInv
  BY <1>1 DEF ExecInv, FinalVerdictSound
<1> QED
  BY <1>3, <1>4, <1>5, <1>6, <1>7 DEF UnloadedInv, TaskInv

LEMMA LoadsGrow == TypeOK /\ [Next]_vars /\ loads' = 0 => loads = 0
<1> SUFFICES ASSUME TypeOK, [Next]_vars PROVE loads' = loads \/ loads' = loads + 1
  BY OrchestratorAssumption DEF TypeOK
<1>1. CASE \E a \in Agent : AgentStep(a)
  BY <1>1 DEF AgentStep, Acquired, AcquireTimeout, BackoffEnds, AgentFinishes,
              AgentRateLimited, AgentThrows, AgentSaved, TerminalClosed, boundVars
<1>2. CASE Start \/ InitDb \/ Researched \/ AddTask \/ SetPlan \/ StartFails
  BY <1>2 DEF Start, InitDb, Researched, AddTask, SetPlan, StartFails, boundVars
<1>3. CASE \/ ApprovePlan \/ ExecStart \/ ExecRejected \/ Poll \/ WaitForCompletion
           \/ Synthesized \/ FinalSaved
  BY <1>3 DEF ApprovePlan, ExecStart, ExecRejected, Poll, WaitForCompletion, Synthesized,
              FinalSaved, boundVars
<1>4. CASE \/ PanelTick \/ Pause \/ Resume \/ PanelCancel \/ OrchestratorCancel
           \/ LoadSession \/ Restart
  BY <1>4 DEF PanelTick, Pause, Resume, PanelCancel, OrchestratorCancel, LoadSession,
              Restart, boundVars
<1>5. CASE UNCHANGED vars
  BY <1>5 DEF vars, boundVars
<1> QED
  BY <1>1, <1>2, <1>3, <1>4, <1>5 DEF Next

LEMMA SwarmNext == SwarmInv /\ [Next]_vars => SwarmInv'
<1> SUFFICES ASSUME SwarmInv, [Next]_vars PROVE SwarmInv'
  OBVIOUS
<1>1. TypeOK /\ TypeOK'
  BY TypeNext DEF SwarmInv
<1>2. ASSUME loads' = 0 PROVE UnloadedInv'
  <2>1. TaskInv /\ SessionInv /\ ExecInv
    BY <1>1, <1>2, LoadsGrow DEF SwarmInv, UnloadedInv
  <2> QED
    BY <1>1, <1>2, <2>1, TasksNext, SessionNext, ExecNext DEF UnloadedInv
<1> QED
  BY <1>1, <1>2 DEF SwarmInv

LEMMA SwarmInvariant == Spec => []SwarmInv
<1>1. Init => SwarmInv
  BY SwarmInit
<1>2. SwarmInv /\ [Next]_vars => SwarmInv'
  BY SwarmNext
<1> QED
  BY <1>1, <1>2, PTL DEF Spec

\* As long as no session is loaded, two agents are never about to write the status of one
\* task, though a task that returns to pending is dispatched again while its former agent
\* still closes its terminal.
THEOREM OneAgent == Spec => [](loads = 0 => OneAgentPerTask)
<1>1. SwarmInv => (loads = 0 => OneAgentPerTask)
  <2> SUFFICES ASSUME ChargeInv, NEW a \in InCharge, NEW b \in InCharge, a[1] = b[1]
               PROVE  a = b
    BY DEF SwarmInv, UnloadedInv, TaskInv, OneAgentPerTask
  <2>1. a = <<a[1], a[2]>> /\ b = <<b[1], b[2]>>
    BY AgentParts DEF InCharge
  <2> QED
    BY <2>1 DEF ChargeInv
<1> QED
  BY <1>1, SwarmInvariant, PTL

\* As long as no session is loaded, every task the list shows running has an agent that is
\* still to write its status: cancellation, a second swarm and a restart leave none behind.
THEOREM RunningTended == Spec => [](loads = 0 => RunningHasAgent)
<1>1. SwarmInv => (loads = 0 => RunningHasAgent)
  BY DEF SwarmInv, UnloadedInv, TaskInv, ChargeInv
<1> QED
  BY <1>1, SwarmInvariant, PTL

\* As long as no session is loaded, an agent was started for a listed task only when all
\* its prerequisites were completed, and they stay so.
THEOREM DependenciesFirst == Spec => [](loads = 0 => DependencyOrder)
<1>1. SwarmInv => (loads = 0 => DependencyOrder)
  BY DEF SwarmInv, UnloadedInv, TaskInv, PlanInv
<1> QED
  BY <1>1, SwarmInvariant, PTL

\* As long as no session is loaded, at most maxRetries agents are started for a task: the
\* count in the agent's snapshot and that in the store never drift apart.
THEOREM RetriesBounded == Spec => [](loads = 0 => AttemptsBounded)
<1>1. SwarmInv => (loads = 0 => AttemptsBounded)
  BY DEF SwarmInv, UnloadedInv, TaskInv, RetryInv
<1> QED
  BY <1>1, SwarmInvariant, PTL

\* As long as no session is loaded, the final status executePlan saves for a swarm nobody
\* cancelled is the verdict over settled tasks: none changes during the synthesis and the
\* writes between the completion check and the save.
THEOREM VerdictSound == Spec => [](loads = 0 => FinalVerdictSound)
<1>1. SwarmInv => (loads = 0 => FinalVerdictSound)
  BY DEF SwarmInv, UnloadedInv, ExecInv
<1> QED
  BY <1>1, SwarmInvariant, PTL

LEMMA SettledStep ==
  ASSUME TypeOK, TypeOK', TaskInv, [Next]_vars, loads' = 0,
         NEW t \in tasks \cap tasks',
         taskStatus[t] \in {"completed", "failed", "awaiting_input"}
  PROVE  taskStatus'[t] = taskStatus[t]
<1>1. CASE \E a \in Agent : AgentStep(a)
  BY <1>1, AgentStepStatus
<1>2. CASE ExecStart \/ Poll
  BY <1>2, DispatchStatus DEF ExecStart, Poll
<1>3. CASE PanelCancel \/ OrchestratorCancel
  BY <1>3, CancelStatus
<1>4. CASE AddTask
  <2>1. taskStatus' = [taskStatus EXCEPT ![created + 1] = "pending"]
    BY <1>4 DEF AddTask, addTask
  <2>2. t <= created /\ created \in Nat /\ t \in Nat
    BY TaskAssumption DEF TaskInv, PlanInv, TypeOK, StoreTypeOK, StartTypeOK, Task
  <2> QED
    BY <2>1, <2>2 DEF TypeOK, StoreTypeOK
<1>5. CASE Restart
  BY <1>5 DEF Restart, resetSwarm, noTasks
<1> QED
  BY <1>1, <1>2, <1>3, <1>4, <1>5, OtherStatus

\* As long as no session is loaded, a listed task that completed, failed or awaits the user
\* keeps that status: no late agent, dispatch or cancellation overwrites it.
THEOREM SettledStays == Spec /\ [](loads = 0) => SettledIsFinal
<1>1. SwarmInv /\ (loads = 0) /\ (loads = 0)' /\ SwarmInv' /\ [Next]_vars =>
        [\A t \in tasks \cap tasks' :
            taskStatus[t] \in {"completed", "failed", "awaiting_input"}
                => taskStatus'[t] = taskStatus[t]]_vars
  BY SettledStep DEF SwarmInv, UnloadedInv
<1> QED
  BY <1>1, SwarmInvariant, PTL DEF Spec, SettledIsFinal

LEMMA DispatchStep ==
  ASSUME TypeOK, TypeOK', TaskInv, ExecInv, [Next]_vars, loads' = 0,
         attempts' # attempts, execSession = sessionId
  PROVE  planApproved /\ ~cancelRequested /\ status # "paused"
<1>1. ExecStart \/ Poll
  <2>1. ~(PanelCancel \/ OrchestratorCancel)
    BY CancelStatus
  <2>2. ~(\E a \in Agent : AgentStep(a))
    BY DEF AgentStep, Acquired, AcquireTimeout, BackoffEnds, AgentFinishes,
           AgentRateLimited, AgentThrows, AgentSaved, TerminalClosed
  <2>3. ~AddTask /\ ~Restart
    BY DEF AddTask, Restart, agentVars
  <2> QED
    BY <2>1, <2>2, <2>3, OtherStatus
<1>2. processReadyTasks /\ exec # "idle"
  BY <1>1 DEF ExecStart, Poll
<1>3. ~nothingToStart
  BY <1>2, DispatchStatus
<1> QED
  BY <1>2, <1>3 DEF nothingToStart, ExecInv

\* As long as no session is loaded, the executor of the listed swarm starts agents only for
\* a plan that was approved, and only while the swarm is neither paused nor cancelled.
THEOREM DispatchApproved == Spec /\ [](loads = 0) => DispatchOnlyApproved
<1>1. SwarmInv /\ (loads = 0) /\ (loads = 0)' /\ SwarmInv' /\ [Next]_vars =>
        [attempts' # attempts /\ execSession = sessionId
           => planApproved /\ ~cancelRequested /\ status # "paused"]_vars
  BY DispatchStep DEF SwarmInv, UnloadedInv
<1> QED
  BY <1>1, SwarmInvariant, PTL DEF Spec, DispatchOnlyApproved
===============================================================================
