-------------------------- MODULE OrchestratorClaims --------------------------
(***************************************************************************)
(* What the documentation, the comments, the tests and the panel's texts   *)
(* say of the swarm and the code does not keep. Two of these claims are    *)
(* the subject of a run; the README tells the counterexample of each.      *)
(***************************************************************************)
EXTENDS Orchestrator

\* "Graceful Stop: let running agents finish their current task": no agent
\* that still works on its task is aborted under a graceful cancellation.
GracefulLetsAgentsFinish == cancelMode = "graceful" => InCharge \cap aborted = {}

\* "Abort All: stop all agents immediately": a cancelled task does not
\* complete any more.
CancelledNeverCompletes ==
    [][\A t \in tasks \cap tasks' :
           taskStatus[t] = "cancelled" => taskStatus'[t] # "completed"]_vars

\* "cancelSwarm immediate marks failed": and the swarm is not shown completed
\* after that.
ImmediateIsFailed == cancelMode = "immediate" => status # "completed"

\* "Cancel any remaining agents": cleanup aborts every agent at work.
CleanupReachesAll ==
    [][exec = "polling" /\ exec' # "polling" => InCharge \subseteq aborted']_vars

\* "Completion: collect results, persist outcomes, mark swarm session complete
\* or failed": a polling swarm gets there unless the user holds it.
UserHolds == status = "paused" \/ getTasksByStatus("awaiting_input") # {}
PlanResolved == \A t \in tasks : Unresolved \notin dependencies[t]
SwarmCompletes ==
    (exec = "polling" /\ PlanResolved) ~> (exec = "idle" \/ UserHolds)

\* "Wait for user approval": a plan that is set, with no task started and no
\* execution under way, still has its Approve button.
PlanCanBeApproved ==
    plan /\ starter = "idle" /\ exec = "idle"
         /\ (\A t \in tasks : attempts[t] = 0)
         /\ ~cancelRequested
        => status = "planning" /\ ~planApproved

\* "awaiting_input is non-terminal": a swarm with such a task, not cancelled,
\* is not shown completed.
AwaitingIsNotDone ==
    ~cancelRequested /\ getTasksByStatus("awaiting_input") # {}
        => status # "completed"

\* "Persist task status": a failed task whose agents are all done is failed in
\* its row.
FailurePersisted ==
    \A t \in tasks :
        /\ taskStatus[t] = "failed"
        /\ attempts[t] > 0
        /\ \A a \in Agent : a[1] = t => phase[a] \in {"none", "done"}
        => dbTask[t] = "failed"

\* "Start agents as dependency and concurrency limits allow": while a swarm
\* executes its own plan, the agents in conversation keep to
\* maxConcurrentAgents.
WorkingBound ==
    exec = "polling" /\ execSession = sessionId
        => Cardinality({a \in Agent : phase[a] = "working"}) <= MaxConcurrentAgents
===============================================================================
