----------------------------- MODULE Orchestrator -----------------------------
(***************************************************************************)
(* The orchestrator agent (agents/orchestrator/index.ts): a goal becomes a *)
(* graph of tasks, each task an escrowed job of the provider the registry  *)
(* names, in the order of the dependencies.  The registry, the providers   *)
(* and the chain are external: they answer, fail or stay silent.           *)
(*                                                                         *)
(* A plan is a function from its tasks to those each depends on; the       *)
(* wording of a goal is the plan it selects.  Tasks are numbered in the    *)
(* order of the Map, which executeDAG goes through.                        *)
(***************************************************************************)
EXTENDS Naturals, FiniteSets, FiniteSetsExt

\* planTasks: launching a product, research, and any other goal.
Plans == {"launch", "research", "generic"}
planTasks(goal) ==
    CASE goal = "launch" -> <<{}, {1}, {2}>>        \* name, copy, web
      [] goal = "research" -> <<{}, {1}>>           \* research, report
      [] OTHER -> <<{}, {1}, {2}>>                  \* task-1, task-2, task-3

VARIABLES
    dependsOn,      \* the TaskDAG's edges
    taskStatus,     \* TaskNode.status
    delivered,      \* TaskNode.deliverable is set
    described,      \* the deliverables its description was filled in with
    orchAt,         \* "looking", "asking", "escrowing", "polling", "reported"
    current,        \* the task being executed, or 0
    stalls,         \* iterationsWithoutProgress
    escrow          \* external: what became of the task's job on the chain

orchestratorVars ==
    <<dependsOn, taskStatus, delivered, described, orchAt, current, stalls, escrow>>

Tasks == DOMAIN taskStatus

OrchestratorStart(goal) ==
    /\ dependsOn = planTasks(goal)
    /\ taskStatus = [t \in DOMAIN dependsOn |-> "pending"]
    /\ delivered = [t \in DOMAIN dependsOn |-> FALSE]
    /\ described = [t \in DOMAIN dependsOn |-> {}]
    /\ orchAt = "looking" /\ current = 0 /\ stalls = 0
    /\ escrow = [t \in DOMAIN dependsOn |-> "none"]

OrchestratorInit == \E goal \in Plans : OrchestratorStart(goal)

-----------------------------------------------------------------------------
isReady(t) == taskStatus[t] = "pending"
              /\ \A d \in dependsOn[t] : taskStatus[d] = "completed"

\* One round of handlePartialFailure's fixpoint over the graph, and all of them:
\* the failed task with everything that waits for it, however far away.
WithDependents(failing) == failing \cup {t \in Tasks : dependsOn[t] \cap failing # {}}

\* Mutant: What waits for the failed task is left waiting.
ToFailAlone(t) == {t}

ToFail(t) ==
    LET rounds[n \in 0..Cardinality(Tasks)] ==
          IF n = 0 THEN {t} ELSE WithDependents(rounds[n - 1])
    IN  rounds[Cardinality(Tasks)]

handlePartialFailure(t) ==
    /\ taskStatus' = [u \in Tasks |->
                        IF u \in ToFail(t) /\ taskStatus[u] # "completed" THEN "failed"
                        ELSE taskStatus[u]]
    /\ orchAt' = "looking" /\ current' = 0

AllDone == \A t \in Tasks : taskStatus[t] \in {"completed", "failed"}

\* executeDAG takes the first task that is ready; its description is filled in
\* with the deliverables of the tasks it depends on.
TakeTask ==
    /\ orchAt = "looking" /\ ~AllDone
    /\ \E t \in Tasks : isReady(t)
    /\ LET t == Min({u \in Tasks : isReady(u)}) IN
         /\ taskStatus' = [taskStatus EXCEPT ![t] = "running"]
         /\ described' = [described EXCEPT ![t] = {d \in dependsOn[t] : delivered[d]}]
         /\ current' = t
    /\ orchAt' = "asking" /\ stalls' = 0
    /\ UNCHANGED <<dependsOn, delivered, escrow>>

\* Nothing is ready: the report when every task is done, else another round, and
\* the report after dag.size + 1 of them.
Report ==
    /\ orchAt = "looking" /\ ~\E t \in Tasks : isReady(t)
    /\ stalls' = IF AllDone THEN stalls ELSE stalls + 1
    /\ orchAt' = IF AllDone \/ stalls' > Cardinality(Tasks) + 1 THEN "reported" ELSE orchAt
    /\ UNCHANGED <<dependsOn, taskStatus, delivered, described, current, escrow>>

-----------------------------------------------------------------------------
\* findProvider: the registry has a provider for the skill, or has none, or
\* cannot be reached.
ProviderFound ==
    /\ orchAt = "asking" /\ orchAt' = "escrowing"
    /\ UNCHANGED <<dependsOn, taskStatus, delivered, described, current, stalls, escrow>>

NoProvider ==
    /\ orchAt = "asking" /\ handlePartialFailure(current)
    /\ UNCHANGED <<dependsOn, delivered, described, stalls, escrow>>

\* createJob answers with the job's id.
JobEscrowed ==
    /\ orchAt = "escrowing" /\ orchAt' = "polling"
    /\ escrow' = [escrow EXCEPT ![current] = "funded"]
    /\ UNCHANGED <<dependsOn, taskStatus, delivered, described, current, stalls>>

\* createJob throws: before the transaction, or after it (its answer is lost, and
\* the escrow stands without anybody knowing its id).
EscrowFails ==
    /\ orchAt = "escrowing"
    /\ escrow' \in {escrow, [escrow EXCEPT ![current] = "orphaned"]}
    /\ handlePartialFailure(current)
    /\ UNCHANGED <<dependsOn, delivered, described, stalls>>

\* The chain: the job is completed, or rejected or cancelled.
JobEnds ==
    /\ \E t \in Tasks, end \in {"completed", "ended"} :
         escrow[t] = "funded" /\ escrow' = [escrow EXCEPT ![t] = end]
    /\ UNCHANGED <<dependsOn, taskStatus, delivered, described, orchAt, current, stalls>>

\* _pollJobCompletion sees the end of the job, ...
PollSeesCompleted ==
    /\ orchAt = "polling" /\ escrow[current] = "completed"
    /\ taskStatus' = [taskStatus EXCEPT ![current] = "completed"]
    /\ delivered' = [delivered EXCEPT ![current] = TRUE]
    /\ orchAt' = "looking" /\ current' = 0
    /\ UNCHANGED <<dependsOn, described, stalls, escrow>>

\* ... or its rejection, or the end of five minutes: the budget may be in escrow still, or
\* the job completed meanwhile, unseen because getJob failed to the deadline.
PollGivesUp ==
    /\ orchAt = "polling"
    /\ handlePartialFailure(current)
    /\ UNCHANGED <<dependsOn, delivered, described, stalls, escrow>>

OrchestratorNext ==
    \/ TakeTask \/ Report \/ ProviderFound \/ NoProvider \/ JobEscrowed
    \/ EscrowFails \/ JobEnds \/ PollSeesCompleted \/ PollGivesUp

OrchestratorTypeOK ==
    /\ \A t \in Tasks : /\ dependsOn[t] \subseteq Tasks
                        /\ taskStatus[t] \in {"pending", "running", "completed", "failed"}
                        /\ escrow[t] \in {"none", "funded", "completed", "ended", "orphaned"}
    /\ delivered \in [Tasks -> BOOLEAN] /\ described \in [Tasks -> SUBSET Tasks]
    /\ orchAt \in {"looking", "asking", "escrowing", "polling", "reported"}
    /\ current \in Tasks \cup {0} /\ stalls \in Nat

-----------------------------------------------------------------------------
\* A plan runs out: the report leaves no task pending or running (the loop never
\* gives up as stalled, index.ts:265-271), a task was paid for only with all the
\* work before it in its description, and a failure reaches everything that
\* waits for the failed task, across the whole graph.
PlanRunsOut ==
    /\ orchAt = "reported" => AllDone
    /\ \A t \in Tasks :
         /\ escrow[t] # "none" => described[t] = dependsOn[t]
         /\ taskStatus[t] = "failed" /\ current = 0 =>
              \A u \in Tasks : t \in dependsOn[u] => taskStatus[u] = "failed"
=============================================================================
