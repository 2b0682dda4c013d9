-------------------------- MODULE MilestoneEscrow --------------------------
(***************************************************************************)
(* Milestone jobs of the agentic-commerce contract: a job whose budget is  *)
(* released milestone by milestone.  The job itself is one of JobEscrow's  *)
(* jobs, so every entry point of that module accepts its id too;           *)
(* milestones is the extra storage under DataKey::Milestones.              *)
(***************************************************************************)
EXTENDS JobEscrow

CONSTANTS
    MilestoneAmounts,   \* amounts a client gives a milestone
    MilestonePlans      \* milestone lists a client hands in

Milestone == [amount : MilestoneAmounts, deliverable : Uris \cup {Blank},
              approved : BOOLEAN]

ASSUME MilestoneAssumption ==
    /\ MilestoneAmounts \subseteq Int
    /\ \A plan \in MilestonePlans : plan \in Seq(Milestone)

VARIABLE milestones

MAX_MILESTONES == 20

IsMilestoneJob(id) == id \in DOMAIN milestones

MilestoneInit == milestones = << >>

Amounts(plan) == [i \in DOMAIN plan |-> plan[i].amount]

PlanTotal(plan) == SumFunction(Amounts(plan))

\* The list is stored as it was handed in, deliverables and approvals too.
create_milestone_job(client, provider, evaluator, token, budget, plan) ==
    /\ require_not_paused
    /\ initialized
    /\ require_minimum_job_budget(token, budget)
    /\ Len(plan) \in 1..MAX_MILESTONES
    /\ client # provider
    /\ provider # evaluator
    /\ \A i \in DOMAIN plan : plan[i].amount > 0
    /\ PlanTotal(plan) = budget
    /\ StoreJob(NewJob(client, [provider |-> provider, evaluator |-> evaluator,
                                token |-> token, budget |-> budget], NoSla))
    /\ milestones' = [id \in DOMAIN milestones \cup {Len(jobs) + 1} |->
                        IF id \in DOMAIN milestones THEN milestones[id] ELSE plan]
    /\ UNCHANGED quorums

\* Mutant: the milestone before is not consulted.
SubmitAnyMilestone(caller, id, idx, deliverable) ==
    /\ require_not_paused
    /\ caller = jobs[id].provider
    /\ jobs[id].status \in {"Funded", "Submitted"}
    /\ deliverable # Blank
    /\ ~milestones[id][idx].approved
    /\ milestones' = [milestones EXCEPT ![id][idx].deliverable = deliverable]
    /\ UNCHANGED <<held, jobs, quorums, paid>>

\* Only the milestone just before must be approved; resubmission is allowed.
submit_milestone(caller, id, idx, deliverable) ==
    /\ require_not_paused
    /\ caller = jobs[id].provider
    /\ jobs[id].status \in {"Funded", "Submitted"}
    /\ deliverable # Blank
    /\ idx > 1 => milestones[id][idx - 1].approved
    /\ ~milestones[id][idx].approved
    /\ milestones' = [milestones EXCEPT ![id][idx].deliverable = deliverable]
    /\ UNCHANGED <<held, jobs, quorums, paid>>

\* Mutant: an approved milestone is released again.
ApproveMilestoneAgain(caller, id, idx) ==
    /\ require_not_paused
    /\ caller = jobs[id].evaluator
    /\ jobs[id].status \in {"Funded", "Submitted"}
    /\ milestones[id][idx].deliverable # Blank
    /\ milestones' = [milestones EXCEPT ![id][idx].approved = TRUE]
    /\ LET amount == milestones[id][idx].amount
           fee    == compute_fee(amount, jobs[id].fee_bps)
       IN  /\ jobs' = [jobs EXCEPT ![id].released = @ + amount]
           /\ Disburse(id, 0, amount - fee, fee)
    /\ UNCHANGED quorums

approve_milestone(caller, id, idx) ==
    /\ require_not_paused
    /\ caller = jobs[id].evaluator
    /\ jobs[id].status \in {"Funded", "Submitted"}
    /\ ~milestones[id][idx].approved
    /\ milestones[id][idx].deliverable # Blank
    /\ milestones' = [milestones EXCEPT ![id][idx].approved = TRUE]
    /\ LET amount   == milestones[id][idx].amount
           fee      == compute_fee(amount, jobs[id].fee_bps)
           released == jobs[id].released + amount
       IN  /\ jobs' = [jobs EXCEPT
                         ![id].released = released,
                         ![id].updated_at = now,
                         ![id].status = IF released >= jobs[id].budget
                                        THEN "Completed" ELSE @]
           /\ Disburse(id, 0, amount - fee, fee)
    /\ UNCHANGED quorums

\* Mutant: a completed job can be cancelled.
CancelCompletedMilestones(caller, id) ==
    /\ require_not_paused
    /\ caller = jobs[id].client
    /\ jobs[id].status # "Cancelled"
    /\ jobs' = [jobs EXCEPT ![id] = Settled(jobs[id], "Cancelled")]
    /\ Disburse(id, jobs[id].budget - jobs[id].released, 0, 0)
    /\ UNCHANGED <<quorums, milestones>>

cancel_uncompleted_milestones(caller, id) ==
    /\ require_not_paused
    /\ caller = jobs[id].client
    /\ jobs[id].status \notin Terminal
    /\ jobs' = [jobs EXCEPT ![id] = Settled(jobs[id], "Cancelled")]
    /\ Disburse(id, jobs[id].budget - jobs[id].released, 0, 0)
    /\ UNCHANGED <<quorums, milestones>>

MilestoneStep(caller, id) ==
    \/ \E idx \in DOMAIN milestones[id] :
          \/ \E d \in Uris \cup {Blank} : submit_milestone(caller, id, idx, d)
          \/ approve_milestone(caller, id, idx)
    \/ cancel_uncompleted_milestones(caller, id)

CreateMilestones ==
    \E client \in Clients, provider \in Providers, evaluator \in Evaluators,
       token \in Tokens, budget \in Budgets, plan \in MilestonePlans :
       create_milestone_job(client, provider, evaluator, token, budget, plan)

MilestoneNext ==
    /\ \/ CreateMilestones
       \/ \E caller \in Addr, id \in DOMAIN milestones : MilestoneStep(caller, id)
    /\ UNCHANGED <<config, now>>

=============================================================================
