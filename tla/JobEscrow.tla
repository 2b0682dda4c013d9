----------------------------- MODULE JobEscrow -----------------------------
(***************************************************************************)
(* Escrowed jobs of the agentic-commerce contract: creation (single, batch *)
(* and with an evaluator quorum), submission, approval, dispute, and the   *)
(* four ways the escrow is settled.                                        *)
(*                                                                         *)
(* jobs is the storage under DataKey::Job: job ids are dense and start at  *)
(* 1, so it is a sequence and NextId is Len(jobs) + 1.  quorums is         *)
(* DataKey::Evaluators, which only some jobs have.  paid is no storage of  *)
(* the contract: it is what the token contracts recorded as transferred    *)
(* out of the escrow on behalf of each job, by the role that received it.  *)
(***************************************************************************)
EXTENDS CommerceBase, FiniteSetsExt, SequencesExt

CONSTANTS
    Clients, Providers, Evaluators,     \* who takes which part; may overlap
    Budgets,            \* budgets asked for
    SlaTerms,           \* [deadline, penalty] pairs asked for; 0 is none
    Quorums,            \* [primary, weights, threshold] asked for
    Batches,            \* sequences of requests of one batch_create_jobs
    Hashes, ZeroHash,   \* content hashes, and the "noneCommitted" sentinel
    Uris, Blank,        \* deliverable URIs, and a blank one
    REFUND_TIMEOUT_SECS,
    MaxJobs             \* bound: how many jobs are ever created

EvalWeights == {q.weights : q \in Quorums}

ASSUME JobAssumption ==
    /\ Clients \cup Providers \cup Evaluators \subseteq Addr
    /\ Budgets \subseteq Nat
    /\ \A s \in SlaTerms : s.deadline \in Nat /\ s.penalty \in Nat
    /\ \A q \in Quorums : q.threshold \in Nat /\ q.primary \in Addr
    /\ \A w \in EvalWeights :
          DOMAIN w \subseteq Addr /\ \A e \in DOMAIN w : w[e] \in Nat
    /\ \A b \in Batches : b \in Seq([provider : Addr, evaluator : Addr,
                                     token : Tokens, budget : Nat])
    /\ ZeroHash \notin Hashes /\ Blank \notin Uris
    /\ REFUND_TIMEOUT_SECS \in Nat

VARIABLES jobs, quorums, paid

jobVars == <<jobs, quorums, paid>>

MAX_EVALUATORS == 5
MAX_BATCH_SIZE == 10

\* The source's enum also has Open, which no entry point ever assigns.
JobStatus == {"Funded", "Submitted", "Completed", "Cancelled", "Disputed"}
Terminal  == {"Completed", "Cancelled"}

JobIds     == DOMAIN jobs
IsQuorum(id) == id \in DOMAIN quorums
NoPayment  == [client |-> 0, provider |-> 0, treasury |-> 0]
NoSla      == [deadline |-> 0, penalty |-> 0]
Disbursed(id) == paid[id].client + paid[id].provider + paid[id].treasury

JobInit ==
    /\ jobs = << >>
    /\ quorums = << >>
    /\ paid = << >>

----------------------------------------------------------------------------
(* Creation. *)

NewJob(client, req, sla) ==
    [ client |-> client, provider |-> req.provider,
      evaluator |-> req.evaluator, token |-> req.token,
      budget |-> req.budget, released |-> 0, status |-> "Funded",
      deliverable |-> Blank, deliverable_hash |-> ZeroHash,
      funded_at |-> now, updated_at |-> now,
      fee_bps |-> config.fee_bps,
      sla_deadline |-> sla.deadline, penalty_bps_per_hour |-> sla.penalty,
      submitted_at |-> 0 ]

\* The deposit of one job, the job's record, and an empty payment record.
StoreJob(job) ==
    /\ Len(jobs) < MaxJobs
    /\ held' = [held EXCEPT ![job.token] = @ + job.budget]
    /\ jobs' = Append(jobs, job)
    /\ paid' = Append(paid, NoPayment)

ValidRequest(client, req) ==
    /\ require_minimum_job_budget(req.token, req.budget)
    /\ ~AboveEvalThreshold(req.budget)
    /\ client # req.provider
    /\ req.provider # req.evaluator
    /\ TokenAllowed(req.token)

create_job(client, req, sla) ==
    /\ require_not_paused
    /\ initialized
    /\ ValidRequest(client, req)
    /\ StoreJob(NewJob(client, req, sla))
    /\ UNCHANGED quorums

\* Mutant: a second request of the same token replaces the first one's total.
LastOfToken(reqs, token) ==
    FoldLeft(LAMBDA sum, r : IF r.token = token THEN r.budget ELSE sum, 0, reqs)

BatchTotal(reqs, token) ==
    SumFunctionOnSet([i \in DOMAIN reqs |-> reqs[i].budget],
                     {i \in DOMAIN reqs : reqs[i].token = token})

\* Every request is valid and every transfer succeeds, or nothing happens.
batch_create_jobs(client, reqs) ==
    /\ require_not_paused
    /\ initialized
    /\ Len(reqs) \in 1..MAX_BATCH_SIZE
    /\ \A i \in DOMAIN reqs : ValidRequest(client, reqs[i])
    /\ Len(jobs) + Len(reqs) <= MaxJobs
    /\ held' = [t \in Tokens |-> held[t] + BatchTotal(reqs, t)]
    /\ jobs' = jobs \o [i \in DOMAIN reqs |-> NewJob(client, reqs[i], NoSla)]
    /\ paid' = paid \o [i \in DOMAIN reqs |-> NoPayment]
    /\ UNCHANGED quorums

TotalWeight(weights) == SumFunction(weights)

\* An unweighted quorum gives every evaluator the weight 1.
ValidQuorum(q) ==
    /\ q.primary \in DOMAIN q.weights
    /\ Cardinality(DOMAIN q.weights) <= MAX_EVALUATORS
    /\ \A e \in DOMAIN q.weights : q.weights[e] > 0
    /\ q.threshold > 0
    /\ q.threshold <= TotalWeight(q.weights)

IsWeighted(q) == \E e \in DOMAIN q.weights : q.weights[e] # 1

\* create_job_multi_eval and create_job_multi_eval_weighted, which takes no SLA.
create_job_multi_eval(client, provider, q, token, budget, sla) ==
    /\ require_not_paused
    /\ initialized
    /\ require_minimum_job_budget(token, budget)
    /\ AboveEvalThreshold(budget)
    /\ ValidQuorum(q)
    /\ IsWeighted(q) => sla = NoSla
    /\ provider # client
    /\ provider \notin DOMAIN q.weights
    /\ TokenAllowed(token)
    /\ StoreJob(NewJob(client, [provider |-> provider, evaluator |-> q.primary,
                                token |-> token, budget |-> budget], sla))
    /\ quorums' = [id \in DOMAIN quorums \cup {Len(jobs) + 1} |->
                     IF id \in DOMAIN quorums THEN quorums[id]
                     ELSE [ weights |-> q.weights, threshold |-> q.threshold,
                            approvals |-> {}, accumulated_weight |-> 0 ]]

----------------------------------------------------------------------------
(* Settlement. *)

\* Pays the shares out of the escrow, or panics when it cannot.
Disburse(id, client, provider, treasury) ==
    /\ Withdraw(jobs[id].token, client + provider + treasury)
    /\ paid' = [paid EXCEPT ![id] = [client   |-> @.client + client,
                                     provider |-> @.provider + provider,
                                     treasury |-> @.treasury + treasury]]

Settled(job, status) ==
    [job EXCEPT !.status = status, !.released = job.budget, !.updated_at = now]

\* Mutant: the fee is charged to the escrow instead of the payout.
FeeOnTop(id, fee_bps) ==
    LET job     == jobs[id]
        penalty == compute_sla_penalty(job)
    IN  /\ jobs' = [jobs EXCEPT ![id] = Settled(job, "Completed")]
        /\ Disburse(id, penalty, job.budget - penalty,
                    compute_fee(job.budget - penalty, fee_bps))

\* The payout of complete, settle_job and claim_expired, at a given fee rate.
PayOut(id, fee_bps) ==
    LET job     == jobs[id]
        penalty == compute_sla_penalty(job)
        fee     == compute_fee(job.budget - penalty, fee_bps)
    IN  /\ jobs' = [jobs EXCEPT ![id] = Settled(job, "Completed")]
        /\ Disburse(id, penalty, job.budget - penalty - fee, fee)

\* Mutant: the unreleased part is read after released is set to the budget.
RefundAfterRelease(id) ==
    /\ jobs' = [jobs EXCEPT ![id] = Settled(jobs[id], "Cancelled")]
    /\ quorums' = [q \in DOMAIN quorums \ {id} |-> quorums[q]]
    /\ Disburse(id, jobs[id].budget - Settled(jobs[id], "Cancelled").released, 0, 0)

\* The refund of cancel and claim_refund: what was not released before.
Refund(id) ==
    /\ jobs' = [jobs EXCEPT ![id] = Settled(jobs[id], "Cancelled")]
    /\ quorums' = [q \in DOMAIN quorums \ {id} |-> quorums[q]]
    /\ Disburse(id, jobs[id].budget - jobs[id].released, 0, 0)

----------------------------------------------------------------------------
(* Entry points on an existing job. *)

\* Mutant: a provider may submit again.
Resubmit(caller, id, deliverable, hash) ==
    /\ require_not_paused
    /\ caller = jobs[id].provider
    /\ jobs[id].status \in {"Funded", "Submitted"}
    /\ deliverable # Blank
    /\ hash # ZeroHash
    /\ jobs' = [jobs EXCEPT ![id].status = "Submitted",
                            ![id].deliverable = deliverable,
                            ![id].deliverable_hash = hash,
                            ![id].updated_at = now]
    /\ UNCHANGED <<held, quorums, paid>>

submit(caller, id, deliverable, hash) ==
    /\ require_not_paused
    /\ caller = jobs[id].provider
    /\ jobs[id].status = "Funded"
    /\ deliverable # Blank
    /\ hash # ZeroHash
    /\ jobs' = [jobs EXCEPT ![id].status = "Submitted",
                            ![id].deliverable = deliverable,
                            ![id].deliverable_hash = hash,
                            ![id].updated_at = now]
    /\ UNCHANGED <<held, quorums, paid>>

\* Mutant: the approvals of a quorum are not asked for.
CompleteWithoutQuorum(caller, id, expected_hash) ==
    /\ require_not_paused
    /\ caller = jobs[id].evaluator
    /\ jobs[id].status \in {"Submitted", "Disputed"}
    /\ expected_hash = jobs[id].deliverable_hash
    /\ PayOut(id, jobs[id].fee_bps)
    /\ UNCHANGED quorums

\* Mutant: the job need not have been submitted.
CompleteUnsubmitted(caller, id, expected_hash) ==
    /\ require_not_paused
    /\ caller = jobs[id].evaluator
    /\ ~IsQuorum(id)
    /\ jobs[id].status \notin Terminal
    /\ expected_hash = jobs[id].deliverable_hash
    /\ PayOut(id, jobs[id].fee_bps)
    /\ UNCHANGED quorums

complete(caller, id, expected_hash) ==
    /\ require_not_paused
    /\ caller = jobs[id].evaluator
    /\ IsQuorum(id) => quorums[id].accumulated_weight >= quorums[id].threshold
    /\ jobs[id].status \in {"Submitted", "Disputed"}
    /\ expected_hash = jobs[id].deliverable_hash
    /\ PayOut(id, jobs[id].fee_bps)
    /\ UNCHANGED quorums

\* Mutant: the approvals already counted are not consulted.
ApproveAgain(evaluator, id) ==
    /\ require_not_paused
    /\ jobs[id].status \in {"Submitted", "Disputed"}
    /\ IsQuorum(id)
    /\ evaluator \in DOMAIN quorums[id].weights
    /\ LET weight == quorums[id].accumulated_weight
                     + quorums[id].weights[evaluator]
       IN  /\ quorums' = [quorums EXCEPT
                            ![id].approvals = @ \cup {evaluator},
                            ![id].accumulated_weight = weight]
           /\ IF weight >= quorums[id].threshold
              THEN PayOut(id, jobs[id].fee_bps)
              ELSE UNCHANGED <<held, jobs, paid>>

\* The approval that reaches the threshold also settles (settle_job).
approve_job(evaluator, id) ==
    /\ require_not_paused
    /\ jobs[id].status \in {"Submitted", "Disputed"}
    /\ IsQuorum(id)
    /\ evaluator \in DOMAIN quorums[id].weights
    /\ evaluator \notin quorums[id].approvals
    /\ LET weight == quorums[id].accumulated_weight
                     + quorums[id].weights[evaluator]
       IN  /\ quorums' = [quorums EXCEPT
                            ![id].approvals = @ \cup {evaluator},
                            ![id].accumulated_weight = weight]
           /\ IF weight >= quorums[id].threshold
              THEN PayOut(id, jobs[id].fee_bps)
              ELSE UNCHANGED <<held, jobs, paid>>

\* Mutant: only an already cancelled job is refused.
CancelCompleted(caller, id) ==
    /\ require_not_paused
    /\ caller = jobs[id].client
    /\ jobs[id].status # "Cancelled"
    /\ Refund(id)

cancel(caller, id) ==
    /\ require_not_paused
    /\ caller = jobs[id].client
    /\ jobs[id].status \in {"Funded", "Submitted", "Disputed"}
    /\ Refund(id)

dispute(caller, id) ==
    /\ require_not_paused
    /\ caller = jobs[id].client
    /\ jobs[id].status = "Submitted"
    /\ jobs' = [jobs EXCEPT ![id].status = "Disputed", ![id].updated_at = now]
    /\ UNCHANGED <<held, quorums, paid>>

claim_refund(caller, id) ==
    /\ require_not_paused
    /\ caller = jobs[id].client
    /\ jobs[id].status = "Funded"
    /\ now >= jobs[id].funded_at + REFUND_TIMEOUT_SECS
    /\ Refund(id)

\* Mutant: the timeout is one second late.
ClaimAfterTimeout(caller, id) ==
    /\ require_not_paused
    /\ caller = jobs[id].provider
    /\ jobs[id].status = "Submitted"
    /\ ~IsQuorum(id)
    /\ now > jobs[id].updated_at + REFUND_TIMEOUT_SECS
    /\ PayOut(id, config.fee_bps)
    /\ UNCHANGED quorums

\* Unlike complete, the fee rate is the one in force at the claim.
claim_expired(caller, id) ==
    /\ require_not_paused
    /\ caller = jobs[id].provider
    /\ jobs[id].status = "Submitted"
    /\ ~IsQuorum(id)
    /\ now >= jobs[id].updated_at + REFUND_TIMEOUT_SECS
    /\ PayOut(id, config.fee_bps)
    /\ UNCHANGED quorums

----------------------------------------------------------------------------
Request == [provider : Providers, evaluator : Evaluators,
            token : Tokens, budget : Budgets]

Create ==
    \E client \in Clients :
       \/ \E req \in Request, sla \in SlaTerms : create_job(client, req, sla)
       \/ \E reqs \in Batches : batch_create_jobs(client, reqs)
       \/ \E provider \in Providers, q \in Quorums, token \in Tokens,
             budget \in Budgets, sla \in SlaTerms :
             create_job_multi_eval(client, provider, q, token, budget, sla)

JobStep(caller, id) ==
    \/ \E d \in Uris \cup {Blank}, h \in Hashes \cup {ZeroHash} :
          submit(caller, id, d, h)
    \/ \E h \in Hashes \cup {ZeroHash} : complete(caller, id, h)
    \/ approve_job(caller, id)
    \/ cancel(caller, id)
    \/ dispute(caller, id)
    \/ claim_refund(caller, id)
    \/ claim_expired(caller, id)

JobNext ==
    /\ Create \/ \E caller \in Addr, id \in JobIds : JobStep(caller, id)
    /\ UNCHANGED <<config, now>>

=============================================================================
