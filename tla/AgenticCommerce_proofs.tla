----------------------- MODULE AgenticCommerce_proofs -----------------------
(***************************************************************************)
(* What holds of the agentic-commerce contract for every set of parties,   *)
(* tokens, budgets, rates, quorums, batches and milestone plans, and for   *)
(* any number of jobs.                                                     *)
(*                                                                         *)
(* The bounds on the fee and on the SLA penalty come first.  The proofs    *)
(* about the contract go through a classification of the steps by what     *)
(* they do to the job records and to what has been paid (Created, Moved,   *)
(* PaidOut, Refunded, Released); every property is then proved of the five *)
(* classes instead of the fourteen entry points.                           *)
(***************************************************************************)
EXTENDS AgenticCommerce, SequenceTheorems, TLAPS

----------------------------------------------------------------------------
(* The shares of a settlement. *)

USE DEF MAX_FEE_BPS, BPS_DENOM, MAX_SLA_PENALTY_BPS

(***************************************************************************)
(* The fee (compute_fee) is never negative and never more than what it is  *)
(* charged on, so the payout is not negative either.                       *)
(***************************************************************************)
THEOREM FeeBounds ==
    ASSUME NEW budget \in Nat, NEW fee_bps \in 0..MAX_FEE_BPS
    PROVE  compute_fee(budget, fee_bps) \in 0..budget
<1> DEFINE product == budget * fee_bps
<1>1. product \in Nat /\ product <= budget * MAX_FEE_BPS
  OBVIOUS
<1>2. product \div BPS_DENOM \in 0..budget
  BY <1>1
<1>3. CASE budget <= 0 \/ fee_bps = 0
  BY <1>3 DEF compute_fee
<1>4. CASE budget > 0 /\ fee_bps # 0
  BY <1>2, <1>4 DEF compute_fee
<1> QED
  BY <1>3, <1>4

(***************************************************************************)
(* A positive rate on a positive budget is never rounded down to no fee.   *)
(***************************************************************************)
THEOREM FeeIsNeverWaived ==
    ASSUME NEW budget \in Nat \ {0}, NEW fee_bps \in 1..MAX_FEE_BPS
    PROVE  compute_fee(budget, fee_bps) > 0
<1>1. budget * fee_bps \in Nat
  OBVIOUS
<1>2. (budget * fee_bps) \div BPS_DENOM \in Nat
  BY <1>1
<1> QED
  BY <1>2 DEF compute_fee

(***************************************************************************)
(* The fee is at most 5 % of what it is charged on, or one unit.           *)
(***************************************************************************)
THEOREM FeeCap ==
    ASSUME NEW budget \in Nat, NEW fee_bps \in 0..MAX_FEE_BPS
    PROVE  \/ compute_fee(budget, fee_bps) <= 1
           \/ compute_fee(budget, fee_bps) * BPS_DENOM <= budget * MAX_FEE_BPS
<1> DEFINE product == budget * fee_bps
<1>1. product \in Nat /\ product <= budget * MAX_FEE_BPS
  OBVIOUS
<1>2. (product \div BPS_DENOM) * BPS_DENOM <= product
  BY <1>1
<1>3. product \div BPS_DENOM \in Nat
  BY <1>1
<1> QED
  BY <1>1, <1>2, <1>3 DEF compute_fee

(***************************************************************************)
(* The SLA penalty (compute_sla_penalty) is at most half of the budget,    *)
(* however late the submission and whatever rate the client asked for.     *)
(***************************************************************************)
THEOREM PenaltyBounds ==
    ASSUME NEW job,
           job.budget \in Nat, job.sla_deadline \in Nat,
           job.submitted_at \in Nat, job.penalty_bps_per_hour \in Nat
    PROVE  /\ compute_sla_penalty(job) \in 0..job.budget
           /\ 2 * compute_sla_penalty(job) <= job.budget
<1>1. CASE \/ job.sla_deadline = 0 \/ job.penalty_bps_per_hour = 0
           \/ job.submitted_at <= job.sla_deadline
  BY <1>1 DEF compute_sla_penalty
<1>2. CASE /\ job.sla_deadline # 0 /\ job.penalty_bps_per_hour # 0
           /\ job.submitted_at > job.sla_deadline
  <2>1. OverdueHours(job) \in Nat
    BY <1>2, HourAssumption DEF OverdueHours, div_ceil
  <2>2. OverdueHours(job) * job.penalty_bps_per_hour \in Nat
    BY <2>1
  <2> DEFINE raw == OverdueHours(job) * job.penalty_bps_per_hour
  <2> HIDE DEF raw
  <2>3. SlaPenaltyBps(job) \in 0..MAX_SLA_PENALTY_BPS
    <3>1. raw \in Nat
      BY <2>2 DEF raw
    <3>2. SlaPenaltyBps(job) = IF raw > MAX_SLA_PENALTY_BPS
                               THEN MAX_SLA_PENALTY_BPS ELSE raw
      BY DEF SlaPenaltyBps, raw
    <3> QED
      BY <3>1, <3>2
  <2> DEFINE bps == SlaPenaltyBps(job)
  <2> DEFINE product == job.budget * bps
  <2> HIDE DEF bps
  <2>4. product \in Nat /\ product <= job.budget * MAX_SLA_PENALTY_BPS
    <3>1. bps \in 0..MAX_SLA_PENALTY_BPS
      BY <2>3 DEF bps
    <3>2. \A b \in Nat : b * bps \in Nat /\ b * bps <= b * MAX_SLA_PENALTY_BPS
      BY <3>1
    <3> QED
      BY <3>2
  <2>5. product \div BPS_DENOM \in Nat /\ 2 * (product \div BPS_DENOM) <= job.budget
    BY <2>4
  <2> QED
    BY <1>2, <2>5 DEF compute_sla_penalty, bps
<1> QED
  BY <1>1, <1>2

HIDE DEF MAX_FEE_BPS, BPS_DENOM, MAX_SLA_PENALTY_BPS

----------------------------------------------------------------------------
(* The inductive invariant. *)

\* An open job, milestone job or not, has released no more than its budget.
OpenWithinBudget ==
    \A id \in JobIds :
       jobs[id].status \notin Terminal => jobs[id].released <= jobs[id].budget

\* The content hash of an open job, milestone job or not, is the mark of its
\* submission.
CommittedOnSubmit ==
    \A id \in JobIds :
       jobs[id].status \notin Terminal =>
          (jobs[id].status = "Funded" <=> jobs[id].deliverable_hash = ZeroHash)

IInv ==
    /\ TypeOK /\ SettledOnce /\ FeeIsCapped /\ PaidForDelivery
    /\ OpenWithinBudget /\ CommittedOnSubmit

----------------------------------------------------------------------------
(* The classes of steps. *)

\* Job id is open, and the only job whose record or payments change.
OnlyJob(id) ==
    /\ id \in JobIds /\ jobs[id].status \notin Terminal
    /\ JobsOK' /\ PaidOK'
    /\ JobIds' = JobIds
    /\ jobs'[id].budget = jobs[id].budget
    /\ \A k \in JobIds \ {id} : jobs'[k] = jobs[k] /\ paid'[k] = paid[k]

Created ==
    /\ JobsOK' /\ PaidOK'
    /\ JobIds \subseteq JobIds' /\ JobIds # JobIds'
    /\ \A k \in JobIds : jobs'[k] = jobs[k] /\ paid'[k] = paid[k]
    /\ \A k \in JobIds' \ JobIds :
          /\ jobs'[k].status = "Funded" /\ jobs'[k].released = 0
          /\ jobs'[k].deliverable_hash = ZeroHash
          /\ paid'[k] = NoPayment

\* The hash is committed or kept.
Moved(id) ==
    /\ OnlyJob(id)
    /\ jobs'[id].status \in {"Submitted", "Disputed"}
    /\ jobs'[id].deliverable_hash # ZeroHash
    /\ \/ jobs[id].status = "Funded"
       \/ jobs'[id].deliverable_hash = jobs[id].deliverable_hash
    /\ jobs'[id].released = jobs[id].released
    /\ paid'[id] = paid[id]

PaidOut(id) ==
    /\ OnlyJob(id)
    /\ jobs[id].status # "Funded"
    /\ jobs'[id] = Settled(jobs[id], "Completed")
    /\ \E client, provider, treasury \in Nat :
          /\ client + provider + treasury = jobs[id].budget
          /\ 2 * client <= jobs[id].budget
          /\ \/ treasury <= 1
             \/ treasury * BPS_DENOM <= jobs[id].budget * MAX_FEE_BPS
          /\ paid'[id] = [client   |-> paid[id].client + client,
                          provider |-> paid[id].provider + provider,
                          treasury |-> paid[id].treasury + treasury]

Refunded(id) ==
    /\ OnlyJob(id)
    /\ jobs'[id] = Settled(jobs[id], "Cancelled")
    /\ paid'[id] = [paid[id] EXCEPT
                      !.client = @ + (jobs[id].budget - jobs[id].released)]

\* The amount released is paid, nothing of it to the client.
Released(id) ==
    /\ OnlyJob(id)
    /\ IsMilestoneJob(id)
    /\ \E provider, treasury \in Nat :
          /\ jobs'[id].released = jobs[id].released + (provider + treasury)
          /\ paid'[id] = [client   |-> paid[id].client,
                          provider |-> paid[id].provider + provider,
                          treasury |-> paid[id].treasury + treasury]
    /\ jobs'[id].deliverable_hash = jobs[id].deliverable_hash
    /\ jobs'[id].status \in {jobs[id].status, "Completed"}
    /\ jobs'[id].status \notin Terminal => jobs'[id].released <= jobs[id].budget

----------------------------------------------------------------------------
(* Lemmas about the operators the entry points share. *)

(***************************************************************************)
(* Replacing the record and the payments of one job leaves the rest alone. *)
(***************************************************************************)
LEMMA OneJobReplaced ==
    ASSUME JobsOK, PaidOK, NEW id \in JobIds, NEW job \in Job, NEW pay \in Payment,
           jobs[id].status \notin Terminal, job.budget = jobs[id].budget,
           jobs' = [jobs EXCEPT ![id] = job],
           paid' = [paid EXCEPT ![id] = pay]
    PROVE  OnlyJob(id) /\ jobs'[id] = job /\ paid'[id] = pay
<1>1. jobs \in Seq(Job) /\ paid \in Seq(Payment) /\ Len(paid) = Len(jobs)
  BY DEF JobsOK, PaidOK
<1>2. id \in 1..Len(jobs) /\ id \in 1..Len(paid) /\ JobIds = 1..Len(jobs)
  BY <1>1, LenProperties DEF JobIds
<1>3. /\ jobs' \in Seq(Job) /\ Len(jobs') = Len(jobs)
      /\ \A k \in 1..Len(jobs) : jobs'[k] = IF k = id THEN job ELSE jobs[k]
  BY <1>1, <1>2, ExceptSeq
<1>4. /\ paid' \in Seq(Payment) /\ Len(paid') = Len(paid)
      /\ \A k \in 1..Len(paid) : paid'[k] = IF k = id THEN pay ELSE paid[k]
  BY <1>1, <1>2, ExceptSeq
<1>5. JobIds' = JobIds
  BY <1>2, <1>3, LenProperties DEF JobIds
<1> QED
  BY <1>1, <1>2, <1>3, <1>4, <1>5 DEF OnlyJob, JobsOK, PaidOK

(***************************************************************************)
(* A settled job is a job, with the same budget.                           *)
(***************************************************************************)
LEMMA SettledIsJob ==
    ASSUME ConfigOK, NEW job \in Job, NEW status \in JobStatus
    PROVE  /\ Settled(job, status) \in Job
           /\ Settled(job, status).budget = job.budget
           /\ Settled(job, status).status = status
           /\ Settled(job, status).released = job.budget
BY DEF ConfigOK, Job, Settled

(***************************************************************************)
(* PayOut, the payout of complete, settle_job and claim_expired, pays out  *)
(* the budget at any rate under the cap.                                   *)
(***************************************************************************)
LEMMA PayOutPaysOut ==
    ASSUME ConfigOK, JobsOK, PaidOK, NEW id \in JobIds,
           jobs[id].status \in {"Submitted", "Disputed"},
           NEW fee_bps \in 0..MAX_FEE_BPS, PayOut(id, fee_bps)
    PROVE  PaidOut(id)
<1> DEFINE job      == jobs[id]
           penalty  == compute_sla_penalty(job)
           fee      == compute_fee(job.budget - penalty, fee_bps)
           provider == job.budget - penalty - fee
           pay      == [client   |-> paid[id].client + penalty,
                        provider |-> paid[id].provider + provider,
                        treasury |-> paid[id].treasury + fee]
<1>1. job \in Job /\ paid[id] \in Payment
  BY ElementOfSeq, LenProperties DEF JobsOK, PaidOK, JobIds
<1>2. penalty \in 0..job.budget /\ 2 * penalty <= job.budget
  BY <1>1, PenaltyBounds DEF Job
<1>3. job.budget - penalty \in Nat /\ job.budget \in Nat
  BY <1>1, <1>2 DEF Job
<1>4. fee \in 0..(job.budget - penalty)
  BY <1>3, FeeBounds
<1>5. provider \in Nat /\ penalty \in Nat /\ fee \in Nat
      /\ penalty + provider + fee = job.budget
  BY <1>2, <1>3, <1>4
<1>6. pay \in Payment
  BY <1>1, <1>5 DEF Payment
<1>7. /\ jobs' = [jobs EXCEPT ![id] = Settled(job, "Completed")]
      /\ paid' = [paid EXCEPT ![id] = [client   |-> @.client + penalty,
                                       provider |-> @.provider + provider,
                                       treasury |-> @.treasury + fee]]
  BY DEF PayOut, Disburse
<1>8. paid' = [paid EXCEPT ![id] = pay]
  BY <1>7
<1> DEFINE done == Settled(job, "Completed")
<1>9. done \in Job /\ done.budget = jobs[id].budget
  BY <1>1, SettledIsJob DEF JobStatus
<1>10. OnlyJob(id) /\ jobs'[id] = done /\ paid'[id] = pay
  <2> HIDE DEF done, pay
  <2>1. jobs' = [jobs EXCEPT ![id] = done]
    BY <1>7 DEF done
  <2> QED
    BY <1>6, <1>8, <1>9, <2>1, OneJobReplaced DEF Terminal
<1>11. fee <= 1 \/ fee * BPS_DENOM <= job.budget * MAX_FEE_BPS
  <2>1. fee <= 1 \/ fee * BPS_DENOM <= (job.budget - penalty) * MAX_FEE_BPS
    BY <1>3, FeeCap
  <2>2. (job.budget - penalty) * MAX_FEE_BPS <= job.budget * MAX_FEE_BPS
    BY <1>2, <1>3 DEF MAX_FEE_BPS
  <2>3. fee * BPS_DENOM \in Int /\ (job.budget - penalty) * MAX_FEE_BPS \in Int
        /\ job.budget * MAX_FEE_BPS \in Int
    BY <1>3, <1>5 DEF MAX_FEE_BPS, BPS_DENOM
  <2> QED
    BY <2>1, <2>2, <2>3
<1> QED
  BY <1>2, <1>5, <1>10, <1>11 DEF PaidOut

(***************************************************************************)
(* Refund, the refund of cancel and claim_refund (and the settlement of    *)
(* cancel_uncompleted_milestones), returns what was not released before.   *)
(***************************************************************************)
LEMMA RefundRefunds ==
    ASSUME ConfigOK, JobsOK, PaidOK, OpenWithinBudget, NEW id \in JobIds,
           jobs[id].status \notin Terminal,
           jobs' = [jobs EXCEPT ![id] = Settled(jobs[id], "Cancelled")],
           Disburse(id, jobs[id].budget - jobs[id].released, 0, 0)
    PROVE  Refunded(id)
<1> DEFINE job  == jobs[id]
           rest == job.budget - job.released
           done == Settled(job, "Cancelled")
           pay  == [paid[id] EXCEPT !.client = @ + rest]
<1>1. job \in Job /\ paid[id] \in Payment
  BY ElementOfSeq, LenProperties DEF JobsOK, PaidOK, JobIds
<1>2. job.released <= job.budget /\ job.released \in Nat /\ job.budget \in Nat
  BY <1>1 DEF OpenWithinBudget, Job
<1>3. rest \in Nat
  BY <1>2
<1>4. pay \in Payment
  BY <1>1, <1>3 DEF Payment
<1>5. done \in Job /\ done.budget = jobs[id].budget
  BY <1>1, SettledIsJob DEF JobStatus
<1>6. paid' = [paid EXCEPT ![id] = pay]
  <2>1. paid' = [paid EXCEPT ![id] = [client   |-> @.client + rest,
                                      provider |-> @.provider + 0,
                                      treasury |-> @.treasury + 0]]
    BY DEF Disburse
  <2>2. [client   |-> paid[id].client + rest,
         provider |-> paid[id].provider + 0,
         treasury |-> paid[id].treasury + 0] = pay
    BY <1>1, <1>3 DEF Payment
  <2> QED
    BY <2>1, <2>2
<1>7. OnlyJob(id) /\ jobs'[id] = done /\ paid'[id] = pay
  <2> HIDE DEF done, pay
  <2>1. jobs' = [jobs EXCEPT ![id] = done]
    BY DEF done
  <2> QED
    BY <1>4, <1>5, <1>6, <2>1, OneJobReplaced
<1> QED
  BY <1>7 DEF Refunded

(***************************************************************************)
(* The minimum budget of a token, whitelisted or not, is positive.         *)
(***************************************************************************)
LEMMA MinimumIsPositive ==
    ASSUME ConfigOK, NEW token
    PROVE  MinimumBudget(token) \in Nat \ {0}
<1>1. config.allowed \in UNION {[S -> ValidDecimals] : S \in SUBSET Tokens}
  BY DEF ConfigOK, Config
<1>2. PICK S \in SUBSET Tokens : config.allowed \in [S -> ValidDecimals]
  BY <1>1
<1>3. (IF token \in DOMAIN config.allowed THEN config.allowed[token]
                                           ELSE DefaultDecimals)
         \in ValidDecimals \cup {DefaultDecimals}
  BY <1>2
<1> QED
  BY <1>3, BaseAssumption DEF MinimumBudget

(***************************************************************************)
(* A new job of valid parties is a job, funded and nothing released.       *)
(***************************************************************************)
LEMMA NewJobIsJob ==
    ASSUME ConfigOK, NEW client \in Addr, NEW req, NEW sla,
           req.provider \in Addr, req.evaluator \in Addr, req.token \in Tokens,
           req.budget \in Nat, require_minimum_job_budget(req.token, req.budget),
           sla.deadline \in Nat, sla.penalty \in Nat
    PROVE  LET job == NewJob(client, req, sla)
           IN  /\ job \in Job
               /\ job.status = "Funded" /\ job.released = 0
               /\ job.deliverable_hash = ZeroHash
<1>1. req.budget \in Nat \ {0}
  BY MinimumIsPositive DEF require_minimum_job_budget
<1>2. config.fee_bps \in 0..MAX_FEE_BPS /\ now \in Nat
  BY DEF ConfigOK, Config
<1> QED
  BY <1>1, <1>2 DEF NewJob, Job, JobStatus

(***************************************************************************)
(* Storing a new job adds one funded job under the next id.                *)
(***************************************************************************)
LEMMA StoreCreates ==
    ASSUME JobsOK, PaidOK, NEW job \in Job, StoreJob(job),
           job.status = "Funded", job.released = 0,
           job.deliverable_hash = ZeroHash
    PROVE  /\ Created
           /\ JobIds' = JobIds \cup {Len(jobs) + 1}
           /\ Len(jobs) + 1 \notin JobIds
<1>1. jobs \in Seq(Job) /\ paid \in Seq(Payment) /\ Len(paid) = Len(jobs)
  BY DEF JobsOK, PaidOK
<1>2. NoPayment \in Payment
  BY DEF NoPayment, Payment
<1>3. Len(jobs) \in Nat /\ JobIds = 1..Len(jobs)
  BY <1>1, LenProperties DEF JobIds
<1>4. /\ jobs' \in Seq(Job) /\ Len(jobs') = Len(jobs) + 1
      /\ \A k \in 1..Len(jobs) : jobs'[k] = jobs[k]
      /\ jobs'[Len(jobs) + 1] = job
  BY <1>1, AppendProperties DEF StoreJob
<1>5. /\ paid' \in Seq(Payment) /\ Len(paid') = Len(paid) + 1
      /\ \A k \in 1..Len(paid) : paid'[k] = paid[k]
      /\ paid'[Len(paid) + 1] = NoPayment
  BY <1>1, <1>2, AppendProperties DEF StoreJob
<1>6. JobIds' = 1..(Len(jobs) + 1)
  BY <1>4, LenProperties DEF JobIds
<1> QED
  BY <1>1, <1>3, <1>4, <1>5, <1>6 DEF Created, JobsOK, PaidOK

(***************************************************************************)
(* Concatenation keeps the first sequence and adds the second one's items. *)
(***************************************************************************)
LEMMA ConcatExtends ==
    ASSUME NEW S, NEW s \in Seq(S), NEW t \in Seq(S)
    PROVE  /\ s \o t \in Seq(S)
           /\ Len(s \o t) = Len(s) + Len(t)
           /\ \A k \in 1..Len(s) : (s \o t)[k] = s[k]
           /\ \A k \in (Len(s) + 1)..(Len(s) + Len(t)) :
                 /\ k - Len(s) \in 1..Len(t)
                 /\ (s \o t)[k] = t[k - Len(s)]
<1>1. Len(s) \in Nat /\ Len(t) \in Nat
  BY LenProperties
<1>2. /\ s \o t \in Seq(S)
      /\ Len(s \o t) = Len(s) + Len(t)
      /\ \A i \in 1 .. Len(s) + Len(t) : (s \o t)[i] =
                     IF i <= Len(s) THEN s[i] ELSE t[i - Len(s)]
  BY ConcatProperties
<1>3. \A k \in 1..Len(s) : (s \o t)[k] = s[k]
  BY <1>1, <1>2
<1>4. \A k \in (Len(s) + 1)..(Len(s) + Len(t)) :
                 /\ k - Len(s) \in 1..Len(t)
                 /\ (s \o t)[k] = t[k - Len(s)]
  BY <1>1, <1>2
<1> QED
  BY <1>2, <1>3, <1>4

(***************************************************************************)
(* A batch adds one funded job per request, under consecutive ids.         *)
(***************************************************************************)
LEMMA BatchCreates ==
    ASSUME ConfigOK, JobsOK, PaidOK, NEW client \in Clients, NEW reqs \in Batches,
           batch_create_jobs(client, reqs)
    PROVE  /\ Created
           /\ DOMAIN reqs = 1..Len(reqs) /\ Len(reqs) \in Nat
           /\ JobIds' = 1..(Len(jobs) + Len(reqs))
           /\ \A i \in DOMAIN reqs :
                 jobs'[Len(jobs) + i] = NewJob(client, reqs[i], NoSla)
<1> DEFINE new  == [i \in DOMAIN reqs |-> NewJob(client, reqs[i], NoSla)]
           none == [i \in DOMAIN reqs |-> NoPayment]
           n    == Len(reqs)
<1>1. jobs \in Seq(Job) /\ paid \in Seq(Payment) /\ Len(paid) = Len(jobs)
  BY DEF JobsOK, PaidOK
<1>2. Len(jobs) \in Nat /\ JobIds = 1..Len(jobs)
  BY <1>1, LenProperties DEF JobIds
<1>3. /\ reqs \in Seq([provider : Addr, evaluator : Addr,
                      token : Tokens, budget : Nat])
      /\ n \in 1..MAX_BATCH_SIZE
      /\ \A i \in DOMAIN reqs : ValidRequest(client, reqs[i])
      /\ client \in Addr
  BY JobAssumption DEF batch_create_jobs
<1>4. n \in Nat \ {0} /\ DOMAIN reqs = 1..n
  <2>1. n \in Nat /\ DOMAIN reqs = 1..n
    BY <1>3, LenProperties
  <2> QED
    BY <1>3, <2>1 DEF MAX_BATCH_SIZE
<1>5. \A i \in 1..n : /\ new[i] \in Job
                      /\ new[i].status = "Funded" /\ new[i].released = 0
                      /\ new[i].deliverable_hash = ZeroHash
  <2> SUFFICES ASSUME NEW i \in 1..n
               PROVE  /\ new[i] \in Job
                      /\ new[i].status = "Funded" /\ new[i].released = 0
                      /\ new[i].deliverable_hash = ZeroHash
    OBVIOUS
  <2>1. reqs[i] \in [provider : Addr, evaluator : Addr,
                     token : Tokens, budget : Nat]
    BY <1>3, <1>4, ElementOfSeq
  <2>2. require_minimum_job_budget(reqs[i].token, reqs[i].budget)
    BY <1>3, <1>4 DEF ValidRequest
  <2>3. new[i] = NewJob(client, reqs[i], NoSla)
    BY <1>4
  <2>4. NoSla.deadline \in Nat /\ NoSla.penalty \in Nat
    BY DEF NoSla
  <2> QED
    BY <1>3, <2>1, <2>2, <2>3, <2>4, NewJobIsJob
<1>6. new \in Seq(Job) /\ Len(new) = n
  <2>1. new \in [1..n -> Job]
    BY <1>4, <1>5
  <2> QED
    BY <1>4, <2>1
<1>7. none \in Seq(Payment) /\ Len(none) = n /\ \A i \in 1..n : none[i] = NoPayment
  <2>1. none \in [1..n -> Payment]
    BY <1>4 DEF NoPayment, Payment
  <2> QED
    BY <1>4, <2>1
<1>8. jobs' = jobs \o new /\ paid' = paid \o none
  BY DEF batch_create_jobs
<1>9. \A i \in 1..n : new[i] = NewJob(client, reqs[i], NoSla)
  BY <1>4
<1> HIDE DEF new, none, n
<1>10. /\ jobs' \in Seq(Job) /\ Len(jobs') = Len(jobs) + n
       /\ \A k \in 1..Len(jobs) : jobs'[k] = jobs[k]
       /\ \A k \in (Len(jobs) + 1)..(Len(jobs) + n) :
             k - Len(jobs) \in 1..n /\ jobs'[k] = new[k - Len(jobs)]
  <2>1. /\ jobs \o new \in Seq(Job)
        /\ Len(jobs \o new) = Len(jobs) + Len(new)
        /\ \A k \in 1..Len(jobs) : (jobs \o new)[k] = jobs[k]
        /\ \A k \in (Len(jobs) + 1)..(Len(jobs) + Len(new)) :
              /\ k - Len(jobs) \in 1..Len(new)
              /\ (jobs \o new)[k] = new[k - Len(jobs)]
    BY <1>1, <1>6, ConcatExtends
  <2> QED
    BY <1>6, <1>8, <2>1
<1>11. /\ paid' \in Seq(Payment) /\ Len(paid') = Len(jobs) + n
       /\ \A k \in 1..Len(jobs) : paid'[k] = paid[k]
       /\ \A k \in (Len(jobs) + 1)..(Len(jobs) + n) :
             k - Len(jobs) \in 1..n /\ paid'[k] = none[k - Len(jobs)]
  <2>1. /\ paid \o none \in Seq(Payment)
        /\ Len(paid \o none) = Len(paid) + Len(none)
        /\ \A k \in 1..Len(paid) : (paid \o none)[k] = paid[k]
        /\ \A k \in (Len(paid) + 1)..(Len(paid) + Len(none)) :
              /\ k - Len(paid) \in 1..Len(none)
              /\ (paid \o none)[k] = none[k - Len(paid)]
    BY <1>1, <1>7, ConcatExtends
  <2> QED
    BY <1>1, <1>7, <1>8, <2>1
<1>12. JobIds' = 1..(Len(jobs) + n)
  BY <1>10, LenProperties DEF JobIds
<1>13. /\ JobIds \subseteq JobIds' /\ JobIds # JobIds'
       /\ JobIds' \ JobIds = (Len(jobs) + 1)..(Len(jobs) + n)
  BY <1>2, <1>4, <1>12
<1>14. JobsOK' /\ PaidOK'
  BY <1>10, <1>11 DEF JobsOK, PaidOK
<1>15. \A k \in JobIds : jobs'[k] = jobs[k] /\ paid'[k] = paid[k]
  BY <1>2, <1>10, <1>11
<1>16. \A k \in JobIds' \ JobIds :
          /\ jobs'[k].status = "Funded" /\ jobs'[k].released = 0
          /\ jobs'[k].deliverable_hash = ZeroHash
          /\ paid'[k] = NoPayment
  <2> SUFFICES ASSUME NEW k \in (Len(jobs) + 1)..(Len(jobs) + n)
               PROVE  /\ jobs'[k].status = "Funded" /\ jobs'[k].released = 0
                      /\ jobs'[k].deliverable_hash = ZeroHash
                      /\ paid'[k] = NoPayment
    BY <1>13
  <2>1. /\ k - Len(jobs) \in 1..n
        /\ jobs'[k] = new[k - Len(jobs)] /\ paid'[k] = none[k - Len(jobs)]
    BY <1>10, <1>11
  <2> QED
    BY <1>5, <1>7, <2>1
<1>17. Created
  BY <1>13, <1>14, <1>15, <1>16 DEF Created
<1>18. \A i \in 1..n : jobs'[Len(jobs) + i] = NewJob(client, reqs[i], NoSla)
  <2> SUFFICES ASSUME NEW i \in 1..n
               PROVE  jobs'[Len(jobs) + i] = new[i]
    BY <1>9
  <2>1. Len(jobs) + i \in (Len(jobs) + 1)..(Len(jobs) + n)
        /\ (Len(jobs) + i) - Len(jobs) = i
    BY <1>2, <1>4
  <2> QED
    BY <1>10, <2>1
<1> QED
  BY <1>4, <1>12, <1>17, <1>18 DEF n

----------------------------------------------------------------------------
(* Every step belongs to a class. *)

(***************************************************************************)
(* The three creation entry points of plain jobs only add jobs.            *)
(***************************************************************************)
LEMMA CreateCreates ==
    ASSUME IInv, Create
    PROVE  Created
<1>1. ConfigOK /\ JobsOK /\ PaidOK
  BY DEF IInv, TypeOK
<1>2. PICK client \in Clients :
         \/ \E req \in Request, sla \in SlaTerms : create_job(client, req, sla)
         \/ \E reqs \in Batches : batch_create_jobs(client, reqs)
         \/ \E provider \in Providers, q \in Quorums, token \in Tokens,
               budget \in Budgets, sla \in SlaTerms :
               create_job_multi_eval(client, provider, q, token, budget, sla)
  BY DEF Create
<1>3. client \in Addr
  BY JobAssumption
<1>4. ASSUME NEW req \in Request, NEW sla \in SlaTerms,
             create_job(client, req, sla)
      PROVE  Created
  <2> DEFINE job == NewJob(client, req, sla)
  <2>1. /\ req.provider \in Addr /\ req.evaluator \in Addr /\ req.token \in Tokens
        /\ req.budget \in Nat /\ sla.deadline \in Nat /\ sla.penalty \in Nat
    BY JobAssumption DEF Request
  <2>2. require_minimum_job_budget(req.token, req.budget) /\ StoreJob(job)
    BY <1>4 DEF create_job, ValidRequest
  <2>3. /\ job \in Job /\ job.status = "Funded" /\ job.released = 0
        /\ job.deliverable_hash = ZeroHash
    BY <1>1, <1>3, <2>1, <2>2, NewJobIsJob
  <2> HIDE DEF job
  <2> QED
    BY <1>1, <2>2, <2>3, StoreCreates
<1>5. ASSUME NEW reqs \in Batches, batch_create_jobs(client, reqs)
      PROVE  Created
  BY <1>1, <1>5, BatchCreates
<1>6. ASSUME NEW provider \in Providers, NEW q \in Quorums, NEW token \in Tokens,
             NEW budget \in Budgets, NEW sla \in SlaTerms,
             create_job_multi_eval(client, provider, q, token, budget, sla)
      PROVE  Created
  <2> DEFINE req == [provider |-> provider, evaluator |-> q.primary,
                     token |-> token, budget |-> budget]
             job == NewJob(client, req, sla)
  <2>1. /\ req.provider \in Addr /\ req.evaluator \in Addr /\ req.token \in Tokens
        /\ req.budget \in Nat /\ sla.deadline \in Nat /\ sla.penalty \in Nat
    BY JobAssumption
  <2>2. require_minimum_job_budget(req.token, req.budget) /\ StoreJob(job)
    BY <1>6 DEF create_job_multi_eval
  <2>3. /\ job \in Job /\ job.status = "Funded" /\ job.released = 0
        /\ job.deliverable_hash = ZeroHash
    BY <1>1, <1>3, <2>1, <2>2, NewJobIsJob
  <2> HIDE DEF job
  <2> QED
    BY <1>1, <2>2, <2>3, StoreCreates
<1> QED
  BY <1>2, <1>4, <1>5, <1>6

(***************************************************************************)
(* The step that only changes the status of a job, its deliverable and its *)
(* time stamps: submit and dispute.                                        *)
(***************************************************************************)
LEMMA JobMoves ==
    ASSUME IInv, NEW id \in JobIds, NEW job \in Job,
           jobs[id].status \notin Terminal,
           job.status \in {"Submitted", "Disputed"},
           job.deliverable_hash # ZeroHash,
           \/ jobs[id].status = "Funded"
           \/ job.deliverable_hash = jobs[id].deliverable_hash,
           job.budget = jobs[id].budget, job.released = jobs[id].released,
           jobs' = [jobs EXCEPT ![id] = job], UNCHANGED paid
    PROVE  Moved(id) /\ jobs'[id] = job
<1>1. ConfigOK /\ JobsOK /\ PaidOK
  BY DEF IInv, TypeOK
<1>2. paid[id] \in Payment /\ paid' = [paid EXCEPT ![id] = paid[id]]
  BY <1>1, ElementOfSeq, LenProperties DEF JobsOK, PaidOK, JobIds
<1>3. OnlyJob(id) /\ jobs'[id] = job /\ paid'[id] = paid[id]
  BY <1>1, <1>2, OneJobReplaced
<1> QED
  BY <1>3 DEF Moved

(***************************************************************************)
(* Every entry point on an existing job moves it, pays it out or refunds   *)
(* it, and only while it is open.                                          *)
(***************************************************************************)
LEMMA JobStepClass ==
    ASSUME IInv, NEW caller \in Addr, NEW id \in JobIds, JobStep(caller, id)
    PROVE  \/ Moved(id)
           \/ PaidOut(id)
           \/ Refunded(id)
           \/ UNCHANGED <<jobs, paid>>
<1> DEFINE job == jobs[id]
<1>1. ConfigOK /\ JobsOK /\ PaidOK /\ OpenWithinBudget /\ CommittedOnSubmit
  BY DEF IInv, TypeOK
<1>2. job \in Job
  BY <1>1, ElementOfSeq, LenProperties DEF JobsOK, JobIds
<1>3. job.fee_bps \in 0..MAX_FEE_BPS /\ config.fee_bps \in 0..MAX_FEE_BPS
      /\ now \in Nat
  BY <1>1, <1>2 DEF ConfigOK, Config, Job
<1>4. ASSUME NEW d \in Uris \cup {Blank}, NEW hash \in Hashes \cup {ZeroHash},
             submit(caller, id, d, hash)
      PROVE  Moved(id)
  <2> DEFINE new == [job EXCEPT !.status = "Submitted", !.deliverable = d,
                                !.deliverable_hash = hash, !.updated_at = now]
  <2>1. /\ new \in Job /\ new.status = "Submitted" /\ new.deliverable_hash = hash
        /\ new.budget = job.budget /\ new.released = job.released
    BY <1>2, <1>3 DEF Job, JobStatus
  <2>2. /\ job.status = "Funded" /\ hash # ZeroHash
        /\ jobs' = [jobs EXCEPT ![id] = new] /\ UNCHANGED paid
    BY <1>4 DEF submit
  <2> HIDE DEF new
  <2> QED
    BY <2>1, <2>2, JobMoves DEF Terminal
<1>5. ASSUME NEW hash, complete(caller, id, hash)
      PROVE  PaidOut(id)
  <2>1. job.status \in {"Submitted", "Disputed"} /\ PayOut(id, job.fee_bps)
    BY <1>5 DEF complete
  <2> QED
    BY <1>1, <1>3, <2>1, PayOutPaysOut
<1>6. ASSUME approve_job(caller, id)
      PROVE  PaidOut(id) \/ UNCHANGED <<jobs, paid>>
  <2>1. job.status \in {"Submitted", "Disputed"}
        /\ (PayOut(id, job.fee_bps) \/ UNCHANGED <<held, jobs, paid>>)
    BY <1>6 DEF approve_job
  <2> QED
    BY <1>1, <1>3, <2>1, PayOutPaysOut
<1>7. ASSUME cancel(caller, id) \/ claim_refund(caller, id)
      PROVE  Refunded(id)
  <2>1. job.status \notin Terminal /\ Refund(id)
    BY <1>7 DEF cancel, claim_refund, Terminal
  <2> QED
    BY <1>1, <2>1, RefundRefunds DEF Refund
<1>8. ASSUME dispute(caller, id)
      PROVE  Moved(id)
  <2> DEFINE new == [job EXCEPT !.status = "Disputed", !.updated_at = now]
  <2>1. /\ new \in Job /\ new.status = "Disputed"
        /\ new.deliverable_hash = job.deliverable_hash
        /\ new.budget = job.budget /\ new.released = job.released
    BY <1>2, <1>3 DEF Job, JobStatus
  <2>2. /\ job.status = "Submitted"
        /\ jobs' = [jobs EXCEPT ![id] = new] /\ UNCHANGED paid
    BY <1>8 DEF dispute
  <2>3. job.deliverable_hash # ZeroHash
    BY <1>1, <2>2 DEF CommittedOnSubmit, Terminal
  <2> HIDE DEF new
  <2> QED
    BY <2>1, <2>2, <2>3, JobMoves DEF Terminal
<1>9. ASSUME claim_expired(caller, id)
      PROVE  PaidOut(id)
  <2>1. job.status = "Submitted" /\ PayOut(id, config.fee_bps)
    BY <1>9 DEF claim_expired
  <2> QED
    BY <1>1, <1>3, <2>1, PayOutPaysOut
<1> QED
  BY <1>4, <1>5, <1>6, <1>7, <1>8, <1>9 DEF JobStep

(***************************************************************************)
(* The entry points of milestone jobs: approving one releases its amount,  *)
(* cancelling refunds, submitting touches neither job nor payments.        *)
(***************************************************************************)
LEMMA MilestoneStepClass ==
    ASSUME IInv, NEW caller \in Addr, NEW id \in DOMAIN milestones,
           MilestoneStep(caller, id)
    PROVE  \/ Released(id)
           \/ Refunded(id)
           \/ UNCHANGED <<jobs, paid>>
<1> DEFINE job == jobs[id]
<1>1. ConfigOK /\ JobsOK /\ PaidOK /\ OpenWithinBudget /\ MilestonesOK
  BY DEF IInv, TypeOK
<1>2. id \in JobIds
  BY <1>1 DEF MilestonesOK
<1>3. job \in Job /\ paid[id] \in Payment
  BY <1>1, <1>2, ElementOfSeq, LenProperties DEF JobsOK, PaidOK, JobIds
<1>4. job.fee_bps \in 0..MAX_FEE_BPS /\ now \in Nat
  BY <1>1, <1>3 DEF ConfigOK, Job
<1>5. ASSUME NEW idx \in DOMAIN milestones[id], NEW d,
             submit_milestone(caller, id, idx, d)
      PROVE  UNCHANGED <<jobs, paid>>
  BY <1>5 DEF submit_milestone
<1>6. ASSUME NEW idx \in DOMAIN milestones[id], approve_milestone(caller, id, idx)
      PROVE  Released(id)
  <2> DEFINE amount   == milestones[id][idx].amount
             fee      == compute_fee(amount, job.fee_bps)
             released == job.released + amount
             status   == IF released >= job.budget THEN "Completed" ELSE job.status
             new      == [job EXCEPT !.released = released, !.updated_at = now,
                                     !.status = status]
             pay      == [client   |-> paid[id].client,
                          provider |-> paid[id].provider + (amount - fee),
                          treasury |-> paid[id].treasury + fee]
  <2>1. amount \in Nat
    <3>1. milestones[id] \in Seq(Milestone) /\ amount > 0
      BY <1>1, <1>6 DEF MilestonesOK
    <3>2. milestones[id][idx] \in Milestone
      BY <3>1, ElementOfSeq, LenProperties
    <3>3. amount \in MilestoneAmounts
      BY <3>2 DEF Milestone
    <3>4. amount \in Int
      BY <3>3, MilestoneAssumption
    <3> QED
      BY <3>1, <3>4
  <2>2. fee \in 0..amount
    BY <1>4, <2>1, FeeBounds
  <2>3. pay \in Payment /\ amount - fee \in Nat /\ fee \in Nat
        /\ amount = (amount - fee) + fee
    <3>1. amount - fee \in Nat /\ fee \in Nat /\ amount = (amount - fee) + fee
      BY <2>1, <2>2
    <3>2. /\ paid[id].provider + (amount - fee) \in Nat
          /\ paid[id].treasury + fee \in Nat
      BY <1>3, <3>1 DEF Payment
    <3> HIDE DEF amount, fee
    <3>3. pay \in Payment
      BY <1>3, <3>2 DEF Payment
    <3> QED
      BY <3>1, <3>3
  <2>4. job.status \in {"Funded", "Submitted"}
    BY <1>6 DEF approve_milestone
  <2>5. released \in Nat /\ status \in {"Funded", "Submitted", "Completed"}
    BY <1>3, <2>1, <2>4 DEF Job
  <2>6. /\ new \in Job /\ new.budget = job.budget
        /\ new.status = status /\ new.released = released
        /\ new.deliverable_hash = job.deliverable_hash
    BY <1>3, <1>4, <2>5 DEF Job, JobStatus
  <2>7. new.status \notin Terminal => new.released <= job.budget
    BY <1>3, <2>5, <2>6 DEF Terminal, Job
  <2>8. jobs' = [jobs EXCEPT ![id] = new]
    BY <1>6 DEF approve_milestone
  <2>9. paid' = [paid EXCEPT ![id] = pay]
    <3>1. paid' = [paid EXCEPT ![id] = [client   |-> @.client + 0,
                                        provider |-> @.provider + (amount - fee),
                                        treasury |-> @.treasury + fee]]
      BY <1>6 DEF approve_milestone, Disburse
    <3>2. [client   |-> paid[id].client + 0,
           provider |-> paid[id].provider + (amount - fee),
           treasury |-> paid[id].treasury + fee] = pay
      <4>1. paid[id].client + 0 = paid[id].client
        BY <1>3 DEF Payment
      <4> QED
        BY <4>1
    <3> QED
      BY <3>1, <3>2
  <2> HIDE DEF new, pay, status
  <2>10. OnlyJob(id) /\ jobs'[id] = new /\ paid'[id] = pay
    BY <1>1, <1>2, <2>3, <2>4, <2>6, <2>8, <2>9, OneJobReplaced DEF Terminal
  <2>11. \E provider, treasury \in Nat :
            /\ jobs'[id].released = job.released + (provider + treasury)
            /\ paid'[id] = [client   |-> paid[id].client,
                            provider |-> paid[id].provider + provider,
                            treasury |-> paid[id].treasury + treasury]
    BY <2>3, <2>6, <2>10 DEF pay
  <2> QED
    BY <2>6, <2>7, <2>10, <2>11 DEF Released, IsMilestoneJob, status
<1>7. ASSUME cancel_uncompleted_milestones(caller, id)
      PROVE  Refunded(id)
  <2>1. /\ job.status \notin Terminal
        /\ jobs' = [jobs EXCEPT ![id] = Settled(job, "Cancelled")]
        /\ Disburse(id, job.budget - job.released, 0, 0)
    BY <1>7 DEF cancel_uncompleted_milestones
  <2> QED
    BY <1>1, <1>2, <2>1, RefundRefunds
<1> QED
  BY <1>5, <1>6, <1>7 DEF MilestoneStep

(***************************************************************************)
(* Creating a milestone job adds one job and its milestones under the same *)
(* new id.                                                                 *)
(***************************************************************************)
LEMMA CreateMilestonesCreates ==
    ASSUME IInv, CreateMilestones
    PROVE  /\ Created /\ UNCHANGED quorums
           /\ JobIds' = JobIds \cup {Len(jobs) + 1} /\ Len(jobs) + 1 \notin JobIds
           /\ \E plan \in MilestonePlans :
                 /\ \A i \in DOMAIN plan : plan[i].amount > 0
                 /\ jobs'[Len(jobs) + 1].budget = PlanTotal(plan)
                 /\ milestones' =
                      [id \in DOMAIN milestones \cup {Len(jobs) + 1} |->
                        IF id \in DOMAIN milestones THEN milestones[id] ELSE plan]
<1>1. ConfigOK /\ JobsOK /\ PaidOK
  BY DEF IInv, TypeOK
<1>2. PICK client \in Clients, provider \in Providers, evaluator \in Evaluators,
           token \in Tokens, budget \in Budgets, plan \in MilestonePlans :
           create_milestone_job(client, provider, evaluator, token, budget, plan)
  BY DEF CreateMilestones
<1> DEFINE req == [provider |-> provider, evaluator |-> evaluator,
                   token |-> token, budget |-> budget]
           job == NewJob(client, req, NoSla)
<1>3. /\ client \in Addr /\ req.provider \in Addr /\ req.evaluator \in Addr
      /\ req.token \in Tokens /\ req.budget \in Nat
      /\ NoSla.deadline \in Nat /\ NoSla.penalty \in Nat
  BY JobAssumption DEF NoSla
<1>4. require_minimum_job_budget(req.token, req.budget) /\ StoreJob(job)
  BY <1>2 DEF create_milestone_job
<1>5. /\ job \in Job /\ job.status = "Funded" /\ job.released = 0
      /\ job.deliverable_hash = ZeroHash
  BY <1>1, <1>3, <1>4, NewJobIsJob
<1>6. /\ UNCHANGED quorums
      /\ \A i \in DOMAIN plan : plan[i].amount > 0
      /\ job.budget = PlanTotal(plan)
      /\ milestones' =
           [id \in DOMAIN milestones \cup {Len(jobs) + 1} |->
             IF id \in DOMAIN milestones THEN milestones[id] ELSE plan]
  BY <1>2 DEF create_milestone_job, NewJob
<1> HIDE DEF job
<1>7. jobs'[Len(jobs) + 1] = job
  BY <1>1, <1>4, AppendProperties DEF StoreJob, JobsOK
<1> QED
  BY <1>1, <1>4, <1>5, <1>6, <1>7, StoreCreates

----------------------------------------------------------------------------
(* Types. *)

(***************************************************************************)
(* Whitelisting keeps the configuration well-formed.                       *)
(***************************************************************************)
LEMMA WhitelistOK ==
    ASSUME NEW allowed \in UNION {[S -> ValidDecimals] : S \in SUBSET Tokens},
           NEW token \in Tokens, NEW decimals \in ValidDecimals
    PROVE  [t \in DOMAIN allowed \cup {token} |->
                IF t = token THEN decimals ELSE allowed[t]]
              \in UNION {[S -> ValidDecimals] : S \in SUBSET Tokens}
<1>1. PICK S \in SUBSET Tokens : allowed \in [S -> ValidDecimals]
  OBVIOUS
<1>2. /\ S \cup {token} \in SUBSET Tokens
      /\ [t \in S \cup {token} |-> IF t = token THEN decimals ELSE allowed[t]]
           \in [S \cup {token} -> ValidDecimals]
  BY <1>1
<1> QED
  BY <1>1, <1>2

(***************************************************************************)
(* No admin entry point sets the fee rate above its cap, or anything else  *)
(* outside its domain.                                                     *)
(***************************************************************************)
LEMMA AdminKeepsConfig ==
    ASSUME ConfigOK, Admin
    PROVE  ConfigOK'
<1>1. config \in Config /\ now' = now /\ now \in Nat
  BY DEF ConfigOK, Admin
<1>2. /\ DEFAULT_FEE_BPS \in 0..MAX_FEE_BPS
      /\ Admins \subseteq Addr /\ Treasuries \subseteq Addr \cup {ZeroAddr}
      /\ FeeRates \subseteq Nat /\ TokenDecimals \subseteq Nat
  BY BaseAssumption DEF DEFAULT_FEE_BPS, MAX_FEE_BPS
<1>3. ASSUME NEW admin \in Admins, NEW t \in Treasuries, init(admin, t)
      PROVE  config' \in Config
  BY <1>1, <1>2, <1>3 DEF init, Config
<1>4. ASSUME NEW caller, NEW admin \in Admins, NEW t \in Treasuries,
             re_init(caller, admin, t)
      PROVE  config' \in Config
  BY <1>1, <1>2, <1>4 DEF re_init, Config
<1>5. ASSUME NEW caller, \/ emergency_pause(caller) \/ emergency_unpause(caller)
                         \/ pause_channels(caller) \/ unpause_channels(caller)
      PROVE  config' \in Config
  BY <1>1, <1>5 DEF emergency_pause, emergency_unpause, pause_channels,
                    unpause_channels, Config
<1>6. ASSUME NEW caller, NEW t \in Treasuries, set_treasury(caller, t)
      PROVE  config' \in Config
  BY <1>1, <1>2, <1>6 DEF set_treasury, Config
<1>7. ASSUME NEW caller, NEW bps \in FeeRates, set_fee_bps(caller, bps)
      PROVE  config' \in Config
  BY <1>1, <1>2, <1>7 DEF set_fee_bps, Config
<1>8. ASSUME NEW caller, NEW n \in EvalThresholds,
             set_multi_eval_threshold(caller, n)
      PROVE  config' \in Config
  BY <1>1, <1>8 DEF set_multi_eval_threshold, Config
<1>9. ASSUME NEW caller, NEW t \in Tokens, NEW d \in TokenDecimals,
             add_token(caller, t, d)
      PROVE  config' \in Config
  <2>1. d \in ValidDecimals
    BY <1>9 DEF add_token, ValidDecimals
  <2>2. config.allowed \in UNION {[S -> ValidDecimals] : S \in SUBSET Tokens}
    BY <1>1 DEF Config
  <2> DEFINE allowed == [u \in DOMAIN config.allowed \cup {t} |->
                           IF u = t THEN d ELSE config.allowed[u]]
  <2>3. allowed \in UNION {[S -> ValidDecimals] : S \in SUBSET Tokens}
    BY <2>1, <2>2, WhitelistOK
  <2>4. config' = [config EXCEPT !.allowed = allowed]
    BY <1>9 DEF add_token
  <2> HIDE DEF allowed
  <2> QED
    BY <1>1, <2>3, <2>4 DEF Config
<1>10. ASSUME NEW caller, NEW t \in Tokens, remove_token(caller, t)
       PROVE  config' \in Config
  <2>1. config.allowed \in UNION {[S -> ValidDecimals] : S \in SUBSET Tokens}
    BY <1>1 DEF Config
  <2> DEFINE allowed == [u \in DOMAIN config.allowed \ {t} |-> config.allowed[u]]
  <2>2. allowed \in UNION {[S -> ValidDecimals] : S \in SUBSET Tokens}
    <3>1. PICK S \in SUBSET Tokens : config.allowed \in [S -> ValidDecimals]
      BY <2>1
    <3>2. S \ {t} \in SUBSET Tokens /\ allowed \in [S \ {t} -> ValidDecimals]
      BY <3>1
    <3> QED
      BY <3>2
  <2>3. config' = [config EXCEPT !.allowed = allowed]
    BY <1>10 DEF remove_token
  <2> HIDE DEF allowed
  <2> QED
    BY <1>1, <2>2, <2>3 DEF Config
<1>11. config' \in Config
  BY <1>3, <1>4, <1>5, <1>6, <1>7, <1>8, <1>9, <1>10 DEF Admin, AdminStep
<1> QED
  BY <1>1, <1>11 DEF ConfigOK

(***************************************************************************)
(* The quorums of a contract stay quorums of its jobs: creating one gives  *)
(* it to the new job.                                                      *)
(***************************************************************************)
LEMMA CreateKeepsQuorums ==
    ASSUME IInv, Create
    PROVE  QuorumsOK' /\ DOMAIN quorums' \subseteq DOMAIN quorums \cup (JobIds' \ JobIds)
<1>1. JobsOK /\ PaidOK /\ ConfigOK /\ QuorumsOK /\ JobIds \subseteq JobIds'
  BY CreateCreates DEF IInv, TypeOK, Created
<1>2. CASE UNCHANGED quorums
  BY <1>1, <1>2 DEF QuorumsOK, QuorumOK
<1>3. ASSUME NEW client \in Clients, NEW provider \in Providers, NEW q \in Quorums,
             NEW token \in Tokens, NEW budget \in Budgets, NEW sla \in SlaTerms,
             create_job_multi_eval(client, provider, q, token, budget, sla)
      PROVE  QuorumsOK' /\ DOMAIN quorums' \subseteq DOMAIN quorums \cup (JobIds' \ JobIds)
  <2> DEFINE id  == Len(jobs) + 1
             new == [ weights |-> q.weights, threshold |-> q.threshold,
                      approvals |-> {}, accumulated_weight |-> 0 ]
  <2>1. /\ quorums' = [k \in DOMAIN quorums \cup {id} |->
                         IF k \in DOMAIN quorums THEN quorums[k] ELSE new]
        /\ Len(jobs') = Len(jobs) + 1
    <3>1. jobs' = Append(jobs, NewJob(client,
                    [provider |-> provider, evaluator |-> q.primary,
                     token |-> token, budget |-> budget], sla))
      BY <1>3 DEF create_job_multi_eval, StoreJob
    <3> QED
      BY <1>1, <1>3, <3>1 DEF create_job_multi_eval, JobsOK
  <2>2. id \in JobIds' \ JobIds
    <3>1. jobs' \in Seq(Job) /\ jobs \in Seq(Job)
      BY CreateCreates DEF Created, JobsOK, IInv, TypeOK
    <3>2. JobIds' = 1..Len(jobs') /\ JobIds = 1..Len(jobs) /\ Len(jobs) \in Nat
      BY <3>1, LenProperties DEF JobIds
    <3> QED
      BY <2>1, <3>2
  <2>3. QuorumOK(new)
    BY JobAssumption DEF QuorumOK, EvalWeights
  <2> HIDE DEF id, new
  <2>4. \A k \in DOMAIN quorums' : QuorumOK(quorums'[k])
    BY <1>1, <2>1, <2>3 DEF QuorumsOK
  <2>5. DOMAIN quorums' \subseteq DOMAIN quorums \cup (JobIds' \ JobIds)
    BY <2>1, <2>2
  <2> QED
    BY <1>1, <2>4, <2>5 DEF QuorumsOK, QuorumOK
<1> QED
  BY <1>2, <1>3 DEF Create, create_job, batch_create_jobs

(***************************************************************************)
(* An approval adds its evaluator and weight; a refund drops the quorum.   *)
(***************************************************************************)
LEMMA JobStepKeepsQuorums ==
    ASSUME IInv, NEW caller \in Addr, NEW id \in JobIds, JobStep(caller, id),
           JobIds' = JobIds
    PROVE  QuorumsOK' /\ DOMAIN quorums' \subseteq DOMAIN quorums
<1>1. QuorumsOK
  BY DEF IInv, TypeOK
<1>2. CASE UNCHANGED quorums
  BY <1>1, <1>2 DEF QuorumsOK, QuorumOK
<1>3. CASE approve_job(caller, id)
  <2> DEFINE q      == quorums[id]
             weight == q.accumulated_weight + q.weights[caller]
             new    == [q EXCEPT !.approvals = @ \cup {caller},
                                 !.accumulated_weight = weight]
  <2>1. /\ id \in DOMAIN quorums /\ caller \in DOMAIN q.weights
        /\ quorums' = [quorums EXCEPT ![id].approvals = @ \cup {caller},
                                      ![id].accumulated_weight = weight]
    BY <1>3 DEF approve_job, IsQuorum
  <2>2. QuorumOK(q)
    BY <1>1, <2>1 DEF QuorumsOK
  <2>3. weight \in Nat
    <3>1. q.weights[caller] \in Nat
      BY <2>1, <2>2, JobAssumption DEF QuorumOK
    <3>2. q.accumulated_weight \in Nat
      BY <2>2 DEF QuorumOK
    <3> QED
      BY <3>1, <3>2
  <2>4. /\ DOMAIN quorums' = DOMAIN quorums
        /\ quorums'[id] = new
        /\ \A k \in DOMAIN quorums \ {id} : quorums'[k] = quorums[k]
    BY <2>1
  <2>5. QuorumOK(new)
    BY <2>1, <2>2, <2>3 DEF QuorumOK
  <2> HIDE DEF new
  <2>6. \A k \in DOMAIN quorums' : QuorumOK(quorums'[k])
    BY <1>1, <2>4, <2>5 DEF QuorumsOK
  <2> QED
    BY <1>1, <2>4, <2>6 DEF QuorumsOK, QuorumOK
<1>4. CASE cancel(caller, id) \/ claim_refund(caller, id)
  <2>1. quorums' = [q \in DOMAIN quorums \ {id} |-> quorums[q]]
    BY <1>4 DEF cancel, claim_refund, Refund
  <2> QED
    BY <1>1, <2>1 DEF QuorumsOK, QuorumOK
<1> QED
  BY <1>2, <1>3, <1>4 DEF JobStep, submit, complete, dispute, claim_expired

(***************************************************************************)
(* The milestones of a contract stay milestones of its jobs.               *)
(***************************************************************************)
LEMMA MilestoneStepKeepsMilestones ==
    ASSUME IInv, NEW caller \in Addr, NEW id \in DOMAIN milestones,
           MilestoneStep(caller, id), JobIds \subseteq JobIds'
    PROVE  MilestonesOK' /\ UNCHANGED quorums
<1>1. MilestonesOK /\ milestones[id] \in Seq(Milestone)
  BY DEF IInv, TypeOK, MilestonesOK
<1>2. UNCHANGED quorums
  BY DEF MilestoneStep, submit_milestone, approve_milestone,
         cancel_uncompleted_milestones
<1>3. CASE UNCHANGED milestones
  BY <1>1, <1>2, <1>3 DEF MilestonesOK
<1>4. ASSUME NEW idx \in DOMAIN milestones[id], NEW m \in Milestone,
             m.amount = milestones[id][idx].amount,
             milestones' = [milestones EXCEPT ![id] = [@ EXCEPT ![idx] = m]]
      PROVE  MilestonesOK'
  <2> DEFINE old == milestones[id]
             new == [old EXCEPT ![idx] = m]
  <2>1. idx \in 1..Len(old) /\ DOMAIN old = 1..Len(old)
    BY <1>1, <1>4, LenProperties
  <2>2. /\ new \in Seq(Milestone) /\ Len(new) = Len(old)
        /\ \A k \in 1..Len(old) : new[k] = IF k = idx THEN m ELSE old[k]
    BY <1>1, <1>4, <2>1, ExceptSeq
  <2>3. DOMAIN new = 1..Len(old)
    BY <2>2, LenProperties
  <2>4. \A k \in DOMAIN new : new[k].amount > 0
    BY <1>1, <1>4, <2>1, <2>2, <2>3 DEF MilestonesOK
  <2>5. milestones' = [milestones EXCEPT ![id] = new]
    BY <1>4
  <2> HIDE DEF new
  <2> QED
    BY <1>1, <1>2, <2>2, <2>4, <2>5 DEF MilestonesOK
<1>5. ASSUME NEW idx \in DOMAIN milestones[id], NEW d \in Uris \cup {Blank},
             submit_milestone(caller, id, idx, d)
      PROVE  MilestonesOK'
  <2> DEFINE m == [milestones[id][idx] EXCEPT !.deliverable = d]
  <2>1. milestones[id][idx] \in Milestone
    BY <1>1, <1>5, ElementOfSeq, LenProperties
  <2>2. m \in Milestone /\ m.amount = milestones[id][idx].amount
    BY <1>5, <2>1 DEF Milestone
  <2>3. milestones' = [milestones EXCEPT ![id] = [@ EXCEPT ![idx] = m]]
    BY <1>5 DEF submit_milestone
  <2> HIDE DEF m
  <2> QED
    BY <1>4, <1>5, <2>2, <2>3
<1>6. ASSUME NEW idx \in DOMAIN milestones[id], approve_milestone(caller, id, idx)
      PROVE  MilestonesOK'
  <2> DEFINE m == [milestones[id][idx] EXCEPT !.approved = TRUE]
  <2>1. milestones[id][idx] \in Milestone
    BY <1>1, <1>6, ElementOfSeq, LenProperties
  <2>2. m \in Milestone /\ m.amount = milestones[id][idx].amount
    BY <2>1 DEF Milestone
  <2>3. milestones' = [milestones EXCEPT ![id] = [@ EXCEPT ![idx] = m]]
    BY <1>6 DEF approve_milestone
  <2> HIDE DEF m
  <2> QED
    BY <1>4, <1>6, <2>2, <2>3
<1>7. ASSUME cancel_uncompleted_milestones(caller, id)
      PROVE  UNCHANGED milestones
  BY <1>7 DEF cancel_uncompleted_milestones
<1> QED
  BY <1>2, <1>3, <1>5, <1>6, <1>7 DEF MilestoneStep

(***************************************************************************)
(* A new milestone job gets its plan, under an id without a quorum.        *)
(***************************************************************************)
LEMMA CreateKeepsMilestones ==
    ASSUME IInv, CreateMilestones
    PROVE  MilestonesOK'
<1>1. MilestonesOK /\ DOMAIN quorums \subseteq JobIds
  BY DEF IInv, TypeOK, QuorumsOK
<1>2. /\ UNCHANGED quorums /\ JobIds' = JobIds \cup {Len(jobs) + 1}
      /\ Len(jobs) + 1 \notin JobIds
  BY CreateMilestonesCreates
<1>3. PICK plan \in MilestonePlans :
         /\ \A i \in DOMAIN plan : plan[i].amount > 0
         /\ milestones' =
              [id \in DOMAIN milestones \cup {Len(jobs) + 1} |->
                IF id \in DOMAIN milestones THEN milestones[id] ELSE plan]
  BY CreateMilestonesCreates
<1>4. plan \in Seq(Milestone)
  BY MilestoneAssumption
<1> QED
  BY <1>1, <1>2, <1>3, <1>4 DEF MilestonesOK

(***************************************************************************)
(* No channel ever owes its provider more than its deposit.                *)
(***************************************************************************)
LEMMA ChannelsStayOK ==
    ASSUME ConfigOK, ChannelsOK, ChannelNext
    PROVE  ChannelsOK'
<1>1. now \in Nat /\ opened \in Nat /\ DOMAIN channels \subseteq 1..opened
      /\ \A id \in DOMAIN channels : ChannelOK(channels[id])
  BY DEF ConfigOK, ChannelsOK
<1>2. ASSUME NEW payer \in Payers, NEW provider \in Payees, NEW token \in Tokens,
             NEW deposit \in Deposits, open_channel(payer, provider, token, deposit)
      PROVE  ChannelsOK'
  <2> DEFINE new == [ payer |-> payer, provider |-> provider,
                      token |-> token, deposit |-> deposit,
                      amount |-> 0, nonce |-> 0,
                      opened_at |-> now, closing_at |-> 0 ]
  <2>1. ChannelOK(new)
    BY <1>1, ChannelAssumption DEF ChannelOK, Channel
  <2>2. /\ channels' = [id \in DOMAIN channels \cup {opened + 1} |->
                          IF id \in DOMAIN channels THEN channels[id] ELSE new]
        /\ opened' = opened + 1
    BY <1>2 DEF open_channel
  <2> HIDE DEF new
  <2>3. \A id \in DOMAIN channels' : ChannelOK(channels'[id])
    BY <1>1, <2>1, <2>2
  <2>4. DOMAIN channels' \subseteq 1..opened' /\ opened' \in Nat
    BY <1>1, <2>2
  <2> QED
    BY <2>3, <2>4 DEF ChannelsOK, ChannelOK
<1>3. ASSUME NEW id \in DOMAIN sessions, SignVoucher(id)
      PROVE  ChannelsOK'
  BY <1>1, <1>3 DEF SignVoucher, createVoucher, createChannelVoucher,
                    ChannelsOK, ChannelOK
<1>4. ASSUME NEW caller, NEW id \in DOMAIN channels, NEW c \in 1..MaxChannels,
             NEW a \in VoucherAmounts, NEW n \in VoucherNonces,
             close_channel(caller, id, Voucher(c, a, n))
      PROVE  ChannelsOK'
  <2> DEFINE closing == IF channels[id].closing_at = 0
                        THEN now + CHANNEL_DISPUTE_WINDOW_SECS
                        ELSE channels[id].closing_at
             new == [channels[id] EXCEPT !.amount = a, !.nonce = n,
                                         !.closing_at = closing]
  <2>1. a \in Nat /\ n \in Nat /\ a <= channels[id].deposit
    BY <1>4, ChannelAssumption DEF close_channel, verify_voucher, Voucher
  <2>2. closing \in Nat
    BY <1>1, ChannelAssumption DEF ChannelOK, Channel
  <2>3. ChannelOK(new)
    BY <1>1, <2>1, <2>2 DEF ChannelOK, Channel
  <2>4. /\ channels' = [channels EXCEPT ![id] = new]
        /\ opened' = opened
    BY <1>4 DEF close_channel, Voucher
  <2> HIDE DEF new
  <2>5. \A k \in DOMAIN channels' : ChannelOK(channels'[k])
    BY <1>1, <2>3, <2>4
  <2> QED
    BY <1>1, <2>4, <2>5 DEF ChannelsOK, ChannelOK
<1>5. ASSUME NEW caller, NEW id \in DOMAIN channels, force_close(caller, id)
      PROVE  ChannelsOK'
  BY <1>1, <1>5 DEF force_close, ChannelsOK, ChannelOK
<1> QED
  BY <1>2, <1>3, <1>4, <1>5 DEF ChannelNext, ChannelStep

----------------------------------------------------------------------------
(* Money. *)

\* What IInv says of the record of one job, and of one plain job's payments.
OpenInv(job) ==
    job.status \notin Terminal =>
       /\ job.released <= job.budget
       /\ job.status = "Funded" <=> job.deliverable_hash = ZeroHash

PlainInv(job, pay) ==
    /\ pay.client + pay.provider + pay.treasury = job.released
    /\ job.released = IF job.status \in Terminal THEN job.budget ELSE 0
    /\ job.status = "Cancelled" => pay.client = job.budget
    /\ job.status = "Completed" => 2 * pay.client <= job.budget
    /\ \/ pay.treasury <= 1
       \/ pay.treasury * BPS_DENOM <= job.budget * MAX_FEE_BPS
    /\ job.status # "Cancelled" =>
          (job.status = "Funded" <=> job.deliverable_hash = ZeroHash)

MoneyInv ==
    /\ SettledOnce /\ FeeIsCapped /\ PaidForDelivery
    /\ OpenWithinBudget /\ CommittedOnSubmit

(***************************************************************************)
(* The money part of IInv is a property of each job by itself.             *)
(***************************************************************************)
LEMMA JobByJob ==
    /\ MoneyInv <=> /\ \A id \in JobIds : OpenInv(jobs[id])
                    /\ \A id \in PlainJobs : PlainInv(jobs[id], paid[id])
    /\ MoneyInv' <=> /\ \A id \in JobIds' : OpenInv(jobs'[id])
                     /\ \A id \in PlainJobs' : PlainInv(jobs'[id], paid'[id])
<1>1. MoneyInv <=> /\ \A id \in JobIds : OpenInv(jobs[id])
                   /\ \A id \in PlainJobs : PlainInv(jobs[id], paid[id])
  BY DEF MoneyInv, SettledOnce, FeeIsCapped, PaidForDelivery, OpenWithinBudget,
         CommittedOnSubmit, OpenInv, PlainInv, Disbursed
<1>2. MoneyInv' <=> /\ \A id \in JobIds' : OpenInv(jobs'[id])
                    /\ \A id \in PlainJobs' : PlainInv(jobs'[id], paid'[id])
  BY DEF MoneyInv, SettledOnce, FeeIsCapped, PaidForDelivery, OpenWithinBudget,
         CommittedOnSubmit, OpenInv, PlainInv, Disbursed
<1> QED
  BY <1>1, <1>2

(***************************************************************************)
(* A payment of nothing pays nobody.                                       *)
(***************************************************************************)
LEMMA NothingIsThreeNothings ==
    ASSUME NEW a \in Nat, NEW b \in Nat, NEW c \in Nat, a + b + c = 0
    PROVE  a = 0 /\ b = 0 /\ c = 0
OBVIOUS

(***************************************************************************)
(* Submitting or disputing a job keeps its record consistent.              *)
(***************************************************************************)
LEMMA MovedKeeps ==
    ASSUME JobsOK, NEW id \in JobIds, Moved(id),
           OpenInv(jobs[id])
    PROVE  /\ OpenInv(jobs'[id])
           /\ PlainInv(jobs[id], paid[id]) => PlainInv(jobs'[id], paid'[id])
BY DEF Moved, OnlyJob, OpenInv, PlainInv, Terminal

(***************************************************************************)
(* So does paying it out, which a plain job has not been before.           *)
(***************************************************************************)
LEMMA PaidOutKeeps ==
    ASSUME JobsOK, PaidOK, NEW id \in JobIds, PaidOut(id),
           OpenInv(jobs[id])
    PROVE  /\ OpenInv(jobs'[id])
           /\ PlainInv(jobs[id], paid[id]) => PlainInv(jobs'[id], paid'[id])
<1>1. jobs[id] \in Job /\ paid[id] \in Payment
  BY ElementOfSeq, LenProperties DEF JobsOK, PaidOK, JobIds
<1>2. /\ jobs'[id].status = "Completed" /\ jobs'[id].released = jobs[id].budget
      /\ jobs'[id].budget = jobs[id].budget
      /\ jobs'[id].deliverable_hash = jobs[id].deliverable_hash
  BY <1>1 DEF PaidOut, Settled, Job
<1>3. OpenInv(jobs'[id])
  BY <1>2 DEF OpenInv, Terminal
<1>4. ASSUME PlainInv(jobs[id], paid[id])
      PROVE  PlainInv(jobs'[id], paid'[id])
  <2>1. /\ jobs[id].status \notin Terminal
        /\ jobs[id].status # "Funded" /\ jobs[id].deliverable_hash # ZeroHash
    BY <1>4 DEF PaidOut, OnlyJob, OpenInv
  <2>2. paid[id].client = 0 /\ paid[id].provider = 0 /\ paid[id].treasury = 0
    <3>1. paid[id].client + paid[id].provider + paid[id].treasury = 0
      BY <1>4, <2>1 DEF PlainInv
    <3>2. /\ paid[id].client \in Nat /\ paid[id].provider \in Nat
          /\ paid[id].treasury \in Nat
      BY <1>1 DEF Payment
    <3> QED
      BY <3>1, <3>2, NothingIsThreeNothings
  <2>3. PICK client, provider, treasury \in Nat :
             /\ client + provider + treasury = jobs[id].budget
             /\ 2 * client <= jobs[id].budget
             /\ \/ treasury <= 1
                \/ treasury * BPS_DENOM <= jobs[id].budget * MAX_FEE_BPS
             /\ paid'[id] = [client   |-> paid[id].client + client,
                             provider |-> paid[id].provider + provider,
                             treasury |-> paid[id].treasury + treasury]
    BY DEF PaidOut
  <2>4. paid'[id] = [client |-> client, provider |-> provider, treasury |-> treasury]
    BY <2>2, <2>3
  <2> QED
    BY <1>2, <2>1, <2>3, <2>4 DEF PlainInv, Terminal
<1> QED
  BY <1>3, <1>4

(***************************************************************************)
(* And so does refunding it.                                               *)
(***************************************************************************)
LEMMA RefundedKeeps ==
    ASSUME JobsOK, PaidOK, NEW id \in JobIds, Refunded(id),
           OpenInv(jobs[id])
    PROVE  /\ OpenInv(jobs'[id])
           /\ PlainInv(jobs[id], paid[id]) => PlainInv(jobs'[id], paid'[id])
<1>1. jobs[id] \in Job /\ paid[id] \in Payment
  BY ElementOfSeq, LenProperties DEF JobsOK, PaidOK, JobIds
<1>2. /\ jobs'[id].status = "Cancelled" /\ jobs'[id].released = jobs[id].budget
      /\ jobs'[id].budget = jobs[id].budget
  BY <1>1 DEF Refunded, Settled, Job
<1>3. OpenInv(jobs'[id])
  BY <1>2 DEF OpenInv, Terminal
<1>4. ASSUME PlainInv(jobs[id], paid[id])
      PROVE  PlainInv(jobs'[id], paid'[id])
  <2>1. jobs[id].released = 0
    BY <1>4 DEF PlainInv, Refunded, OnlyJob
  <2>2. paid[id].client = 0 /\ paid[id].provider = 0 /\ paid[id].treasury = 0
    <3>1. paid[id].client + paid[id].provider + paid[id].treasury = 0
      BY <1>4, <2>1 DEF PlainInv
    <3>2. /\ paid[id].client \in Nat /\ paid[id].provider \in Nat
          /\ paid[id].treasury \in Nat
      BY <1>1 DEF Payment
    <3> QED
      BY <3>1, <3>2, NothingIsThreeNothings
  <2>3. /\ paid'[id].client = jobs[id].budget
        /\ paid'[id].provider = 0 /\ paid'[id].treasury = 0
        /\ jobs[id].budget \in Nat
    BY <1>1, <2>1, <2>2 DEF Refunded, Payment, Job
  <2> QED
    BY <1>2, <2>3 DEF PlainInv, Terminal
<1> QED
  BY <1>3, <1>4

(***************************************************************************)
(* No class of steps breaks the money part of the invariant.               *)
(***************************************************************************)
LEMMA MoneyIsKept ==
    ASSUME IInv, JobsOK', PaidOK',
           DOMAIN milestones \subseteq DOMAIN milestones',
           \/ UNCHANGED <<jobs, paid>>
           \/ Created
           \/ \E id \in JobIds : Moved(id) \/ PaidOut(id) \/ Refunded(id) \/ Released(id)
    PROVE  MoneyInv'
<1>1. JobsOK /\ PaidOK /\ MoneyInv
  BY DEF IInv, TypeOK, MoneyInv
<1>2. /\ \A id \in JobIds : OpenInv(jobs[id])
      /\ \A id \in PlainJobs : PlainInv(jobs[id], paid[id])
  BY <1>1, JobByJob
<1>3. /\ \A id \in PlainJobs' : id \in JobIds'
      /\ \A id \in PlainJobs' : id \in JobIds => id \in PlainJobs
  BY DEF PlainJobs, IsMilestoneJob
<1>4. SUFFICES /\ \A id \in JobIds' : OpenInv(jobs'[id])
               /\ \A id \in PlainJobs' : PlainInv(jobs'[id], paid'[id])
  BY JobByJob
<1>5. CASE UNCHANGED <<jobs, paid>>
  <2>1. JobIds' = JobIds
    BY <1>5 DEF JobIds
  <2> QED
    BY <1>2, <1>3, <1>5, <2>1
<1>6. CASE Created
  <2>1. \A id \in JobIds : jobs'[id] = jobs[id] /\ paid'[id] = paid[id]
    BY <1>6 DEF Created
  <2>2. \A id \in JobIds' \ JobIds :
           /\ jobs'[id] \in Job
           /\ jobs'[id].status = "Funded" /\ jobs'[id].released = 0
           /\ jobs'[id].deliverable_hash = ZeroHash
           /\ paid'[id] = [client |-> 0, provider |-> 0, treasury |-> 0]
    BY <1>6, ElementOfSeq, LenProperties DEF Created, JobsOK, JobIds, NoPayment
  <2>3. ASSUME NEW id \in JobIds' \ JobIds
        PROVE  OpenInv(jobs'[id]) /\ PlainInv(jobs'[id], paid'[id])
    BY <2>2, <2>3 DEF OpenInv, PlainInv, Terminal, Job
  <2> QED
    BY <1>2, <1>3, <2>1, <2>3
<1>7. ASSUME NEW id \in JobIds, Moved(id) \/ PaidOut(id) \/ Refunded(id) \/ Released(id)
      PROVE  /\ \A k \in JobIds' : OpenInv(jobs'[k])
             /\ \A k \in PlainJobs' : PlainInv(jobs'[k], paid'[k])
  <2>1. OnlyJob(id)
    BY <1>7 DEF Moved, PaidOut, Refunded, Released
  <2>2. /\ JobIds' = JobIds
        /\ \A k \in JobIds \ {id} : jobs'[k] = jobs[k] /\ paid'[k] = paid[k]
    BY <2>1 DEF OnlyJob
  <2>3. OpenInv(jobs'[id]) /\ (id \in PlainJobs' => PlainInv(jobs'[id], paid'[id]))
    <3>1. CASE Released(id)
      <4>1. id \notin PlainJobs'
        BY <3>1 DEF Released, PlainJobs, IsMilestoneJob
      <4>2. jobs[id].status \notin Terminal
        BY <2>1 DEF OnlyJob
      <4>3. OpenInv(jobs'[id])
        BY <1>2, <2>1, <3>1, <4>2 DEF Released, OnlyJob, OpenInv, Terminal
      <4> QED
        BY <4>1, <4>3
    <3>2. CASE Moved(id) \/ PaidOut(id) \/ Refunded(id)
      BY <1>1, <1>2, <1>3, <3>2, MovedKeeps, PaidOutKeeps, RefundedKeeps
    <3> QED
      BY <1>7, <3>1, <3>2
  <2> QED
    BY <1>2, <1>3, <2>2, <2>3
<1> QED
  BY <1>5, <1>6, <1>7

----------------------------------------------------------------------------
(* The inductive invariant holds of every reachable state. *)

(***************************************************************************)
(* An entry point of plain jobs preserves the invariant, and is one of the *)
(* classes.                                                                *)
(***************************************************************************)
LEMMA JobNextKeeps ==
    ASSUME IInv, JobNext, UNCHANGED <<milestones, channelVars>>
    PROVE  /\ IInv'
           /\ \/ UNCHANGED <<jobs, paid>>
              \/ Created
              \/ \E id \in JobIds : Moved(id) \/ PaidOut(id) \/ Refunded(id)
<1>1. ConfigOK /\ JobsOK /\ PaidOK /\ QuorumsOK /\ MilestonesOK /\ ChannelsOK
  BY DEF IInv, TypeOK
<1>2. ConfigOK' /\ ChannelsOK'
  BY <1>1 DEF JobNext, ConfigOK, ChannelsOK, ChannelOK, channelVars
<1>3. CASE Create
  <2>1. Created
    BY <1>3, CreateCreates
  <2>2. JobsOK' /\ PaidOK' /\ JobIds \subseteq JobIds'
    BY <2>1 DEF Created
  <2>3. QuorumsOK' /\ DOMAIN quorums' \subseteq DOMAIN quorums \cup (JobIds' \ JobIds)
    BY <1>3, CreateKeepsQuorums
  <2>4. MilestonesOK'
    BY <1>1, <2>2, <2>3 DEF MilestonesOK
  <2>5. MoneyInv'
    BY <2>1, <2>2, MoneyIsKept
  <2> QED
    BY <1>2, <2>1, <2>2, <2>3, <2>4, <2>5 DEF IInv, TypeOK, MoneyInv
<1>4. ASSUME NEW caller \in Addr, NEW id \in JobIds, JobStep(caller, id)
      PROVE  /\ IInv'
             /\ Moved(id) \/ PaidOut(id) \/ Refunded(id) \/ UNCHANGED <<jobs, paid>>
  <2>1. Moved(id) \/ PaidOut(id) \/ Refunded(id) \/ UNCHANGED <<jobs, paid>>
    BY <1>4, JobStepClass
  <2>2. JobsOK' /\ PaidOK' /\ JobIds' = JobIds
    BY <1>1, <2>1 DEF Moved, PaidOut, Refunded, OnlyJob, JobsOK, PaidOK, JobIds
  <2>3. QuorumsOK' /\ DOMAIN quorums' \subseteq DOMAIN quorums
    BY <1>4, <2>2, JobStepKeepsQuorums
  <2>4. MilestonesOK'
    BY <1>1, <2>2, <2>3 DEF MilestonesOK
  <2>5. MoneyInv'
    BY <1>4, <2>1, <2>2, MoneyIsKept
  <2> QED
    BY <1>2, <2>1, <2>2, <2>3, <2>4, <2>5 DEF IInv, TypeOK, MoneyInv
<1> QED
  BY <1>3, <1>4, CreateCreates DEF JobNext

(***************************************************************************)
(* So does an entry point of milestone jobs.                               *)
(***************************************************************************)
LEMMA MilestoneNextKeeps ==
    ASSUME IInv, MilestoneNext, UNCHANGED channelVars
    PROVE  /\ IInv'
           /\ \/ UNCHANGED <<jobs, paid>>
              \/ Created
              \/ \E id \in JobIds : Refunded(id) \/ Released(id)
           /\ DOMAIN milestones \subseteq DOMAIN milestones'
           /\ DOMAIN milestones' \cap JobIds \subseteq DOMAIN milestones
<1>1. ConfigOK /\ JobsOK /\ PaidOK /\ QuorumsOK /\ MilestonesOK /\ ChannelsOK
  BY DEF IInv, TypeOK
<1>2. ConfigOK' /\ ChannelsOK'
  BY <1>1 DEF MilestoneNext, ConfigOK, ChannelsOK, ChannelOK, channelVars
<1>3. CASE CreateMilestones
  <2>1. /\ Created /\ UNCHANGED quorums
        /\ JobIds' = JobIds \cup {Len(jobs) + 1} /\ Len(jobs) + 1 \notin JobIds
        /\ DOMAIN milestones' = DOMAIN milestones \cup {Len(jobs) + 1}
    BY <1>3, CreateMilestonesCreates
  <2>2. JobsOK' /\ PaidOK' /\ JobIds \subseteq JobIds'
    BY <2>1 DEF Created
  <2>3. QuorumsOK'
    BY <1>1, <2>1, <2>2 DEF QuorumsOK, QuorumOK
  <2>4. MilestonesOK'
    BY <1>3, CreateKeepsMilestones
  <2>5. MoneyInv'
    BY <2>1, <2>2, MoneyIsKept
  <2> QED
    BY <1>2, <2>1, <2>2, <2>3, <2>4, <2>5 DEF IInv, TypeOK, MoneyInv
<1>4. ASSUME NEW caller \in Addr, NEW id \in DOMAIN milestones,
             MilestoneStep(caller, id)
      PROVE  /\ IInv' /\ id \in JobIds
             /\ Released(id) \/ Refunded(id) \/ UNCHANGED <<jobs, paid>>
             /\ DOMAIN milestones' = DOMAIN milestones
  <2>1. /\ id \in JobIds
        /\ Released(id) \/ Refunded(id) \/ UNCHANGED <<jobs, paid>>
    BY <1>1, <1>4, MilestoneStepClass DEF MilestonesOK
  <2>2. JobsOK' /\ PaidOK' /\ JobIds' = JobIds
    BY <1>1, <2>1 DEF Released, Refunded, OnlyJob, JobsOK, PaidOK, JobIds
  <2>3. MilestonesOK' /\ UNCHANGED quorums
    BY <1>4, <2>2, MilestoneStepKeepsMilestones
  <2>4. QuorumsOK'
    BY <1>1, <2>2, <2>3 DEF QuorumsOK, QuorumOK
  <2>5. DOMAIN milestones' = DOMAIN milestones
    BY <1>4 DEF MilestoneStep, submit_milestone, approve_milestone,
                cancel_uncompleted_milestones
  <2>6. MoneyInv'
    BY <2>1, <2>2, <2>5, MoneyIsKept
  <2> QED
    BY <1>2, <2>1, <2>2, <2>3, <2>4, <2>5, <2>6 DEF IInv, TypeOK, MoneyInv
<1> QED
  BY <1>3, <1>4, CreateMilestonesCreates DEF MilestoneNext

(***************************************************************************)
(* Nothing but the entry points of jobs touches a job.                     *)
(***************************************************************************)
LEMMA OtherStepsKeep ==
    ASSUME IInv, ConfigOK', ChannelsOK', UNCHANGED <<jobVars, milestones>>
    PROVE  IInv'
<1>1. JobsOK' /\ PaidOK' /\ QuorumsOK' /\ MilestonesOK'
  BY DEF IInv, TypeOK, JobsOK, PaidOK, QuorumsOK, QuorumOK, MilestonesOK,
         JobIds, jobVars
<1>2. MoneyInv'
  BY <1>1, MoneyIsKept DEF jobVars
<1> QED
  BY <1>1, <1>2 DEF IInv, TypeOK, MoneyInv

(***************************************************************************)
(* The deployed contract, before init is called, satisfies the invariant.  *)
(***************************************************************************)
LEMMA InitIsOK == Init => IInv
<1> SUFFICES ASSUME Init PROVE IInv
  OBVIOUS
<1> USE DEF Init, BaseInit, JobInit, MilestoneInit, ChannelInit
<1>1. JobIds = {} /\ DOMAIN milestones = {} /\ DOMAIN quorums = {}
      /\ DOMAIN channels = {} /\ opened = 0
  BY DEF JobIds
<1>2. ConfigOK
  <2>1. InitialConfig.allowed \in [{} -> ValidDecimals]
    BY DEF InitialConfig
  <2>2. << >> \in UNION {[S -> ValidDecimals] : S \in SUBSET Tokens}
    <3>1. {} \in SUBSET Tokens /\ << >> \in [{} -> ValidDecimals]
      BY <2>1 DEF InitialConfig
    <3> QED
      BY <3>1
  <2>3. DEFAULT_FEE_BPS \in 0..MAX_FEE_BPS
    BY DEF DEFAULT_FEE_BPS, MAX_FEE_BPS
  <2>4. InitialConfig \in Config
    BY <2>2, <2>3 DEF InitialConfig, Config
  <2> QED
    BY <2>4 DEF ConfigOK
<1>3. JobsOK /\ PaidOK
  BY DEF JobsOK, PaidOK
<1>4. QuorumsOK /\ MilestonesOK /\ ChannelsOK
  BY <1>1 DEF QuorumsOK, MilestonesOK, ChannelsOK
<1>5. MoneyInv
  BY <1>1, JobByJob DEF PlainJobs, IsMilestoneJob
<1> QED
  BY <1>2, <1>3, <1>4, <1>5 DEF IInv, TypeOK, MoneyInv

(***************************************************************************)
(* Every call of every entry point, every voucher signed and every ledger  *)
(* closed preserves it.                                                    *)
(***************************************************************************)
LEMMA NextKeepsInv == IInv /\ [Next]_vars => IInv'
<1> SUFFICES ASSUME IInv, [Next]_vars PROVE IInv'
  OBVIOUS
<1>1. ConfigOK /\ ChannelsOK
  BY DEF IInv, TypeOK
<1>2. CASE (Admin \/ Tick) /\ UNCHANGED <<jobVars, milestones, channelVars>>
  <2>1. ConfigOK'
    BY <1>1, <1>2, AdminKeepsConfig DEF Tick, ConfigOK
  <2>2. ChannelsOK'
    BY <1>1, <1>2 DEF ChannelsOK, ChannelOK, channelVars
  <2> QED
    BY <1>2, <2>1, <2>2, OtherStepsKeep
<1>3. CASE JobNext /\ UNCHANGED <<milestones, channelVars>>
  BY <1>3, JobNextKeeps
<1>4. CASE MilestoneNext /\ UNCHANGED channelVars
  BY <1>4, MilestoneNextKeeps
<1>5. CASE ChannelNext /\ UNCHANGED <<jobVars, milestones>>
  <2>1. ConfigOK'
    BY <1>1, <1>5 DEF ChannelNext, ConfigOK
  <2> QED
    BY <1>1, <1>5, <2>1, ChannelsStayOK, OtherStepsKeep
<1>6. CASE UNCHANGED vars
  <2>1. ConfigOK' /\ ChannelsOK' /\ UNCHANGED <<jobVars, milestones>>
    BY <1>1, <1>6 DEF vars, baseVars, jobVars, channelVars, ConfigOK, ChannelsOK,
                      ChannelOK
  <2> QED
    BY <2>1, OtherStepsKeep
<1> QED
  BY <1>2, <1>3, <1>4, <1>5, <1>6 DEF Next

(***************************************************************************)
(* So it holds in every state the contract reaches.                        *)
(***************************************************************************)
LEMMA Invariant == Spec => []IInv
BY InitIsOK, NextKeepsInv, PTL DEF Spec

(***************************************************************************)
(* Every variable stays in its domain: no payment is ever negative, and no *)
(* channel owes more than its deposit.                                     *)
(***************************************************************************)
THEOREM TypeCorrect == Spec => []TypeOK
BY Invariant, PTL DEF IInv

(***************************************************************************)
(* The escrow of a plain job is disposed of once and as a whole.           *)
(***************************************************************************)
THEOREM EscrowSettledOnce == Spec => []SettledOnce
BY Invariant, PTL DEF IInv

(***************************************************************************)
(* The treasury never takes more than 5 % of a plain job, or one unit,     *)
(* whatever rates the admins set and whenever they set them.               *)
(***************************************************************************)
THEOREM FeeStaysCapped == Spec => []FeeIsCapped
BY Invariant, PTL DEF IInv

(***************************************************************************)
(* No plain job pays its provider without a content hash on record.        *)
(***************************************************************************)
THEOREM NoPayWithoutDelivery == Spec => []PaidForDelivery
BY Invariant, PTL DEF IInv

----------------------------------------------------------------------------
(* What no step may do. *)

(***************************************************************************)
(* Every step of the contract belongs to a class, and milestones are only  *)
(* ever given to a job when it is created.                                 *)
(***************************************************************************)
LEMMA StepClass ==
    ASSUME IInv, [Next]_vars
    PROVE  /\ \/ UNCHANGED <<jobs, paid>>
              \/ Created
              \/ \E id \in JobIds :
                    Moved(id) \/ PaidOut(id) \/ Refunded(id) \/ Released(id)
           /\ DOMAIN milestones \subseteq DOMAIN milestones'
           /\ DOMAIN milestones' \cap JobIds \subseteq DOMAIN milestones
<1>1. CASE UNCHANGED <<jobVars, milestones>>
  BY <1>1 DEF jobVars
<1>2. CASE JobNext /\ UNCHANGED <<milestones, channelVars>>
  BY <1>2, JobNextKeeps
<1>3. CASE MilestoneNext /\ UNCHANGED channelVars
  BY <1>3, MilestoneNextKeeps
<1> QED
  BY <1>1, <1>2, <1>3 DEF Next, vars

(***************************************************************************)
(* A completed or cancelled job is out of reach of every entry point.      *)
(***************************************************************************)
THEOREM TerminalStaysFinal == Spec => TerminalIsFinal
<1> DEFINE Final == \A id \in JobIds : jobs[id].status \in Terminal =>
                       jobs'[id] = jobs[id] /\ paid'[id] = paid[id]
<1>1. ASSUME IInv, [Next]_vars
      PROVE  Final
  BY <1>1, StepClass DEF Created, Moved, PaidOut, Refunded, Released, OnlyJob
<1>2. IInv /\ [Next]_vars => [Final]_vars
  BY <1>1
<1> QED
  BY <1>2, Invariant, PTL DEF Spec, TerminalIsFinal

(***************************************************************************)
(* The content hash, once committed, is never replaced.                    *)
(***************************************************************************)
THEOREM HashStaysImmutable == Spec => HashIsImmutable
<1> DEFINE Kept == \A id \in JobIds : jobs[id].deliverable_hash # ZeroHash =>
                      jobs'[id].deliverable_hash = jobs[id].deliverable_hash
<1>1. ASSUME IInv, [Next]_vars
      PROVE  Kept
  <2> SUFFICES ASSUME NEW id \in JobIds, jobs[id].deliverable_hash # ZeroHash
               PROVE  jobs'[id].deliverable_hash = jobs[id].deliverable_hash
    OBVIOUS
  <2>1. jobs[id] \in Job
    BY <1>1, ElementOfSeq, LenProperties DEF IInv, TypeOK, JobsOK, JobIds
  <2>2. jobs[id].status \notin Terminal => jobs[id].status # "Funded"
    BY <1>1 DEF IInv, CommittedOnSubmit
  <2>3. CASE jobs'[id] = jobs[id]
    BY <2>3
  <2>4. CASE Moved(id)
    BY <2>2, <2>4 DEF Moved, OnlyJob
  <2>5. CASE PaidOut(id) \/ Refunded(id)
    BY <2>1, <2>5 DEF PaidOut, Refunded, Settled, Job
  <2>6. CASE Released(id)
    BY <2>6 DEF Released
  <2>7. CASE UNCHANGED <<jobs, paid>> \/ Created
    BY <2>3, <2>7 DEF Created
  <2>8. ASSUME NEW k \in JobIds, k # id,
               Moved(k) \/ PaidOut(k) \/ Refunded(k) \/ Released(k)
        PROVE  jobs'[id] = jobs[id]
    BY <2>8 DEF Moved, PaidOut, Refunded, Released, OnlyJob
  <2> QED
    BY <1>1, <2>3, <2>4, <2>5, <2>6, <2>7, <2>8, StepClass
<1>2. IInv /\ [Next]_vars => [Kept]_vars
  BY <1>1
<1> QED
  BY <1>2, Invariant, PTL DEF Spec, HashIsImmutable

(***************************************************************************)
(* The emergency pause stops every entry point that moves a token or       *)
(* changes a job, a milestone or a channel.                                *)
(***************************************************************************)
THEOREM PauseHolds == Spec => PauseFreezes
<1> DEFINE Frozen == config.paused /\ config'.paused =>
                        UNCHANGED <<held, jobVars, milestones, channels>>
<1>1. ASSUME Next, config.paused
      PROVE  UNCHANGED <<held, jobVars, milestones, channels>>
  <2>1. CASE (Admin \/ Tick) /\ UNCHANGED <<jobVars, milestones, channelVars>>
    BY <2>1 DEF Admin, Tick, channelVars
  <2>2. CASE JobNext
    BY <1>1, <2>2 DEF JobNext, Create, JobStep, require_not_paused, create_job,
          batch_create_jobs, create_job_multi_eval, submit, complete, approve_job,
          cancel, dispute, claim_refund, claim_expired
  <2>3. CASE MilestoneNext
    BY <1>1, <2>3 DEF MilestoneNext, CreateMilestones, MilestoneStep,
          require_not_paused, create_milestone_job, submit_milestone,
          approve_milestone, cancel_uncompleted_milestones
  <2>4. CASE ChannelNext /\ UNCHANGED <<jobVars, milestones>>
    <3>1. ASSUME NEW payer, NEW provider, NEW token, NEW deposit,
                 open_channel(payer, provider, token, deposit)
          PROVE  FALSE
      BY <1>1, <3>1 DEF open_channel, require_not_paused
    <3>2. ASSUME NEW id, SignVoucher(id)
          PROVE  UNCHANGED <<held, channels>>
      BY <3>2 DEF SignVoucher, createVoucher, createChannelVoucher
    <3>3. ASSUME NEW caller, NEW id, ChannelStep(caller, id)
          PROVE  FALSE
      BY <1>1, <3>3 DEF ChannelStep, close_channel, force_close, require_not_paused
    <3> QED
      BY <2>4, <3>1, <3>2, <3>3 DEF ChannelNext
  <2> QED
    BY <1>1, <2>1, <2>2, <2>3, <2>4 DEF Next
<1>2. [Next]_vars => [Frozen]_vars
  BY <1>1
<1> QED
  BY <1>2, PTL DEF Spec, PauseFreezes

=============================================================================
