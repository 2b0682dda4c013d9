-------------------------- MODULE AgenticCommerce --------------------------
(***************************************************************************)
(* The agentic-commerce contract as a whole: jobs, milestone jobs and      *)
(* payment channels draw on one token balance and obey one pause switch.   *)
(***************************************************************************)
EXTENDS MilestoneEscrow, PaymentChannels

vars == <<baseVars, jobVars, milestones, channelVars>>

Init == BaseInit /\ JobInit /\ MilestoneInit /\ ChannelInit

Next ==
    \/ (Admin \/ Tick) /\ UNCHANGED <<jobVars, milestones, channelVars>>
    \/ JobNext /\ UNCHANGED <<milestones, channelVars>>
    \/ MilestoneNext /\ UNCHANGED channelVars
    \/ ChannelNext /\ UNCHANGED <<jobVars, milestones>>

Spec == Init /\ [][Next]_vars

\* Ledgers keep closing, a provider claims the payout it is entitled to, and a
\* payer claims its unused deposit back.
Fairness ==
    /\ WF_vars(Tick /\ UNCHANGED <<jobVars, milestones, channelVars>>)
    /\ \A id \in 1..MaxJobs :
          WF_vars(/\ id \in JobIds
                  /\ claim_expired(jobs[id].provider, id)
                  /\ UNCHANGED <<config, now, milestones, channelVars>>)
    /\ \A id \in 1..MaxChannels :
          WF_vars(/\ id \in DOMAIN channels
                  /\ force_close(channels[id].payer, id)
                  /\ UNCHANGED <<config, now, jobVars, milestones>>)

FairSpec == Spec /\ Fairness

PlainJobs == {id \in JobIds : ~IsMilestoneJob(id)}

----------------------------------------------------------------------------
(* Types. *)

Payment == [client : Nat, provider : Nat, treasury : Nat]

Job == [ client : Addr, provider : Addr, evaluator : Addr, token : Tokens,
         budget : Nat \ {0}, released : Nat, status : JobStatus,
         deliverable : Uris \cup {Blank},
         deliverable_hash : Hashes \cup {ZeroHash},
         funded_at : Nat, updated_at : Nat, fee_bps : 0..MAX_FEE_BPS,
         sla_deadline : Nat, penalty_bps_per_hour : Nat, submitted_at : {0} ]

Config == [ admin : Addr \cup {NotSet}, treasury : Addr \cup {NotSet},
            fee_bps : 0..MAX_FEE_BPS,
            multi_eval_threshold : EvalThresholds \cup {NotSet},
            paused : BOOLEAN, channels_paused : BOOLEAN,
            allowed : UNION {[S -> ValidDecimals] : S \in SUBSET Tokens} ]

QuorumOK(q) ==
    /\ q \in [ weights : EvalWeights, threshold : Nat,
               approvals : SUBSET Addr, accumulated_weight : Nat ]
    /\ q.approvals \subseteq DOMAIN q.weights

Channel == [ payer : Addr, provider : Addr, token : Tokens, deposit : Nat,
             amount : Nat, nonce : Nat, opened_at : Nat, closing_at : Nat ]

ChannelOK(ch) == ch \in Channel /\ ch.amount <= ch.deposit

ConfigOK == config \in Config /\ now \in Nat
JobsOK   == jobs \in Seq(Job)
PaidOK   == paid \in Seq(Payment) /\ Len(paid) = Len(jobs)
QuorumsOK ==
    /\ DOMAIN quorums \subseteq JobIds
    /\ \A id \in DOMAIN quorums : QuorumOK(quorums[id])
MilestonesOK ==
    /\ DOMAIN milestones \subseteq JobIds \ DOMAIN quorums
    /\ \A id \in DOMAIN milestones :
          /\ milestones[id] \in Seq(Milestone)
          /\ \A i \in DOMAIN milestones[id] : milestones[id][i].amount > 0
ChannelsOK ==
    /\ opened \in Nat /\ DOMAIN channels \subseteq 1..opened
    /\ \A id \in DOMAIN channels : ChannelOK(channels[id])

\* Every variable stays in its domain: in particular no share of a payment is
\* ever negative, the fee rate stays under its cap, and no channel owes its
\* provider more than its deposit.  (Solvent says what held is.)
TypeOK ==
    /\ ConfigOK /\ JobsOK /\ PaidOK
    /\ QuorumsOK /\ MilestonesOK /\ ChannelsOK

----------------------------------------------------------------------------
(* Safety. *)

JobsIn(t)     == {id \in JobIds : jobs[id].token = t}
ChannelsIn(t) == {id \in DOMAIN channels : channels[id].token = t}
Unreleased    == [id \in JobIds |-> jobs[id].budget - jobs[id].released]
OpenDeposits  == [id \in DOMAIN channels |-> channels[id].deposit]

\* The contract holds, in every token, exactly what the unsettled jobs and the
\* open channels are owed: nothing is missing, nothing is stranded.  Every
\* settlement pays from this one balance, so an error in one job's amounts
\* would be paid by another job's or channel's deposit.
Solvent ==
    \A t \in Tokens :
       held[t] = SumFunctionOnSet(Unreleased, JobsIn(t))
                 + SumFunctionOnSet(OpenDeposits, ChannelsIn(t))

\* The escrow of a plain job leaves the contract once and as a whole.  Until
\* then nothing has been paid; afterwards the shares add up to the budget, a
\* cancelled job paid only its client, and a completed one kept at most half
\* back from the provider as SLA penalty.
SettledOnce ==
    \A id \in PlainJobs :
       LET job == jobs[id] IN
       /\ Disbursed(id) = job.released
       /\ job.released = IF job.status \in Terminal THEN job.budget ELSE 0
       /\ job.status = "Cancelled" => paid[id].client = job.budget
       /\ job.status = "Completed" => 2 * paid[id].client <= job.budget

\* The treasury's share of a plain job is within the 5 % cap on the fee rate, or
\* one unit: raising the rate, even past the cap, before or after the job was
\* funded, never takes more from the provider.
FeeIsCapped ==
    \A id \in PlainJobs :
       \/ paid[id].treasury <= 1
       \/ paid[id].treasury * BPS_DENOM <= jobs[id].budget * MAX_FEE_BPS

\* No provider is paid for a plain job without a content hash on record.
PaidForDelivery ==
    \A id \in PlainJobs :
       jobs[id].status # "Cancelled" =>
          (jobs[id].status = "Funded" <=> jobs[id].deliverable_hash = ZeroHash)

\* Each evaluator's weight counts once, however often and from wherever the
\* approval is sent.
EachCountedOnce ==
    \A id \in DOMAIN quorums :
       quorums[id].accumulated_weight =
          SumFunctionOnSet(quorums[id].weights, quorums[id].approvals)

\* A multi-evaluator job is completed exactly when the weight of its approvals
\* has reached the threshold: neither complete nor the provider's timeout claim
\* goes around the quorum, and no quorum that is reached leaves the job open.
QuorumDecides ==
    \A id \in DOMAIN quorums :
       jobs[id].status = "Completed"
          <=> quorums[id].accumulated_weight >= quorums[id].threshold

\* A job that is Completed or Cancelled, and what it has paid, never change
\* again, whichever entry point is called on it.
TerminalIsFinal ==
    [][\A id \in JobIds :
          jobs[id].status \in Terminal =>
             jobs'[id] = jobs[id] /\ paid'[id] = paid[id]]_vars

\* The content hash the provider committed can never be replaced.
HashIsImmutable ==
    [][\A id \in JobIds :
          jobs[id].deliverable_hash # ZeroHash =>
             jobs'[id].deliverable_hash = jobs[id].deliverable_hash]_vars

\* While the contract is paused no job, milestone or channel changes and no
\* token moves, whoever calls what.
PauseFreezes ==
    [][config.paused /\ config'.paused =>
          UNCHANGED <<held, jobVars, milestones, channels>>]_vars

----------------------------------------------------------------------------
(* Milestone jobs. *)

Approved(id) == {i \in DOMAIN milestones[id] : milestones[id][i].approved}

ApprovedAmount(id) ==
    SumFunctionOnSet(Amounts(milestones[id]), Approved(id))

\* Until a milestone job is completed, it has released exactly the amounts of
\* its approved milestones, and cancelling it refunds exactly the rest.  One
\* that was never submitted as a whole completes with its last approval.
MilestonesReleased ==
    \A id \in DOMAIN milestones :
       LET job == jobs[id] IN
       /\ job.status \notin Terminal =>
             /\ job.released = ApprovedAmount(id)
             /\ Disbursed(id) = job.released
       /\ job.status = "Cancelled" =>
             /\ Disbursed(id) = job.budget
             /\ paid[id].client = job.budget - ApprovedAmount(id)
       /\ job.deliverable_hash = ZeroHash =>
             (job.status = "Completed" <=> Approved(id) = DOMAIN milestones[id])

\* Milestones are paid in their order.
MilestonesInOrder ==
    \A id \in DOMAIN milestones : \A i \in Approved(id) : 1..i \subseteq Approved(id)

----------------------------------------------------------------------------
(* Channels. *)

\* What a settled channel paid its provider was signed by the payer for that
\* channel; the payer got what was left, and the two together the deposit the
\* channel was opened with (which the payer's session keeps).
SettledBySignature ==
    \A id \in DOMAIN settled :
       /\ \/ settled[id].provider = 0
          \/ \E v \in vouchers :
                v.channel_id = id /\ v.amount = settled[id].provider
       /\ settled[id].payer >= 0
       /\ settled[id].provider + settled[id].payer = sessions[id].deposit

\* Once a voucher is presented the challenge window has a fixed end: the amount
\* on record only grows, and the channel is settled at that amount and not
\* before that end.
WindowIsHonoured ==
    [][\A id \in DOMAIN channels :
          channels[id].closing_at # 0 =>
             IF id \in DOMAIN channels'
             THEN /\ channels'[id].closing_at = channels[id].closing_at
                  /\ channels'[id].amount >= channels[id].amount
             ELSE /\ now >= channels[id].closing_at
                  /\ settled'[id].provider = channels[id].amount]_vars

\* "replace the current voucher with a higher-value payer-signed voucher while
\* that window remains open" (close_channel): every voucher of the payer's
\* session that is worth more than the one on record can still be presented in
\* the window, because sessions count amount and nonce up together.
HigherVoucherAccepted ==
    \A v \in vouchers :
       LET ch == channels[v.channel_id] IN
       /\ v.channel_id \in DOMAIN channels
       /\ ch.closing_at # 0 /\ WindowOpen(ch)
       /\ ch.amount < v.amount /\ v.amount <= ch.deposit
       => Newer(v, ch)

----------------------------------------------------------------------------
(* What comments of the contract say of fees, SLAs and timeouts. *)

\* "fee_bps snapshotted at job creation so admin changes to the global fee
\* rate do not retroactively affect already-funded jobs" (Job.fee_bps): the
\* treasury's share of a completed plain job is the fee at the job's rate.
FeeAtSnapshot ==
    \A id \in PlainJobs :
       jobs[id].status = "Completed" =>
          paid[id].treasury =
             compute_fee(jobs[id].budget - paid[id].client, jobs[id].fee_bps)

\* "ledger timestamp recorded when the provider submitted the deliverable. 0
\* until submit() is called" (Job.submitted_at).
SubmissionTimeRecorded ==
    \A id \in JobIds :
       jobs[id].status = "Submitted" => jobs[id].submitted_at > 0

\* "Refund only the net (unreleased) portion of the budget so the contract never
\* transfers more than it actually holds for this job" (cancel): no job is ever
\* paid more than its budget.
NeverOverpaid == \A id \in JobIds : Disbursed(id) <= jobs[id].budget

\* "budget threshold above which jobs must use create_job_multi_eval"
\* (set_multi_eval_threshold): a job created above the threshold has a quorum.
HighValueHasQuorum ==
    [][\A id \in DOMAIN jobs' \ DOMAIN jobs :
          AboveEvalThreshold(jobs'[id].budget) => id \in DOMAIN quorums']_vars

----------------------------------------------------------------------------
(* Liveness. *)

\* An unresponsive evaluator does not lock a submitted plain job of a single
\* evaluator: the provider's timeout claim settles it, unless the client moves
\* first (by cancelling or disputing) or the contract is paused.  Only jobs
\* whose timeout lies within the bounded time are considered.
SubmittedIsSettled ==
    \A id \in 1..MaxJobs :
       (/\ id \in PlainJobs /\ ~IsQuorum(id)
        /\ jobs[id].status = "Submitted"
        /\ jobs[id].updated_at + REFUND_TIMEOUT_SECS <= MaxTime)
       ~> \/ config.paused
          \/ id \in JobIds /\ jobs[id].status # "Submitted"

\* The payer's deposit is not locked either: an open channel is settled once its
\* challenge window is over, unless the admin pauses it.
ChannelIsSettled ==
    \A id \in 1..MaxChannels :
       (id \in DOMAIN channels /\ ChallengeUntil(channels[id]) <= MaxTime)
       ~> \/ id \notin DOMAIN channels
          \/ ChallengeUntil(channels[id]) > MaxTime
          \/ config.paused \/ config.channels_paused

----------------------------------------------------------------------------
(* The contract keeps the escrow promise to the parties of every plain job. *)

Phase(status) == CASE status = "Completed" -> "paid"
                   [] status = "Cancelled" -> "refunded"
                   [] OTHER                -> "held"

Promise == INSTANCE EscrowPromise WITH
    book <- [id \in PlainJobs |->
               [ phase  |-> Phase(jobs[id].status),
                 amount |-> jobs[id].budget,
                 client |-> paid[id].client,
                 payees |-> paid[id].provider + paid[id].treasury ]]

\* Every plain job is held in full and then disposed of in full, exactly once.
KeepsPromise == Promise!Spec

=============================================================================
