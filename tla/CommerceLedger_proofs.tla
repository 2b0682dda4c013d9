------------------------ MODULE CommerceLedger_proofs ------------------------
(***************************************************************************)
(* What the agentic-commerce contract's records say of each other: the     *)
(* weight counted for a quorum and the job it decides, the balance held    *)
(* and what jobs and channels are owed, the milestones approved and the    *)
(* amounts released, the vouchers signed and the channels settled.         *)
(*                                                                         *)
(* Each property gets the invariant it needs beside IInv, a lemma per kind *)
(* of step that may disturb it, and one lemma that no other step does.     *)
(***************************************************************************)
EXTENDS AgenticCommerce_proofs, Sums_proofs

----------------------------------------------------------------------------
(* Evaluator quorums. *)

\* The weight counted is that of the evaluators who approved, and the job is
\* completed by, and only by, the approval that reaches the threshold, which
\* no empty set of approvals does.
QuorumInv(job, q) ==
    /\ IsFiniteSet(q.approvals)
    /\ q.threshold > 0
    /\ q.accumulated_weight = SumFunctionOnSet(q.weights, q.approvals)
    /\ job.status = "Completed" <=> q.accumulated_weight >= q.threshold

QuorumsInv == \A id \in DOMAIN quorums : QuorumInv(jobs[id], quorums[id])

(***************************************************************************)
(* A new quorum has counted nothing, and its job is funded.                *)
(***************************************************************************)
LEMMA CreateKeepsQuorumsInv ==
    ASSUME IInv, QuorumsInv, Create
    PROVE  QuorumsInv'
<1>1. /\ DOMAIN quorums \subseteq JobIds
      /\ \A k \in JobIds : jobs'[k] = jobs[k]
      /\ \A k \in JobIds' \ JobIds : jobs'[k].status = "Funded"
  BY CreateCreates DEF IInv, TypeOK, QuorumsOK, Created
<1>2. CASE UNCHANGED quorums
  BY <1>1, <1>2 DEF QuorumsInv, QuorumInv
<1>3. ASSUME NEW client \in Clients, NEW provider \in Providers, NEW q \in Quorums,
             NEW token \in Tokens, NEW budget \in Budgets, NEW sla \in SlaTerms,
             create_job_multi_eval(client, provider, q, token, budget, sla)
      PROVE  QuorumsInv'
  <2> DEFINE id  == Len(jobs) + 1
             new == [ weights |-> q.weights, threshold |-> q.threshold,
                      approvals |-> {}, accumulated_weight |-> 0 ]
  <2>1. /\ quorums' = [k \in DOMAIN quorums \cup {id} |->
                         IF k \in DOMAIN quorums THEN quorums[k] ELSE new]
        /\ q.threshold > 0
    BY <1>3 DEF create_job_multi_eval, ValidQuorum
  <2>2. \A k \in DOMAIN quorums' : k \in JobIds'
    BY CreateKeepsQuorums DEF QuorumsOK
  <2>3. \A k \in DOMAIN quorums' \ DOMAIN quorums : k \notin JobIds
    BY <1>1, <2>2, CreateKeepsQuorums
  <2>4. q.threshold \in Nat
    BY JobAssumption
  <2>5. SumFunctionOnSet(q.weights, {}) = 0 /\ IsFiniteSet({})
    BY SumEmpty, FS_EmptySet
  <2>6. \A job : job.status = "Funded" => QuorumInv(job, new)
    BY <2>1, <2>4, <2>5 DEF QuorumInv
  <2> HIDE DEF id, new
  <2>7. \A k \in DOMAIN quorums' \ DOMAIN quorums : QuorumInv(jobs'[k], quorums'[k])
    BY <1>1, <2>1, <2>2, <2>3, <2>6
  <2>8. \A k \in DOMAIN quorums : QuorumInv(jobs'[k], quorums'[k])
    BY <1>1, <2>1 DEF QuorumsInv
  <2> QED
    BY <2>7, <2>8 DEF QuorumsInv, QuorumInv
<1> QED
  BY <1>2, <1>3 DEF Create, create_job, batch_create_jobs

(***************************************************************************)
(* An approval counts the weight of an evaluator not counted before, and   *)
(* completes the job when that reaches the threshold; no other entry point *)
(* completes a job that keeps its quorum.                                  *)
(***************************************************************************)
LEMMA JobStepKeepsQuorumsInv ==
    ASSUME IInv, QuorumsInv, NEW caller \in Addr, NEW id \in JobIds,
           JobStep(caller, id)
    PROVE  QuorumsInv'
<1>1. ConfigOK /\ JobsOK /\ QuorumsOK /\ DOMAIN quorums \subseteq JobIds
  BY DEF IInv, TypeOK, QuorumsOK
<1>2. jobs[id] \in Job /\ DOMAIN jobs = JobIds
  BY <1>1, ElementOfSeq, LenProperties DEF JobsOK, JobIds
<1>3. ASSUME NEW status, UNCHANGED quorums,
             status = "Completed" <=> jobs[id].status = "Completed",
             \A k \in JobIds : jobs'[k].status = IF k = id THEN status
                                                 ELSE jobs[k].status
      PROVE  QuorumsInv'
  BY <1>1, <1>3 DEF QuorumsInv, QuorumInv
<1>4. ASSUME NEW d, NEW h, submit(caller, id, d, h)
      PROVE  QuorumsInv'
  <2>1. /\ UNCHANGED quorums /\ jobs[id].status = "Funded"
        /\ \A k \in JobIds : jobs'[k].status = IF k = id THEN "Submitted"
                                               ELSE jobs[k].status
    BY <1>2, <1>4 DEF submit, Job
  <2> QED
    BY <1>3, <2>1
<1>5. ASSUME NEW status, \A k \in JobIds : jobs'[k].status =
                            IF k = id THEN status ELSE jobs[k].status,
             UNCHANGED quorums, ~IsQuorum(id)
      PROVE  QuorumsInv'
  BY <1>1, <1>5 DEF QuorumsInv, QuorumInv, IsQuorum
<1>6. ASSUME NEW fee, PayOut(id, fee)
      PROVE  \A k \in JobIds : jobs'[k].status = IF k = id THEN "Completed"
                                                 ELSE jobs[k].status
  BY <1>2, <1>6 DEF PayOut, Settled, Job
<1>7. ASSUME NEW h, complete(caller, id, h)
      PROVE  QuorumsInv'
  <2>1. IsQuorum(id) => jobs[id].status = "Completed"
    BY <1>7 DEF complete, QuorumsInv, QuorumInv, IsQuorum
  <2>2. ~IsQuorum(id) /\ UNCHANGED quorums /\ PayOut(id, jobs[id].fee_bps)
    BY <1>7, <2>1 DEF complete
  <2> QED
    BY <1>5, <1>6, <2>2
<1>8. ASSUME claim_expired(caller, id)
      PROVE  QuorumsInv'
  BY <1>5, <1>6, <1>8 DEF claim_expired
<1>9. ASSUME dispute(caller, id)
      PROVE  QuorumsInv'
  <2>1. /\ UNCHANGED quorums /\ jobs[id].status = "Submitted"
        /\ \A k \in JobIds : jobs'[k].status = IF k = id THEN "Disputed"
                                               ELSE jobs[k].status
    BY <1>2, <1>9 DEF dispute, Job
  <2> QED
    BY <1>3, <2>1
<1>10. ASSUME cancel(caller, id) \/ claim_refund(caller, id)
       PROVE  QuorumsInv'
  <2>1. /\ quorums' = [q \in DOMAIN quorums \ {id} |-> quorums[q]]
        /\ \A k \in JobIds \ {id} : jobs'[k] = jobs[k]
    BY <1>2, <1>10 DEF cancel, claim_refund, Refund
  <2> QED
    BY <1>1, <2>1 DEF QuorumsInv, QuorumInv
<1>11. ASSUME approve_job(caller, id)
       PROVE  QuorumsInv'
  <2> DEFINE q      == quorums[id]
             weight == q.accumulated_weight + q.weights[caller]
             new    == [q EXCEPT !.approvals = @ \cup {caller},
                                 !.accumulated_weight = weight]
  <2>1. /\ id \in DOMAIN quorums /\ caller \in DOMAIN q.weights
        /\ caller \notin q.approvals
        /\ jobs[id].status \in {"Submitted", "Disputed"}
        /\ quorums' = [quorums EXCEPT ![id].approvals = @ \cup {caller},
                                      ![id].accumulated_weight = weight]
        /\ IF weight >= q.threshold
           THEN PayOut(id, jobs[id].fee_bps) ELSE UNCHANGED <<held, jobs, paid>>
    BY <1>11 DEF approve_job, IsQuorum
  <2>2. QuorumOK(q) /\ QuorumInv(jobs[id], q)
    BY <1>1, <2>1 DEF QuorumsOK, QuorumsInv
  <2>3. \A e \in DOMAIN q.weights : q.weights[e] \in Nat
    BY <2>2, JobAssumption DEF QuorumOK
  <2>4. q.approvals \subseteq DOMAIN q.weights
    BY <2>2 DEF QuorumOK
  <2>5. SumFunctionOnSet(q.weights, q.approvals \cup {caller})
           = SumFunctionOnSet(q.weights, q.approvals) + q.weights[caller]
    BY <2>1, <2>2, <2>3, <2>4, SumAdd DEF QuorumInv
  <2>6. IsFiniteSet(q.approvals \cup {caller})
    BY <2>2, FS_AddElement DEF QuorumInv
  <2>7. /\ new.approvals = q.approvals \cup {caller}
        /\ new.weights = q.weights /\ new.threshold = q.threshold
        /\ new.accumulated_weight = weight
    BY <2>2 DEF QuorumOK
  <2>8. jobs'[id].status = "Completed" <=> weight >= q.threshold
    BY <1>6, <2>1
  <2>9. QuorumInv(jobs'[id], new)
    BY <2>2, <2>5, <2>6, <2>7, <2>8 DEF QuorumInv
  <2>10. /\ DOMAIN quorums' = DOMAIN quorums
         /\ quorums'[id] = new
         /\ \A k \in DOMAIN quorums \ {id} : quorums'[k] = quorums[k]
    BY <2>1
  <2>11. \A k \in JobIds \ {id} : jobs'[k].status = jobs[k].status
    BY <1>6, <2>1
  <2> HIDE DEF new, weight
  <2>12. \A k \in DOMAIN quorums' : QuorumInv(jobs'[k], quorums'[k])
    <3>1. \A k \in DOMAIN quorums \ {id} : QuorumInv(jobs'[k], quorums'[k])
      BY <1>1, <2>10, <2>11 DEF QuorumsInv, QuorumInv
    <3> QED
      BY <2>9, <2>10, <3>1
  <2> QED
    BY <2>12 DEF QuorumsInv, QuorumInv
<1> QED
  BY <1>4, <1>7, <1>8, <1>9, <1>10, <1>11 DEF JobStep

(***************************************************************************)
(* A milestone job has no quorum.                                          *)
(***************************************************************************)
LEMMA MilestonesKeepQuorumsInv ==
    ASSUME IInv, QuorumsInv, MilestoneNext
    PROVE  QuorumsInv'
<1>1. /\ DOMAIN quorums \subseteq JobIds
      /\ DOMAIN milestones \cap DOMAIN quorums = {}
  BY DEF IInv, TypeOK, QuorumsOK, MilestonesOK
<1>2. CASE CreateMilestones
  <2>1. UNCHANGED quorums /\ \A k \in JobIds : jobs'[k] = jobs[k]
    BY <1>2, CreateMilestonesCreates DEF Created
  <2> QED
    BY <1>1, <2>1 DEF QuorumsInv, QuorumInv
<1>3. ASSUME NEW caller \in Addr, NEW id \in DOMAIN milestones,
             MilestoneStep(caller, id)
      PROVE  QuorumsInv'
  <2>1. UNCHANGED quorums
    BY <1>3 DEF MilestoneStep, submit_milestone, approve_milestone,
                cancel_uncompleted_milestones
  <2>2. \A k \in JobIds \ {id} : jobs'[k] = jobs[k]
    BY <1>3, MilestoneStepClass DEF Released, Refunded, OnlyJob
  <2> QED
    BY <1>1, <2>1, <2>2 DEF QuorumsInv, QuorumInv
<1> QED
  BY <1>2, <1>3 DEF MilestoneNext

LEMMA NextKeepsQuorumsInv == IInv /\ QuorumsInv /\ [Next]_vars => QuorumsInv'
<1> SUFFICES ASSUME IInv, QuorumsInv, [Next]_vars PROVE QuorumsInv'
  OBVIOUS
<1>1. CASE UNCHANGED jobVars
  BY <1>1 DEF jobVars, QuorumsInv, QuorumInv
<1>2. CASE JobNext
  BY <1>2, CreateKeepsQuorumsInv, JobStepKeepsQuorumsInv DEF JobNext
<1>3. CASE MilestoneNext
  BY <1>3, MilestonesKeepQuorumsInv
<1> QED
  BY <1>1, <1>2, <1>3 DEF Next, vars

LEMMA QuorumsInvariant == Spec => []QuorumsInv
<1>1. Init => QuorumsInv
  BY DEF Init, JobInit, QuorumsInv
<1> QED
  BY <1>1, Invariant, NextKeepsQuorumsInv, PTL DEF Spec

(***************************************************************************)
(* An evaluator's weight is never counted twice, whoever approves in which *)
(* order and however often.                                                *)
(***************************************************************************)
THEOREM EachIsCountedOnce == Spec => []EachCountedOnce
<1>1. QuorumsInv => EachCountedOnce
  BY DEF QuorumsInv, QuorumInv, EachCountedOnce
<1> QED
  BY <1>1, QuorumsInvariant, PTL

(***************************************************************************)
(* A multi-evaluator job is completed by its quorum and in no other way:   *)
(* the entry point of the primary evaluator can never be used, because the *)
(* approval that reaches the threshold has settled the job already.        *)
(***************************************************************************)
THEOREM OnlyQuorumDecides == Spec => []QuorumDecides
<1>1. QuorumsInv => QuorumDecides
  BY DEF QuorumsInv, QuorumInv, QuorumDecides
<1> QED
  BY <1>1, QuorumsInvariant, PTL

----------------------------------------------------------------------------
(* Payment channels. *)

Session == [deposit : Nat, amount : Nat, nonce : Nat]

\* The amount on record of an open channel is one the payer signed for it, or
\* nothing yet; the payer's session has the deposit of the channel; and no channel
\* is both open and settled.
ChannelsInv ==
    /\ DOMAIN settled \subseteq 1..opened
    /\ sessions \in [1..opened -> Session]
    /\ \A id \in DOMAIN channels : sessions[id].deposit = channels[id].deposit
    /\ DOMAIN settled \cap DOMAIN channels = {}
    /\ \A id \in DOMAIN channels :
          \/ channels[id].amount = 0
          \/ \E v \in vouchers : v.channel_id = id /\ v.amount = channels[id].amount
    /\ SettledBySignature

(***************************************************************************)
(* Signing a voucher leaves the deposit a session keeps as it is.          *)
(***************************************************************************)
LEMMA SignKeepsDeposits ==
    ASSUME sessions \in [1..opened -> Session], NEW id \in DOMAIN sessions, SignVoucher(id)
    PROVE  /\ sessions' \in [1..opened -> Session]
           /\ \A c \in DOMAIN sessions : sessions'[c].deposit = sessions[c].deposit
<1>1. ASSUME NEW payment \in Payments, createVoucher(id, payment)
      PROVE  /\ sessions' \in [1..opened -> Session]
             /\ \A c \in DOMAIN sessions : sessions'[c].deposit = sessions[c].deposit
  <2> DEFINE amount == sessions[id].amount + payment
             nonce == sessions[id].nonce + 1
             later == [sessions[id] EXCEPT !.amount = amount, !.nonce = nonce]
  <2>1. later \in Session /\ later.deposit = sessions[id].deposit
    <3>1. sessions[id] \in Session /\ payment \in Nat
      BY ChannelAssumption
    <3>2. amount \in Nat /\ nonce \in Nat
      BY <3>1 DEF Session
    <3> HIDE DEF amount, nonce
    <3> QED
      BY <3>1, <3>2 DEF Session
  <2>2. sessions' = [sessions EXCEPT ![id] = later]
    BY <1>1 DEF createVoucher
  <2> HIDE DEF later
  <2> QED
    BY <2>1, <2>2
<1>2. CASE UNCHANGED sessions
  BY <1>2
<1> QED
  BY <1>1, <1>2 DEF SignVoucher, createChannelVoucher

(***************************************************************************)
(* A channel goes from open to settled once, at the amount on record.      *)
(***************************************************************************)
LEMMA ChannelNextKeepsChannelsInv ==
    ASSUME IInv, ChannelsInv, ChannelNext
    PROVE  ChannelsInv'
<1>1. opened \in Nat /\ DOMAIN channels \subseteq 1..opened
  BY DEF IInv, TypeOK, ChannelsOK
<1> USE DEF ChannelsInv, SettledBySignature
<1>2. ASSUME NEW payer, NEW provider, NEW token, NEW deposit \in Deposits,
             open_channel(payer, provider, token, deposit)
      PROVE  ChannelsInv'
  <2> DEFINE id == opened + 1
  <2>1. id \notin DOMAIN channels /\ id \notin DOMAIN settled /\ opened' = id
        /\ 1..opened \subseteq 1..opened'
    BY <1>1, <1>2 DEF open_channel
  <2>2. /\ UNCHANGED <<vouchers, settled>>
        /\ DOMAIN channels' = DOMAIN channels \cup {id}
        /\ \A c \in DOMAIN channels : channels'[c] = channels[c]
        /\ channels'[id].amount = 0 /\ channels'[id].deposit = deposit
    BY <1>2, <2>1 DEF open_channel
  <2>3. /\ DOMAIN sessions = 1..opened /\ 1..opened' = 1..opened \cup {id}
        /\ id \notin 1..opened
        /\ sessions' = [c \in DOMAIN sessions \cup {id} |->
                          IF c \in DOMAIN sessions THEN sessions[c]
                          ELSE [deposit |-> deposit, amount |-> 0, nonce |-> 0]]
    BY <1>1, <1>2 DEF open_channel
  <2> DEFINE new == [deposit |-> deposit, amount |-> 0, nonce |-> 0]
  <2>9. new \in Session /\ new.deposit = deposit
    BY ChannelAssumption DEF Session
  <2> HIDE DEF id, new
  <2>4. /\ sessions'[id] = new
        /\ \A c \in 1..opened : sessions'[c] = sessions[c]
    BY <2>3 DEF new
  <2>5. sessions' \in [1..opened' -> Session]
    <3>1. sessions' = [c \in 1..opened' |-> sessions'[c]]
      BY <2>3
    <3>2. \A c \in 1..opened' : sessions'[c] \in Session
      BY <2>3, <2>4, <2>9
    <3> QED
      BY <3>1, <3>2
  <2>6. /\ DOMAIN settled' \subseteq 1..opened'
        /\ DOMAIN settled' \cap DOMAIN channels' = {}
        /\ \A c \in DOMAIN channels' :
              \/ channels'[c].amount = 0
              \/ \E v \in vouchers' : v.channel_id = c /\ v.amount = channels'[c].amount
    BY <2>1, <2>2
  <2>7. \A c \in DOMAIN channels' : sessions'[c].deposit = channels'[c].deposit
    BY <1>1, <2>2, <2>4, <2>9
  <2>8. SettledBySignature'
    BY <2>2, <2>4
  <2> QED
    BY <2>5, <2>6, <2>7, <2>8
<1>3. ASSUME NEW id \in DOMAIN sessions, SignVoucher(id)
      PROVE  ChannelsInv'
  <2>1. UNCHANGED <<channels, opened, settled>> /\ vouchers \subseteq vouchers'
    BY <1>3 DEF SignVoucher, createVoucher, createChannelVoucher
  <2>2. /\ sessions' \in [1..opened -> Session]
        /\ \A c \in DOMAIN sessions : sessions'[c].deposit = sessions[c].deposit
    BY <1>3, SignKeepsDeposits
  <2> QED
    BY <1>1, <2>1, <2>2
<1>4. ASSUME NEW caller, NEW id \in DOMAIN channels, NEW voucher,
             close_channel(caller, id, voucher)
      PROVE  ChannelsInv'
  <2>1. /\ UNCHANGED <<opened, sessions, vouchers, settled>>
        /\ voucher \in vouchers /\ voucher.channel_id = id
        /\ DOMAIN channels' = DOMAIN channels
        /\ \A c \in DOMAIN channels \ {id} : channels'[c] = channels[c]
    BY <1>4 DEF close_channel, verify_voucher
  <2>2. channels[id] \in Channel
    BY DEF IInv, TypeOK, ChannelsOK, ChannelOK
  <2>3. channels'[id].amount = voucher.amount /\ channels'[id].deposit = channels[id].deposit
    BY <1>4, <2>2 DEF close_channel, Channel
  <2>4. \A c \in DOMAIN channels' : sessions'[c].deposit = channels'[c].deposit
    BY <2>1, <2>3
  <2>5. \A c \in DOMAIN channels' :
           \/ channels'[c].amount = 0
           \/ \E v \in vouchers' : v.channel_id = c /\ v.amount = channels'[c].amount
    BY <2>1, <2>3
  <2>6. SettledBySignature'
    BY <2>1
  <2> QED
    BY <2>1, <2>4, <2>5, <2>6
<1>5. ASSUME NEW caller, NEW id \in DOMAIN channels, force_close(caller, id)
      PROVE  ChannelsInv'
  <2>1. /\ UNCHANGED <<opened, sessions, vouchers>>
        /\ DOMAIN channels' = DOMAIN channels \ {id}
        /\ \A c \in DOMAIN channels' : channels'[c] = channels[c]
        /\ DOMAIN settled' = DOMAIN settled \cup {id}
        /\ \A c \in DOMAIN settled : settled'[c] = settled[c]
        /\ settled'[id].provider = channels[id].amount
        /\ settled'[id].payer = channels[id].deposit - channels[id].amount
    BY <1>5 DEF force_close
  <2>2. /\ channels[id].deposit \in Nat /\ channels[id].amount \in Nat
        /\ channels[id].amount <= channels[id].deposit
    BY <1>5 DEF IInv, TypeOK, ChannelsOK, ChannelOK, Channel
  <2>3. /\ settled'[id].payer >= 0
        /\ settled'[id].provider + settled'[id].payer = sessions'[id].deposit
    BY <2>1, <2>2
  <2>4. \/ settled'[id].provider = 0
        \/ \E v \in vouchers' : v.channel_id = id /\ v.amount = settled'[id].provider
    BY <2>1
  <2>5. SettledBySignature'
    BY <2>1, <2>3, <2>4
  <2>6. DOMAIN settled' \subseteq 1..opened' /\ DOMAIN settled' \cap DOMAIN channels' = {}
    BY <1>1, <2>1
  <2>7. \A c \in DOMAIN channels' :
           /\ sessions'[c].deposit = channels'[c].deposit
           /\ \/ channels'[c].amount = 0
              \/ \E v \in vouchers' : v.channel_id = c /\ v.amount = channels'[c].amount
    BY <2>1
  <2> QED
    BY <2>1, <2>5, <2>6, <2>7
<1> QED
  BY <1>2, <1>3, <1>4, <1>5 DEF ChannelNext, ChannelStep

LEMMA ChannelsInvariant == Spec => []ChannelsInv
<1>1. Init => ChannelsInv
  BY DEF Init, ChannelInit, ChannelsInv, SettledBySignature
<1>2. IInv /\ ChannelsInv /\ [Next]_vars => ChannelsInv'
  <2> SUFFICES ASSUME IInv, ChannelsInv, [Next]_vars PROVE ChannelsInv'
    OBVIOUS
  <2>1. CASE UNCHANGED channelVars
    BY <2>1 DEF channelVars, ChannelsInv, SettledBySignature
  <2>2. CASE ChannelNext
    BY <2>2, ChannelNextKeepsChannelsInv
  <2> QED
    BY <2>1, <2>2 DEF Next, vars
<1> QED
  BY <1>1, <1>2, Invariant, PTL DEF Spec

(***************************************************************************)
(* No provider is paid out of a channel what its payer has not signed, and *)
(* the payer gets the rest of the deposit.                                 *)
(***************************************************************************)
THEOREM NoPaymentUnsigned == Spec => []SettledBySignature
<1>1. ChannelsInv => SettledBySignature
  BY DEF ChannelsInv
<1> QED
  BY <1>1, ChannelsInvariant, PTL

(***************************************************************************)
(* The challenge window, once begun, is neither moved nor cut short, and   *)
(* what the provider gets only grows in it: every step of the contract     *)
(* leaves a channel with a voucher on record as it is, replaces the        *)
(* voucher by one of no less, or settles it after the window.              *)
(***************************************************************************)
THEOREM WindowHolds == Spec => WindowIsHonoured
<1> DEFINE Honoured == \A id \in DOMAIN channels :
              channels[id].closing_at # 0 =>
                 IF id \in DOMAIN channels'
                 THEN /\ channels'[id].closing_at = channels[id].closing_at
                      /\ channels'[id].amount >= channels[id].amount
                 ELSE /\ now >= channels[id].closing_at
                      /\ settled'[id].provider = channels[id].amount
<1>1. ASSUME IInv, ChannelsInv, [Next]_vars
      PROVE  Honoured
  <2> SUFFICES ASSUME NEW id \in DOMAIN channels, channels[id].closing_at # 0
               PROVE  IF id \in DOMAIN channels'
                      THEN /\ channels'[id].closing_at = channels[id].closing_at
                           /\ channels'[id].amount >= channels[id].amount
                      ELSE /\ now >= channels[id].closing_at
                           /\ settled'[id].provider = channels[id].amount
    OBVIOUS
  <2>1. /\ channels[id] \in Channel /\ channels[id].amount \in Nat
        /\ opened \in Nat /\ id \in 1..opened /\ id \notin DOMAIN settled
    BY <1>1 DEF IInv, TypeOK, ChannelsOK, ChannelOK, Channel, ChannelsInv
  <2>2. CASE id \in DOMAIN channels' /\ channels'[id] = channels[id]
    BY <2>1, <2>2
  <2>3. ASSUME NEW payer, NEW provider, NEW token, NEW deposit,
               open_channel(payer, provider, token, deposit)
        PROVE  id \in DOMAIN channels' /\ channels'[id] = channels[id]
    BY <2>3 DEF open_channel
  <2>4. ASSUME NEW c, SignVoucher(c)
        PROVE  UNCHANGED channels
    BY <2>4 DEF SignVoucher, createVoucher, createChannelVoucher
  <2>5. ASSUME NEW caller, NEW c \in DOMAIN channels, c # id,
               ChannelStep(caller, c)
        PROVE  id \in DOMAIN channels' /\ channels'[id] = channels[id]
    BY <2>5 DEF ChannelStep, close_channel, force_close
  <2>6. ASSUME NEW caller, NEW voucher, close_channel(caller, id, voucher)
        PROVE  /\ id \in DOMAIN channels'
               /\ channels'[id].closing_at = channels[id].closing_at
               /\ channels'[id].amount >= channels[id].amount
    BY <2>1, <2>6 DEF close_channel, Newer, Channel
  <2>7. ASSUME NEW caller, force_close(caller, id)
        PROVE  /\ id \notin DOMAIN channels'
               /\ now >= channels[id].closing_at
               /\ settled'[id].provider = channels[id].amount
    BY <2>1, <2>7 DEF force_close, ChallengeUntil
  <2>8. CASE UNCHANGED channels
    BY <2>2, <2>8
  <2>9. CASE ChannelNext
    BY <2>2, <2>3, <2>4, <2>5, <2>6, <2>7, <2>8, <2>9 DEF ChannelNext, ChannelStep
  <2> QED
    BY <1>1, <2>8, <2>9 DEF Next, vars, channelVars
<1>2. IInv /\ ChannelsInv /\ [Next]_vars => [Honoured]_vars
  BY <1>1
<1> QED
  BY <1>2, Invariant, ChannelsInvariant, PTL DEF Spec, WindowIsHonoured

\* A session has signed the vouchers of its channel and no others, with amount
\* and nonce growing together, and a channel has one of them on record, or none.
SessionsInv ==
    /\ DOMAIN sessions \subseteq 1..opened
    /\ \A id \in DOMAIN sessions :
          sessions[id] \in Session
    /\ \A v \in vouchers :
          /\ v \in [channel_id : DOMAIN sessions, amount : Nat, nonce : Nat \ {0}]
          /\ v.amount <= sessions[v.channel_id].amount
          /\ v.nonce <= sessions[v.channel_id].nonce
    /\ \A v, w \in vouchers :
          v.channel_id = w.channel_id /\ v.amount < w.amount => v.nonce < w.nonce
    /\ \A id \in DOMAIN channels :
          \/ channels[id].amount = 0 /\ channels[id].nonce = 0
          \/ Voucher(id, channels[id].amount, channels[id].nonce) \in vouchers

(***************************************************************************)
(* The payer's SDK session counts amount and nonce up together.            *)
(***************************************************************************)
LEMMA SignKeepsSessionsInv ==
    ASSUME IInv, SessionsInv, NEW id \in DOMAIN sessions, NEW payment \in Payments,
           createVoucher(id, payment)
    PROVE  SessionsInv'
<1> DEFINE amount == sessions[id].amount + payment
           nonce  == sessions[id].nonce + 1
           new    == Voucher(id, amount, nonce)
           later  == [sessions[id] EXCEPT !.amount = amount, !.nonce = nonce]
<1>1. /\ sessions[id] \in Session
      /\ payment \in Nat \ {0}
  BY ChannelAssumption DEF SessionsInv
<1>2. /\ amount \in Nat /\ nonce \in Nat \ {0}
      /\ amount > sessions[id].amount /\ nonce > sessions[id].nonce
  BY <1>1 DEF Session
<1>3. /\ later \in Session
      /\ later.amount = amount /\ later.nonce = nonce
  BY <1>1, <1>2 DEF Session
<1>4. /\ UNCHANGED <<channels, opened>>
      /\ vouchers' = vouchers \cup {new}
      /\ sessions' = [sessions EXCEPT ![id] = later]
  BY DEF createVoucher
<1>5. new.channel_id = id /\ new.amount = amount /\ new.nonce = nonce
  BY DEF Voucher
<1>6. new \in [channel_id : DOMAIN sessions, amount : Nat, nonce : Nat \ {0}]
  BY <1>2 DEF Voucher
<1> HIDE DEF amount, nonce, new, later
<1>7. \A v \in vouchers :
         /\ v \in [channel_id : DOMAIN sessions, amount : Nat, nonce : Nat \ {0}]
         /\ v.amount <= sessions[v.channel_id].amount
         /\ v.nonce <= sessions[v.channel_id].nonce
         /\ v.amount \in Nat /\ v.nonce \in Nat
  BY DEF SessionsInv
<1>8. \A v \in vouchers : v.channel_id = id =>
         v.amount < new.amount /\ v.nonce < new.nonce
  BY <1>1, <1>2, <1>5, <1>7 DEF Session
<1>9. /\ DOMAIN sessions' = DOMAIN sessions
      /\ \A k \in DOMAIN sessions \ {id} : sessions'[k] = sessions[k]
      /\ sessions'[id] = later
  BY <1>4
<1>10. DOMAIN sessions' \subseteq 1..opened'
       /\ \A k \in DOMAIN sessions' :
             sessions'[k] \in Session
  BY <1>3, <1>4, <1>9 DEF SessionsInv
<1>11. \A v \in vouchers' :
          /\ v \in [channel_id : DOMAIN sessions', amount : Nat, nonce : Nat \ {0}]
          /\ v.amount <= sessions'[v.channel_id].amount
          /\ v.nonce <= sessions'[v.channel_id].nonce
  <2>1. ASSUME NEW v \in vouchers
        PROVE  /\ v \in [channel_id : DOMAIN sessions', amount : Nat, nonce : Nat \ {0}]
               /\ v.amount <= sessions'[v.channel_id].amount
               /\ v.nonce <= sessions'[v.channel_id].nonce
    <3>1. CASE v.channel_id = id
      <4>1. sessions'[v.channel_id].amount = amount
            /\ sessions'[v.channel_id].nonce = nonce
        BY <1>3, <1>9, <3>1
      <4>2. v.amount < amount /\ v.nonce < nonce /\ v.amount \in Nat /\ v.nonce \in Nat
        BY <1>5, <1>7, <1>8, <3>1
      <4>3. v.amount <= amount /\ v.nonce <= nonce
        BY <1>2, <4>2
      <4> QED
        BY <1>7, <1>9, <4>1, <4>3
    <3>2. CASE v.channel_id # id
      BY <1>7, <1>9, <3>2
    <3> QED
      BY <3>1, <3>2
  <2>2. /\ new \in [channel_id : DOMAIN sessions', amount : Nat, nonce : Nat \ {0}]
        /\ new.amount <= sessions'[new.channel_id].amount
        /\ new.nonce <= sessions'[new.channel_id].nonce
    <3>1. sessions'[new.channel_id].amount = new.amount
          /\ sessions'[new.channel_id].nonce = new.nonce
      BY <1>3, <1>5, <1>9
    <3>2. amount <= amount /\ nonce <= nonce
      BY <1>2
    <3> QED
      BY <1>5, <1>6, <1>9, <3>1, <3>2
  <2> QED
    BY <1>4, <2>1, <2>2
<1>12. \A v, w \in vouchers' :
          v.channel_id = w.channel_id /\ v.amount < w.amount => v.nonce < w.nonce
  <2> SUFFICES ASSUME NEW v \in vouchers', NEW w \in vouchers',
                      v.channel_id = w.channel_id, v.amount < w.amount
               PROVE  v.nonce < w.nonce
    OBVIOUS
  <2>1. CASE v \in vouchers /\ w \in vouchers
    BY <2>1 DEF SessionsInv
  <2>2. CASE v \in vouchers /\ w = new
    BY <1>5, <1>8, <2>2
  <2>3. CASE v = new
    <3>1. ~(new.amount < new.amount)
      BY <1>2, <1>5
    <3>2. \A u \in vouchers : u.channel_id = id => ~(new.amount < u.amount)
      BY <1>2, <1>5, <1>7, <1>8
    <3> QED
      BY <1>4, <1>5, <2>3, <3>1, <3>2
  <2> QED
    BY <1>4, <2>1, <2>2, <2>3
<1>13. \A k \in DOMAIN channels' :
          \/ channels'[k].amount = 0 /\ channels'[k].nonce = 0
          \/ Voucher(k, channels'[k].amount, channels'[k].nonce) \in vouchers'
  BY <1>4 DEF SessionsInv
<1> QED
  BY <1>10, <1>11, <1>12, <1>13 DEF SessionsInv, Voucher

(***************************************************************************)
(* So the vouchers of a payer who only signs through its session order     *)
(* nonces as they order amounts, on record or not.                         *)
(***************************************************************************)
LEMMA ChannelNextKeepsSessionsInv ==
    ASSUME IInv, SessionsInv, ForeignVouchers = {}, ChannelNext
    PROVE  SessionsInv'
<1>1. opened \in Nat /\ DOMAIN channels \subseteq 1..opened
  BY DEF IInv, TypeOK, ChannelsOK
<1>2. ASSUME NEW payer \in Payers, NEW provider \in Payees, NEW token \in Tokens,
             NEW deposit \in Deposits, open_channel(payer, provider, token, deposit)
      PROVE  SessionsInv'
  <2> DEFINE id  == opened + 1
             new == [deposit |-> deposit, amount |-> 0, nonce |-> 0]
  <2>1. id \notin DOMAIN channels /\ id \notin DOMAIN sessions
    BY <1>1 DEF SessionsInv
  <2>2. /\ opened' = id /\ UNCHANGED vouchers
        /\ DOMAIN channels' = DOMAIN channels \cup {id}
        /\ \A c \in DOMAIN channels : channels'[c] = channels[c]
        /\ channels'[id].amount = 0 /\ channels'[id].nonce = 0
        /\ DOMAIN sessions' = DOMAIN sessions \cup {id}
        /\ \A c \in DOMAIN sessions : sessions'[c] = sessions[c]
        /\ sessions'[id] = new
    BY <1>2, <2>1 DEF open_channel
  <2>3. new \in Session
    BY ChannelAssumption DEF Session
  <2>4. DOMAIN sessions' \subseteq 1..opened'
    BY <1>1, <2>2 DEF SessionsInv
  <2> HIDE DEF id, new
  <2>5. \A c \in DOMAIN sessions' :
           sessions'[c] \in Session
    BY <2>2, <2>3 DEF SessionsInv
  <2>6. \A v \in vouchers' :
           /\ v \in [channel_id : DOMAIN sessions', amount : Nat, nonce : Nat \ {0}]
           /\ v.amount <= sessions'[v.channel_id].amount
           /\ v.nonce <= sessions'[v.channel_id].nonce
    BY <2>2 DEF SessionsInv
  <2>7. \A c \in DOMAIN channels' :
           \/ channels'[c].amount = 0 /\ channels'[c].nonce = 0
           \/ Voucher(c, channels'[c].amount, channels'[c].nonce) \in vouchers'
    BY <2>2 DEF SessionsInv
  <2> QED
    BY <2>2, <2>4, <2>5, <2>6, <2>7 DEF SessionsInv, Voucher
<1>3. ASSUME NEW id \in DOMAIN sessions, SignVoucher(id)
      PROVE  SessionsInv'
  BY <1>3, SignKeepsSessionsInv DEF SignVoucher
<1>4. ASSUME NEW caller, NEW id \in DOMAIN channels, NEW c, NEW a, NEW n,
             close_channel(caller, id, Voucher(c, a, n))
      PROVE  SessionsInv'
  <2>1. /\ UNCHANGED <<opened, sessions, vouchers>>
        /\ Voucher(c, a, n) \in vouchers /\ c = id
        /\ DOMAIN channels' = DOMAIN channels
        /\ \A k \in DOMAIN channels \ {id} : channels'[k] = channels[k]
    BY <1>4 DEF close_channel, verify_voucher, Voucher
  <2>2. channels'[id].amount = a /\ channels'[id].nonce = n
    BY <1>4 DEF close_channel, Voucher, IInv, TypeOK, ChannelsOK, ChannelOK, Channel
  <2>3. \A k \in DOMAIN channels' :
           \/ channels'[k].amount = 0 /\ channels'[k].nonce = 0
           \/ Voucher(k, channels'[k].amount, channels'[k].nonce) \in vouchers'
    BY <2>1, <2>2 DEF SessionsInv
  <2> QED
    BY <2>1, <2>3 DEF SessionsInv, Voucher
<1>5. ASSUME NEW caller, NEW id \in DOMAIN channels, force_close(caller, id)
      PROVE  SessionsInv'
  <2>1. /\ UNCHANGED <<opened, sessions, vouchers>>
        /\ DOMAIN channels' = DOMAIN channels \ {id}
        /\ \A c \in DOMAIN channels' : channels'[c] = channels[c]
    BY <1>5 DEF force_close
  <2> QED
    BY <2>1 DEF SessionsInv, Voucher
<1> QED
  BY <1>2, <1>3, <1>4, <1>5 DEF ChannelNext, ChannelStep

LEMMA SessionsInvariant ==
    ASSUME ForeignVouchers = {}
    PROVE  Spec => []SessionsInv
<1>1. Init => SessionsInv
  BY DEF Init, ChannelInit, SessionsInv
<1>2. IInv /\ SessionsInv /\ [Next]_vars => SessionsInv'
  <2> SUFFICES ASSUME IInv, SessionsInv, [Next]_vars PROVE SessionsInv'
    OBVIOUS
  <2>1. CASE UNCHANGED channelVars
    BY <2>1 DEF channelVars, SessionsInv, Voucher
  <2>2. CASE ChannelNext
    BY <2>2, ChannelNextKeepsSessionsInv
  <2> QED
    BY <2>1, <2>2 DEF Next, vars
<1> QED
  BY <1>1, <1>2, Invariant, PTL DEF Spec

(***************************************************************************)
(* A payer who signs only through the SDK's sessions never leaves its      *)
(* provider with a voucher worth more than the one on record that the      *)
(* contract would refuse inside the challenge window.  (A payer who signs  *)
(* with createChannelVoucher alone may: it chooses the nonce itself.)      *)
(***************************************************************************)
THEOREM HigherVoucherIsAccepted ==
    ASSUME ForeignVouchers = {}
    PROVE  Spec => []HigherVoucherAccepted
<1>1. ASSUME IInv, SessionsInv
      PROVE  HigherVoucherAccepted
  <2> SUFFICES ASSUME NEW v \in vouchers, v.channel_id \in DOMAIN channels,
                      channels[v.channel_id].amount < v.amount
               PROVE  Newer(v, channels[v.channel_id])
    BY DEF HigherVoucherAccepted
  <2> DEFINE ch == channels[v.channel_id]
             on == Voucher(v.channel_id, ch.amount, ch.nonce)
  <2>1. ch.amount \in Nat /\ ch.nonce \in Nat /\ ch.amount < v.amount
    BY <1>1 DEF IInv, TypeOK, ChannelsOK, ChannelOK, Channel
  <2>2. v.amount \in Nat /\ v.nonce \in Nat \ {0}
    BY <1>1 DEF SessionsInv
  <2>3. CASE ch.nonce = 0
    BY <2>1, <2>2, <2>3 DEF Newer
  <2>4. CASE on \in vouchers
    <3>1. on.channel_id = v.channel_id /\ on.amount = ch.amount /\ on.nonce = ch.nonce
      BY DEF Voucher
    <3>2. ch.nonce < v.nonce
      BY <1>1, <2>1, <2>4, <3>1 DEF SessionsInv
    <3> QED
      BY <2>1, <2>2, <3>2 DEF Newer
  <2> QED
    BY <1>1, <2>3, <2>4 DEF SessionsInv
<1> QED
  BY <1>1, Invariant, SessionsInvariant, PTL

----------------------------------------------------------------------------
(* The balance. *)

\* What a job may still get out of the escrow: its budget less what has been
\* transferred out on its behalf, whatever its record says was released.
Owed == [id \in JobIds |-> jobs[id].budget - Disbursed(id)]

\* Solvent, with what was transferred in the place of what was recorded.
Conserved ==
    /\ held \in [Tokens -> Int]
    /\ \A t \in Tokens :
          held[t] = SumFunctionOnSet(Owed, JobsIn(t))
                    + SumFunctionOnSet(OpenDeposits, ChannelsIn(t))

(***************************************************************************)
(* There are finitely many jobs and channels.                              *)
(***************************************************************************)
LEMMA FiniteJobs ==
    ASSUME NEW S, NEW s \in Seq(S), NEW T \in SUBSET DOMAIN s
    PROVE  IsFiniteSet(T)
<1>1. DOMAIN s = 1..Len(s) /\ Len(s) \in Nat
  BY LenProperties
<1>2. IsFiniteSet(1..Len(s))
  BY <1>1, FS_Interval
<1> QED
  BY <1>1, <1>2, FS_Subset

LEMMA FiniteUpTo ==
    ASSUME NEW n \in Nat, NEW T \in SUBSET (1..n)
    PROVE  IsFiniteSet(T)
<1>1. IsFiniteSet(1..n)
  BY FS_Interval
<1> QED
  BY <1>1, FS_Subset

(***************************************************************************)
(* The amounts summed up are integers.                                     *)
(***************************************************************************)
LEMMA OwedIsInt ==
    /\ JobsOK /\ PaidOK => \A id \in JobIds : Owed[id] \in Int
    /\ JobsOK' /\ PaidOK' => \A id \in JobIds' : Owed'[id] \in Int
<1>1. ASSUME NEW js \in Seq(Job), NEW ps \in Seq(Payment), Len(ps) = Len(js),
             NEW id \in DOMAIN js
      PROVE  js[id].budget - (ps[id].client + ps[id].provider + ps[id].treasury)
                \in Int
  <2>1. js[id] \in Job /\ ps[id] \in Payment
    BY <1>1, ElementOfSeq, LenProperties
  <2>2. PICK job \in Job, pay \in Payment : job = js[id] /\ pay = ps[id]
    BY <2>1
  <2>3. /\ job.budget \in Int /\ pay.client \in Int
        /\ pay.provider \in Int /\ pay.treasury \in Int
    BY DEF Job, Payment
  <2>4. job.budget - (pay.client + pay.provider + pay.treasury) \in Int
    BY <2>3
  <2> QED
    BY <2>2, <2>4
<1>2. JobsOK /\ PaidOK => \A id \in JobIds : Owed[id] \in Int
  BY <1>1 DEF JobsOK, PaidOK, JobIds, Owed, Disbursed
<1>3. JobsOK' /\ PaidOK' => \A id \in JobIds' : Owed'[id] \in Int
  BY <1>1 DEF JobsOK, PaidOK, JobIds, Owed, Disbursed
<1> QED
  BY <1>2, <1>3

LEMMA DepositsAreInt ==
    ASSUME IInv, NEW t
    PROVE  /\ IsFiniteSet(ChannelsIn(t))
           /\ \A c \in DOMAIN channels : OpenDeposits[c] \in Int
           /\ SumFunctionOnSet(OpenDeposits, ChannelsIn(t)) \in Int
<1>1. \A c \in DOMAIN channels : OpenDeposits[c] \in Int
  BY DEF IInv, TypeOK, ChannelsOK, ChannelOK, Channel, OpenDeposits
<1>2. IsFiniteSet(ChannelsIn(t)) /\ ChannelsIn(t) \subseteq DOMAIN channels
  BY FiniteUpTo DEF IInv, TypeOK, ChannelsOK, ChannelsIn
<1> QED
  BY <1>1, <1>2, SumInt

(***************************************************************************)
(* A step that moves no tokens, and changes no budget or deposit.          *)
(***************************************************************************)
LEMMA NothingMoves ==
    ASSUME IInv, Conserved, UNCHANGED <<held, paid>>, JobIds' = JobIds,
           \A id \in JobIds : /\ jobs'[id].budget = jobs[id].budget
                              /\ jobs'[id].token = jobs[id].token,
           DOMAIN channels' = DOMAIN channels,
           \A c \in DOMAIN channels : /\ channels'[c].deposit = channels[c].deposit
                                      /\ channels'[c].token = channels[c].token
    PROVE  Conserved'
<1>1. \A id \in JobIds : jobs'[id].budget - Disbursed(id)' = Owed[id]
  BY DEF Owed, Disbursed
<1>2. Owed' = Owed
  BY <1>1 DEF Owed
<1>3. OpenDeposits' = OpenDeposits
  BY DEF OpenDeposits
<1>4. \A t : JobsIn(t)' = JobsIn(t) /\ ChannelsIn(t)' = ChannelsIn(t)
  BY DEF JobsIn, ChannelsIn
<1> QED
  BY <1>2, <1>3, <1>4 DEF Conserved

(***************************************************************************)
(* What is disbursed for a job is taken from the balance of its token and  *)
(* from what that job is owed.                                             *)
(***************************************************************************)
LEMMA DisburseConserves ==
    ASSUME IInv, Conserved, NEW id \in JobIds, NEW job \in Job,
           job.budget = jobs[id].budget, job.token = jobs[id].token,
           jobs' = [jobs EXCEPT ![id] = job],
           NEW client \in Int, NEW provider \in Int, NEW treasury \in Int,
           Disburse(id, client, provider, treasury), UNCHANGED channels
    PROVE  Conserved'
<1> DEFINE total == client + provider + treasury
           tok   == jobs[id].token
<1>1. jobs \in Seq(Job) /\ paid \in Seq(Payment) /\ Len(paid) = Len(jobs)
  BY DEF IInv, TypeOK, JobsOK, PaidOK
<1>2. jobs[id] \in Job /\ paid[id] \in Payment /\ id \in DOMAIN paid /\ id \in DOMAIN jobs
  BY <1>1, ElementOfSeq, LenProperties DEF JobIds
<1>3. /\ JobIds' = JobIds
      /\ jobs'[id] = job /\ \A k \in JobIds \ {id} : jobs'[k] = jobs[k]
  BY <1>2 DEF JobIds
<1>4. /\ held[tok] \in Int /\ tok \in Tokens
      /\ held' = [held EXCEPT ![tok] = @ - total]
      /\ \A k \in JobIds \ {id} : paid'[k] = paid[k]
      /\ paid'[id] = [client   |-> paid[id].client + client,
                      provider |-> paid[id].provider + provider,
                      treasury |-> paid[id].treasury + treasury]
  BY <1>2 DEF Disburse, Withdraw, Conserved, Job
<1>5. /\ \A k \in JobIds \ {id} : Owed'[k] = Owed[k]
      /\ Owed'[id] = Owed[id] - total
      /\ Owed[id] \in Int /\ total \in Int
  <2>1. \A k \in JobIds \ {id} : Owed'[k] = Owed[k]
    BY <1>3, <1>4 DEF Owed, Disbursed
  <2>2. Disbursed(id)' = paid[id].client + client + (paid[id].provider + provider)
                         + (paid[id].treasury + treasury)
    BY <1>4 DEF Disbursed
  <2>3. /\ paid[id].client \in Int /\ paid[id].provider \in Int
        /\ paid[id].treasury \in Int /\ jobs[id].budget \in Int
    BY <1>2 DEF Payment, Job
  <2>4. /\ Owed[id] = jobs[id].budget - Disbursed(id)
        /\ Owed'[id] = jobs[id].budget - Disbursed(id)'
    BY <1>3 DEF Owed
  <2>5. Owed[id] \in Int /\ total \in Int
    BY <2>3, <2>4 DEF Disbursed
  <2>6. Owed'[id] = Owed[id] - total
    BY <2>2, <2>3, <2>4 DEF Disbursed
  <2> QED
    BY <2>1, <2>5, <2>6
<1> HIDE DEF total
<1>6. OpenDeposits' = OpenDeposits /\ \A t : ChannelsIn(t)' = ChannelsIn(t)
  BY DEF OpenDeposits, ChannelsIn
<1>7. \A t : JobsIn(t)' = JobsIn(t)
  BY <1>3 DEF JobsIn
<1>8. \A k \in JobIds : Owed[k] \in Int
  BY OwedIsInt DEF IInv, TypeOK
<1>9. held' \in [Tokens -> Int]
  BY <1>4, <1>5 DEF Conserved
<1>10. ASSUME NEW t \in Tokens
       PROVE  held'[t] = SumFunctionOnSet(Owed', JobsIn(t)')
                         + SumFunctionOnSet(OpenDeposits', ChannelsIn(t)')
  <2> DEFINE jobSum == SumFunctionOnSet(Owed, JobsIn(t))
             rest   == SumFunctionOnSet(OpenDeposits, ChannelsIn(t))
  <2>1. IsFiniteSet(JobsIn(t)) /\ JobsIn(t) \subseteq JobIds
    BY <1>1, FiniteJobs DEF JobsIn, JobIds
  <2>2. jobSum \in Int /\ held[t] = jobSum + rest /\ held[t] \in Int
    BY <1>8, <2>1, SumInt DEF Conserved
  <2>3. CASE t = tok
    <3>1. id \in JobsIn(t)
      BY <2>3 DEF JobsIn
    <3>2. SumFunctionOnSet(Owed', JobsIn(t)) = jobSum - Owed[id] + Owed'[id]
      BY <1>5, <1>8, <2>1, <3>1, SumChange
    <3>3. held'[t] = held[t] - total
      BY <1>4, <2>3 DEF Conserved
    <3>4. SumFunctionOnSet(Owed', JobsIn(t)) = jobSum - total
      BY <1>5, <2>2, <3>2
    <3>5. rest \in Int
      BY DepositsAreInt
    <3> HIDE DEF jobSum, rest
    <3>6. held'[t] = SumFunctionOnSet(Owed', JobsIn(t)) + rest
      BY <1>5, <2>2, <3>3, <3>4, <3>5
    <3> QED
      BY <1>6, <1>7, <3>6 DEF rest
  <2>4. CASE t # tok
    <3>1. id \notin JobsIn(t)
      BY <2>4 DEF JobsIn
    <3>2. SumFunctionOnSet(Owed', JobsIn(t)) = jobSum
      BY <1>5, <2>1, <3>1, SumCongruence
    <3>3. held'[t] = held[t]
      BY <1>4, <2>4 DEF Conserved
    <3> QED
      BY <1>6, <1>7, <2>2, <3>2, <3>3
  <2> QED
    BY <2>3, <2>4
<1> QED
  BY <1>9, <1>10 DEF Conserved

(***************************************************************************)
(* A new job's budget is deposited, and owed.                              *)
(***************************************************************************)
LEMMA StoreConserves ==
    ASSUME IInv, Conserved, NEW job \in Job, StoreJob(job),
           job.status = "Funded", job.released = 0,
           job.deliverable_hash = ZeroHash, UNCHANGED channels
    PROVE  Conserved'
<1>1. jobs \in Seq(Job) /\ JobsOK /\ PaidOK
  BY DEF IInv, TypeOK, JobsOK
<1> PICK new \in Nat : new = Len(jobs) + 1
  BY <1>1, LenProperties
<1>2. /\ Created /\ JobIds' = JobIds \cup {new} /\ new \notin JobIds
  BY <1>1, StoreCreates
<1>3. jobs'[new] = job
  BY <1>1, AppendProperties DEF StoreJob
<1>4. /\ \A k \in JobIds : jobs'[k] = jobs[k] /\ paid'[k] = paid[k]
      /\ paid'[new] = NoPayment
  BY <1>2 DEF Created
<1>5. job.token \in Tokens /\ job.budget \in Int
  BY DEF Job
<1>6. /\ \A k \in JobIds : Owed'[k] = Owed[k] /\ Owed[k] \in Int
      /\ Owed'[new] = job.budget
  <2>1. \A k \in JobIds : Owed[k] \in Int
    BY <1>1, OwedIsInt
  <2>2. \A k \in JobIds : Owed'[k] = Owed[k]
    BY <1>2, <1>4 DEF Owed, Disbursed
  <2>3. Disbursed(new)' = 0
    BY <1>4 DEF Disbursed, NoPayment
  <2>4. Owed'[new] = job.budget - Disbursed(new)'
    BY <1>2, <1>3 DEF Owed
  <2> QED
    BY <1>5, <2>1, <2>2, <2>3, <2>4
<1>7. OpenDeposits' = OpenDeposits /\ \A t : ChannelsIn(t)' = ChannelsIn(t)
  BY DEF OpenDeposits, ChannelsIn
<1>8. \A t : JobsIn(t)' = IF t = job.token THEN JobsIn(t) \cup {new} ELSE JobsIn(t)
  BY <1>2, <1>3, <1>4 DEF JobsIn
<1>9. /\ held' \in [Tokens -> Int]
      /\ \A t \in Tokens : /\ held[t] \in Int
                           /\ held'[t] = IF t = job.token THEN held[t] + job.budget
                                                          ELSE held[t]
  BY <1>5 DEF StoreJob, Conserved
<1>10. ASSUME NEW t \in Tokens
       PROVE  held'[t] = SumFunctionOnSet(Owed', JobsIn(t)')
                         + SumFunctionOnSet(OpenDeposits', ChannelsIn(t)')
  <2> DEFINE jobSum == SumFunctionOnSet(Owed, JobsIn(t))
             rest   == SumFunctionOnSet(OpenDeposits, ChannelsIn(t))
  <2>1. /\ IsFiniteSet(JobsIn(t)) /\ JobsIn(t) \subseteq JobIds
        /\ new \notin JobsIn(t)
    BY <1>1, <1>2, FiniteJobs DEF JobsIn, JobIds
  <2>2. jobSum \in Int /\ held[t] = jobSum + rest
    BY <1>6, <2>1, SumInt DEF Conserved
  <2>3. SumFunctionOnSet(Owed', JobsIn(t)) = jobSum
    BY <1>6, <2>1, SumCongruence
  <2>4. rest \in Int
    BY DepositsAreInt
  <2>5. CASE t = job.token
    <3>1. SumFunctionOnSet(Owed', JobsIn(t) \cup {new}) = jobSum + job.budget
      BY <1>5, <1>6, <2>1, <2>3, SumAdd
    <3>2. held'[t] = held[t] + job.budget
      BY <1>9, <2>5
    <3> HIDE DEF jobSum, rest
    <3>3. held'[t] = (jobSum + job.budget) + rest
      BY <1>5, <2>2, <2>4, <3>2
    <3> QED
      BY <1>7, <1>8, <2>5, <3>1, <3>3 DEF rest
  <2>6. CASE t # job.token
    BY <1>7, <1>8, <1>9, <2>2, <2>3, <2>6
  <2> QED
    BY <2>5, <2>6
<1> QED
  BY <1>9, <1>10 DEF Conserved

(***************************************************************************)
(* A batch deposits, in each token, what its requests of that token ask    *)
(* for, and owes each of its jobs that job's budget.                       *)
(***************************************************************************)
LEMMA BatchConserves ==
    ASSUME IInv, Conserved, NEW client \in Clients, NEW reqs \in Batches,
           batch_create_jobs(client, reqs), UNCHANGED channels
    PROVE  Conserved'
<1>1. ConfigOK /\ JobsOK /\ PaidOK /\ jobs \in Seq(Job)
  BY DEF IInv, TypeOK, JobsOK
<1> PICK n \in Nat : n = Len(jobs)
  BY <1>1, LenProperties
<1> DEFINE asked  == [i \in DOMAIN reqs |-> reqs[i].budget]
           Of(t)  == {i \in DOMAIN reqs : reqs[i].token = t}
           New(t) == Shifted(Of(t), n)
<1>2. /\ Created
      /\ DOMAIN reqs = 1..Len(reqs) /\ Len(reqs) \in Nat
      /\ JobIds' = 1..(n + Len(reqs))
      /\ \A i \in DOMAIN reqs : jobs'[n + i] = NewJob(client, reqs[i], NoSla)
  BY <1>1, BatchCreates
<1>3. n \in Nat /\ JobIds = 1..n
  BY <1>1, LenProperties DEF JobIds
<1>4. /\ \A k \in JobIds : jobs'[k] = jobs[k] /\ paid'[k] = paid[k]
      /\ \A i \in DOMAIN reqs : n + i \in JobIds' \ JobIds /\ paid'[n + i] = NoPayment
  BY <1>2, <1>3 DEF Created
<1>5. \A i \in DOMAIN reqs : reqs[i].budget \in Int
  <2>1. reqs \in Seq([provider : Addr, evaluator : Addr,
                      token : Tokens, budget : Nat])
    BY JobAssumption
  <2>2. \A i \in DOMAIN reqs : reqs[i] \in [provider : Addr, evaluator : Addr,
                                            token : Tokens, budget : Nat]
    BY <1>2, <2>1, ElementOfSeq
  <2> QED
    BY <2>2
<1>6. \A i \in DOMAIN reqs : /\ jobs'[n + i].budget = reqs[i].budget
                             /\ jobs'[n + i].token = reqs[i].token
  <2>1. \A req : /\ NewJob(client, req, NoSla).budget = req.budget
                 /\ NewJob(client, req, NoSla).token = req.token
    BY DEF NewJob
  <2> QED
    BY <1>2, <2>1
<1>7. /\ \A k \in JobIds : Owed'[k] = Owed[k] /\ Owed[k] \in Int
      /\ \A i \in DOMAIN reqs : Owed'[n + i] = asked[i] /\ asked[i] \in Int
  <2>1. \A k \in JobIds : Owed[k] \in Int
    BY <1>1, OwedIsInt
  <2>2. \A k \in JobIds : Owed'[k] = Owed[k]
    BY <1>2, <1>4 DEF Owed, Disbursed, Created
  <2>3. \A i \in DOMAIN reqs : Disbursed(n + i)' = 0
    BY <1>4 DEF Disbursed, NoPayment
  <2>4. \A i \in DOMAIN reqs : Owed'[n + i] = reqs[i].budget - Disbursed(n + i)'
    BY <1>4, <1>6 DEF Owed
  <2> QED
    BY <1>5, <2>1, <2>2, <2>3, <2>4
<1>8. OpenDeposits' = OpenDeposits /\ \A t : ChannelsIn(t)' = ChannelsIn(t)
  BY DEF OpenDeposits, ChannelsIn
<1>9. ASSUME NEW t
      PROVE  JobsIn(t)' = JobsIn(t) \cup New(t) /\ JobsIn(t) \cap New(t) = {}
  <2>1. \A k \in JobIds' \ JobIds : k - n \in DOMAIN reqs /\ k = n + (k - n)
    BY <1>2, <1>3
  <2>2. ASSUME NEW k \in JobIds' \ JobIds
        PROVE  jobs'[k].token = t <=> k \in New(t)
    <3> PICK i \in DOMAIN reqs : k = n + i
      BY <2>1
    <3>1. jobs'[k].token = reqs[i].token
      BY <1>6
    <3>2. \A j \in DOMAIN reqs : k = n + j => j = i
      BY <1>2
    <3>3. New(t) = {n + j : j \in Of(t)}
      BY DEF Shifted
    <3>4. k \in New(t) <=> i \in Of(t)
      BY <3>2, <3>3
    <3> QED
      BY <3>1, <3>4
  <2>3. New(t) \subseteq JobIds' \ JobIds /\ JobIds \subseteq JobIds'
    BY <1>2, <1>4 DEF Created, Shifted
  <2>4. JobsIn(t)' = {k \in JobIds' : jobs'[k].token = t}
    BY DEF JobsIn
  <2> HIDE DEF New
  <2> QED
    BY <1>4, <2>2, <2>3, <2>4 DEF JobsIn
<1>10. /\ held' \in [Tokens -> Int]
       /\ \A t \in Tokens : /\ held[t] \in Int
                            /\ held'[t] = held[t] + SumFunctionOnSet(asked, Of(t))
                            /\ SumFunctionOnSet(asked, Of(t)) \in Int
                            /\ IsFiniteSet(Of(t))
  <2>1. \A t : IsFiniteSet(Of(t))
    BY <1>2, FiniteUpTo
  <2>2. \A t : SumFunctionOnSet(asked, Of(t)) \in Int
    BY <1>7, <2>1, SumInt
  <2>3. held' = [t \in Tokens |-> held[t] + SumFunctionOnSet(asked, Of(t))]
    BY DEF batch_create_jobs, BatchTotal
  <2> HIDE DEF asked, Of
  <2> QED
    BY <2>1, <2>2, <2>3 DEF Conserved
<1>11. ASSUME NEW t \in Tokens
       PROVE  held'[t] = SumFunctionOnSet(Owed', JobsIn(t)')
                         + SumFunctionOnSet(OpenDeposits', ChannelsIn(t)')
  <2> DEFINE jobSum == SumFunctionOnSet(Owed, JobsIn(t))
             newSum == SumFunctionOnSet(asked, Of(t))
             rest   == SumFunctionOnSet(OpenDeposits, ChannelsIn(t))
  <2>1. IsFiniteSet(JobsIn(t)) /\ JobsIn(t) \subseteq JobIds
    BY <1>1, FiniteJobs DEF JobsIn, JobIds
  <2>2. jobSum \in Int /\ held[t] = jobSum + rest
    BY <1>7, <2>1, SumInt DEF Conserved
  <2>3. SumFunctionOnSet(Owed', JobsIn(t)) = jobSum
    BY <1>7, <2>1, SumCongruence
  <2>4. rest \in Int
    BY DepositsAreInt
  <2>5. Of(t) \in SUBSET Int /\ n \in Int
    BY <1>2, <1>3
  <2>6. \A i \in Of(t) : asked[i] \in Int /\ Owed'[n + i] = asked[i]
    BY <1>7
  <2>7. IsFiniteSet(New(t)) /\ SumFunctionOnSet(Owed', New(t)) = newSum
    <3>1. IsFiniteSet(Of(t))
      BY <1>10
    <3> HIDE DEF Of, asked
    <3> QED
      BY <2>5, <2>6, <3>1, SumShift
  <2>8. \A k \in JobsIn(t) \cup New(t) : Owed'[k] \in Int
    BY <1>7, <2>1 DEF Shifted
  <2>9. SumFunctionOnSet(Owed', JobsIn(t) \cup New(t))
           = SumFunctionOnSet(Owed', JobsIn(t)) + SumFunctionOnSet(Owed', New(t))
    <3> HIDE DEF New
    <3> QED
      BY <1>9, <2>1, <2>7, <2>8, SumDisjoint
  <2>10. held'[t] = held[t] + newSum /\ newSum \in Int
    BY <1>10
  <2>11. SumFunctionOnSet(Owed', JobsIn(t)') = jobSum + newSum
    BY <1>9, <2>3, <2>7, <2>9
  <2> HIDE DEF jobSum, newSum, rest
  <2>12. held'[t] = (jobSum + newSum) + rest
    BY <2>2, <2>4, <2>10
  <2> QED
    BY <1>8, <2>11, <2>12 DEF rest
<1> QED
  BY <1>10, <1>11 DEF Conserved

(***************************************************************************)
(* An open channel's deposit is held until the channel is settled.         *)
(***************************************************************************)
LEMMA ChannelStepConserves ==
    ASSUME IInv, Conserved, ChannelNext, UNCHANGED jobVars
    PROVE  Conserved'
<1>1. ChannelsOK /\ UNCHANGED <<jobs, paid>>
  BY DEF IInv, TypeOK, jobVars
<1>2. Owed' = Owed /\ JobIds' = JobIds /\ \A t : JobsIn(t)' = JobsIn(t)
  BY <1>1 DEF Owed, Disbursed, JobsIn, JobIds
<1>3. CASE UNCHANGED <<held, channels>>
  BY <1>1, <1>2, <1>3, NothingMoves
<1>4. ASSUME NEW caller, NEW id \in DOMAIN channels, NEW v, close_channel(caller, id, v)
      PROVE  Conserved'
  <2>1. /\ held' = held /\ DOMAIN channels' = DOMAIN channels
        /\ \A c \in DOMAIN channels : /\ channels'[c].deposit = channels[c].deposit
                                      /\ channels'[c].token = channels[c].token
    BY <1>1, <1>4 DEF close_channel, ChannelsOK, ChannelOK, Channel
  <2> QED
    BY <1>1, <1>2, <2>1, NothingMoves
<1>5. /\ opened \in Nat /\ opened + 1 \notin DOMAIN channels
      /\ \A c \in DOMAIN channels : /\ OpenDeposits[c] = channels[c].deposit
                                    /\ channels[c].deposit \in Int
                                    /\ channels[c].token \in Tokens
  BY <1>1 DEF ChannelsOK, ChannelOK, Channel, OpenDeposits
<1>6. \A t : /\ ChannelsIn(t) \subseteq DOMAIN channels
             /\ IsFiniteSet(ChannelsIn(t))
             /\ \A c \in ChannelsIn(t) : OpenDeposits[c] \in Int
             /\ SumFunctionOnSet(OpenDeposits, ChannelsIn(t)) \in Int
             /\ SumFunctionOnSet(Owed, JobsIn(t)) \in Int
  <2>1. JobsOK /\ PaidOK
    BY DEF IInv, TypeOK
  <2>2. \A t : IsFiniteSet(JobsIn(t)) /\ JobsIn(t) \subseteq JobIds
    BY <2>1, FiniteJobs DEF JobsIn, JobIds, JobsOK
  <2>3. \A t : SumFunctionOnSet(Owed, JobsIn(t)) \in Int
    BY <2>1, <2>2, OwedIsInt, SumInt
  <2> QED
    BY <2>3, DepositsAreInt DEF ChannelsIn
<1>7. ASSUME NEW payer \in Payers, NEW provider \in Payees, NEW token \in Tokens,
             NEW deposit \in Deposits, open_channel(payer, provider, token, deposit)
      PROVE  Conserved'
  <2> PICK new \in Nat : new = opened + 1
    BY <1>5
  <2>1. /\ deposit \in Int /\ new \notin DOMAIN channels
        /\ DOMAIN channels' = DOMAIN channels \cup {new}
        /\ \A c \in DOMAIN channels : channels'[c] = channels[c]
        /\ channels'[new].deposit = deposit /\ channels'[new].token = token
    BY <1>5, <1>7, ChannelAssumption DEF open_channel
  <2>2. /\ held' \in [Tokens -> Int]
        /\ \A t \in Tokens : /\ held[t] \in Int
                             /\ held'[t] = IF t = token THEN held[t] + deposit
                                                        ELSE held[t]
    BY <1>7, <2>1 DEF open_channel, Conserved
  <2>3. /\ \A c \in DOMAIN channels : OpenDeposits'[c] = OpenDeposits[c]
        /\ OpenDeposits'[new] = deposit
    BY <2>1 DEF OpenDeposits
  <2>4. \A t : ChannelsIn(t)' = IF t = token THEN ChannelsIn(t) \cup {new}
                                             ELSE ChannelsIn(t)
    BY <2>1 DEF ChannelsIn
  <2>5. \A t : SumFunctionOnSet(OpenDeposits', ChannelsIn(t))
                  = SumFunctionOnSet(OpenDeposits, ChannelsIn(t))
    BY <1>6, <2>3, SumCongruence
  <2>6. SumFunctionOnSet(OpenDeposits', ChannelsIn(token) \cup {new})
           = SumFunctionOnSet(OpenDeposits', ChannelsIn(token)) + deposit
    BY <1>6, <2>1, <2>3, SumAdd
  <2>7. ASSUME NEW t \in Tokens
        PROVE  held'[t] = SumFunctionOnSet(Owed', JobsIn(t)')
                          + SumFunctionOnSet(OpenDeposits', ChannelsIn(t)')
    <3> DEFINE jobSum == SumFunctionOnSet(Owed, JobsIn(t))
               rest   == SumFunctionOnSet(OpenDeposits, ChannelsIn(t))
    <3>1. held[t] = jobSum + rest /\ jobSum \in Int /\ rest \in Int
      BY <1>6 DEF Conserved
    <3>2. SumFunctionOnSet(OpenDeposits', ChannelsIn(t)')
             = IF t = token THEN rest + deposit ELSE rest
      BY <2>4, <2>5, <2>6
    <3> HIDE DEF jobSum, rest
    <3>3. held'[t] = jobSum + (IF t = token THEN rest + deposit ELSE rest)
      BY <2>1, <2>2, <3>1
    <3> QED
      BY <1>2, <3>2, <3>3 DEF jobSum
  <2> QED
    BY <2>2, <2>7 DEF Conserved
<1>8. ASSUME NEW caller, NEW id \in DOMAIN channels, force_close(caller, id)
      PROVE  Conserved'
  <2> DEFINE tok == channels[id].token
  <2>1. /\ tok \in Tokens /\ id \in ChannelsIn(tok)
        /\ channels[id].deposit \in Int
        /\ channels' = [c \in DOMAIN channels \ {id} |-> channels[c]]
    BY <1>5, <1>8 DEF force_close, ChannelsIn
  <2>2. /\ held' \in [Tokens -> Int]
        /\ \A t \in Tokens : /\ held[t] \in Int
                             /\ held'[t] = IF t = tok THEN held[t] - channels[id].deposit
                                                      ELSE held[t]
    BY <1>8, <2>1 DEF force_close, Withdraw, Conserved
  <2>3. \A t : ChannelsIn(t)' = IF t = tok THEN ChannelsIn(t) \ {id} ELSE ChannelsIn(t)
    BY <2>1 DEF ChannelsIn
  <2>4. \A c \in DOMAIN channels \ {id} : OpenDeposits'[c] = OpenDeposits[c]
    BY <2>1 DEF OpenDeposits
  <2>5. \A t : t # tok => SumFunctionOnSet(OpenDeposits', ChannelsIn(t))
                             = SumFunctionOnSet(OpenDeposits, ChannelsIn(t))
    <3>1. \A t : t # tok => \A c \in ChannelsIn(t) : OpenDeposits'[c] = OpenDeposits[c]
      BY <2>4 DEF ChannelsIn
    <3> QED
      BY <1>6, <3>1, SumCongruence
  <2>6. SumFunctionOnSet(OpenDeposits', ChannelsIn(tok) \ {id})
           = SumFunctionOnSet(OpenDeposits, ChannelsIn(tok)) - channels[id].deposit
    <3>1. /\ IsFiniteSet(ChannelsIn(tok) \ {id})
          /\ \A c \in ChannelsIn(tok) \ {id} : OpenDeposits'[c] = OpenDeposits[c]
      BY <1>6, <2>4, FS_RemoveElement
    <3>2. SumFunctionOnSet(OpenDeposits', ChannelsIn(tok) \ {id})
             = SumFunctionOnSet(OpenDeposits, ChannelsIn(tok) \ {id})
      BY <3>1, SumCongruence
    <3>3. SumFunctionOnSet(OpenDeposits, ChannelsIn(tok))
             = OpenDeposits[id] + SumFunctionOnSet(OpenDeposits, ChannelsIn(tok) \ {id})
      <4> DEFINE C == ChannelsIn(tok)
      <4>1. IsFiniteSet(C) /\ id \in C /\ \A c \in C : OpenDeposits[c] \in Int
        BY <1>6, <2>1
      <4> HIDE DEF C
      <4>2. SumFunctionOnSet(OpenDeposits, C)
               = OpenDeposits[id] + SumFunctionOnSet(OpenDeposits, C \ {id})
        BY <4>1, SumRemove
      <4> QED
        BY <4>2 DEF C
    <3>4. \A c \in ChannelsIn(tok) \ {id} : OpenDeposits[c] \in Int
      BY <1>6
    <3>5. SumFunctionOnSet(OpenDeposits, ChannelsIn(tok) \ {id}) \in Int
      BY <3>1, <3>4, SumInt
    <3>6. \A a, b, d \in Int : a = d + b => b = a - d
      OBVIOUS
    <3> QED
      BY <1>5, <1>6, <3>2, <3>3, <3>5, <3>6
  <2> HIDE DEF tok
  <2>7. ASSUME NEW t \in Tokens
        PROVE  held'[t] = SumFunctionOnSet(Owed', JobsIn(t)')
                          + SumFunctionOnSet(OpenDeposits', ChannelsIn(t)')
    <3> DEFINE jobSum  == SumFunctionOnSet(Owed, JobsIn(t))
               rest    == SumFunctionOnSet(OpenDeposits, ChannelsIn(t))
               deposit == channels[id].deposit
    <3>1. held[t] = jobSum + rest /\ jobSum \in Int /\ rest \in Int
      BY <1>6 DEF Conserved
    <3>2. SumFunctionOnSet(OpenDeposits', ChannelsIn(t)')
             = IF t = tok THEN rest - deposit ELSE rest
      BY <2>3, <2>5, <2>6
    <3> HIDE DEF jobSum, rest
    <3>3. held'[t] = jobSum + (IF t = tok THEN rest - deposit ELSE rest)
      BY <2>1, <2>2, <3>1
    <3> QED
      BY <1>2, <3>2, <3>3 DEF jobSum
  <2> QED
    BY <2>2, <2>7 DEF Conserved
<1> QED
  BY <1>3, <1>4, <1>7, <1>8 DEF ChannelNext, ChannelStep, SignVoucher,
     createVoucher, createChannelVoucher

(***************************************************************************)
(* Settling a job or releasing one of its milestones takes what is paid    *)
(* out of the balance and out of what the job is owed; no other entry      *)
(* point of an existing job moves a token.                                 *)
(***************************************************************************)
LEMMA PayOutConserves ==
    ASSUME IInv, Conserved, NEW id \in JobIds, NEW fee_bps \in 0..MAX_FEE_BPS,
           PayOut(id, fee_bps), UNCHANGED channels
    PROVE  Conserved'
<1> DEFINE job      == jobs[id]
           penalty  == compute_sla_penalty(job)
           fee      == compute_fee(job.budget - penalty, fee_bps)
           provider == job.budget - penalty - fee
           done     == Settled(job, "Completed")
<1>1. ConfigOK /\ job \in Job
  BY ElementOfSeq, LenProperties DEF IInv, TypeOK, JobsOK, JobIds
<1>2. done \in Job /\ done.budget = job.budget /\ done.token = job.token
  BY <1>1, SettledIsJob DEF Settled, JobStatus, Job
<1>3. penalty \in 0..job.budget /\ job.budget \in Nat
  BY <1>1, PenaltyBounds DEF Job
<1>4. job.budget - penalty \in Nat
  BY <1>3
<1>5. fee \in 0..(job.budget - penalty)
  BY <1>4, FeeBounds
<1>6. provider \in Int /\ penalty \in Int /\ fee \in Int
  BY <1>3, <1>5
<1>7. jobs' = [jobs EXCEPT ![id] = done] /\ Disburse(id, penalty, provider, fee)
  BY DEF PayOut
<1> HIDE DEF done, penalty, provider, fee
<1> QED
  BY <1>2, <1>6, <1>7, DisburseConserves

LEMMA RefundConserves ==
    ASSUME IInv, Conserved, NEW id \in JobIds,
           jobs' = [jobs EXCEPT ![id] = Settled(jobs[id], "Cancelled")],
           Disburse(id, jobs[id].budget - jobs[id].released, 0, 0),
           UNCHANGED channels
    PROVE  Conserved'
<1> DEFINE job  == jobs[id]
           done == Settled(job, "Cancelled")
           rest == job.budget - job.released
<1>1. ConfigOK /\ job \in Job
  BY ElementOfSeq, LenProperties DEF IInv, TypeOK, JobsOK, JobIds
<1>2. done \in Job /\ done.budget = job.budget /\ done.token = job.token
  BY <1>1, SettledIsJob DEF Settled, JobStatus, Job
<1>3. rest \in Int
  BY <1>1 DEF Job
<1> PICK none \in Int : none = 0
  OBVIOUS
<1>4. jobs' = [jobs EXCEPT ![id] = done] /\ Disburse(id, rest, none, none)
  OBVIOUS
<1> HIDE DEF done, rest
<1> QED
  BY <1>2, <1>3, <1>4, DisburseConserves

LEMMA ReleaseConserves ==
    ASSUME IInv, Conserved, NEW caller, NEW id \in DOMAIN milestones,
           NEW idx \in DOMAIN milestones[id], approve_milestone(caller, id, idx),
           UNCHANGED channels
    PROVE  Conserved'
<1> DEFINE job      == jobs[id]
           amount   == milestones[id][idx].amount
           fee      == compute_fee(amount, job.fee_bps)
           released == job.released + amount
           new      == [job EXCEPT !.released = released, !.updated_at = now,
                                   !.status = IF released >= job.budget
                                              THEN "Completed" ELSE @]
<1>1. ConfigOK /\ JobsOK /\ MilestonesOK /\ id \in JobIds
  BY DEF IInv, TypeOK, MilestonesOK
<1>2. job \in Job /\ job.fee_bps \in 0..MAX_FEE_BPS /\ now \in Nat
  <2>1. job \in Job
    BY <1>1, ElementOfSeq, LenProperties DEF JobsOK, JobIds
  <2> QED
    BY <1>1, <2>1 DEF ConfigOK, Job
<1>3. amount \in Nat
  <2>1. milestones[id] \in Seq(Milestone) /\ amount > 0
    BY <1>1 DEF MilestonesOK
  <2>2. milestones[id][idx] \in Milestone
    BY <2>1, ElementOfSeq, LenProperties
  <2>3. amount \in Int
    BY <2>2, MilestoneAssumption DEF Milestone
  <2> QED
    BY <2>1, <2>3
<1>4. fee \in 0..amount
  BY <1>2, <1>3, FeeBounds
<1>5. released \in Nat /\ amount - fee \in Int /\ fee \in Int
  BY <1>2, <1>3, <1>4 DEF Job
<1>6. new \in Job /\ new.budget = job.budget /\ new.token = job.token
  BY <1>2, <1>5 DEF Job, JobStatus
<1> PICK none \in Int : none = 0
  OBVIOUS
<1>7. jobs' = [jobs EXCEPT ![id] = new] /\ Disburse(id, none, amount - fee, fee)
  BY DEF approve_milestone
<1> HIDE DEF new, fee
<1> QED
  BY <1>1, <1>5, <1>6, <1>7, DisburseConserves

LEMMA JobStepConserves ==
    ASSUME IInv, Conserved, NEW caller \in Addr, NEW id \in JobIds,
           JobStep(caller, id), UNCHANGED channels
    PROVE  Conserved'
<1>1. ConfigOK /\ jobs[id] \in Job
  BY ElementOfSeq, LenProperties DEF IInv, TypeOK, JobsOK, JobIds
<1>2. config.fee_bps \in 0..MAX_FEE_BPS /\ jobs[id].fee_bps \in 0..MAX_FEE_BPS
  BY <1>1 DEF ConfigOK, Config, Job
<1>3. ASSUME NEW d, NEW h, submit(caller, id, d, h) \/ dispute(caller, id)
      PROVE  Conserved'
  <2>1. /\ UNCHANGED <<held, paid>> /\ JobIds' = JobIds
        /\ \A k \in JobIds : /\ jobs'[k].budget = jobs[k].budget
                             /\ jobs'[k].token = jobs[k].token
    BY <1>1, <1>3 DEF submit, dispute, JobIds, Job
  <2> QED
    BY <2>1, NothingMoves
<1>4. CASE UNCHANGED <<held, jobs, paid>>
  BY <1>4, NothingMoves DEF JobIds
<1>5. ASSUME NEW h, complete(caller, id, h) \/ approve_job(caller, id)
                    \/ claim_expired(caller, id)
      PROVE  Conserved'
  <2>1. \/ UNCHANGED <<held, jobs, paid>>
        \/ PayOut(id, jobs[id].fee_bps)
        \/ PayOut(id, config.fee_bps)
    BY <1>5 DEF complete, approve_job, claim_expired
  <2> QED
    BY <1>2, <1>4, <2>1, PayOutConserves
<1>6. CASE cancel(caller, id) \/ claim_refund(caller, id)
  BY <1>6, RefundConserves DEF cancel, claim_refund, Refund
<1> QED
  BY <1>3, <1>5, <1>6 DEF JobStep

LEMMA CreateConserves ==
    ASSUME IInv, Conserved, Create, UNCHANGED channels
    PROVE  Conserved'
<1>1. ConfigOK
  BY DEF IInv, TypeOK
<1>2. ASSUME NEW client \in Clients, NEW req, NEW sla,
             req.provider \in Addr, req.evaluator \in Addr, req.token \in Tokens,
             req.budget \in Nat, require_minimum_job_budget(req.token, req.budget),
             sla.deadline \in Nat, sla.penalty \in Nat,
             StoreJob(NewJob(client, req, sla))
      PROVE  Conserved'
  <2> DEFINE job == NewJob(client, req, sla)
  <2>1. /\ job \in Job /\ job.status = "Funded" /\ job.released = 0
        /\ job.deliverable_hash = ZeroHash /\ StoreJob(job)
    BY <1>1, <1>2, NewJobIsJob, JobAssumption
  <2> HIDE DEF job
  <2> QED
    BY <2>1, StoreConserves
<1>3. ASSUME NEW client \in Clients, NEW req \in Request, NEW sla \in SlaTerms,
             create_job(client, req, sla)
      PROVE  Conserved'
  <2>1. /\ req.provider \in Addr /\ req.evaluator \in Addr /\ req.token \in Tokens
        /\ req.budget \in Nat /\ sla.deadline \in Nat /\ sla.penalty \in Nat
    BY JobAssumption DEF Request
  <2>2. /\ require_minimum_job_budget(req.token, req.budget)
        /\ StoreJob(NewJob(client, req, sla))
    BY <1>3 DEF create_job, ValidRequest
  <2> QED
    BY <1>2, <2>1, <2>2
<1>4. ASSUME NEW client \in Clients, NEW provider \in Providers, NEW q \in Quorums,
             NEW token \in Tokens, NEW budget \in Budgets, NEW sla \in SlaTerms,
             create_job_multi_eval(client, provider, q, token, budget, sla)
      PROVE  Conserved'
  <2> DEFINE req == [provider |-> provider, evaluator |-> q.primary,
                     token |-> token, budget |-> budget]
  <2>1. /\ req.provider \in Addr /\ req.evaluator \in Addr /\ req.token \in Tokens
        /\ req.budget \in Nat /\ sla.deadline \in Nat /\ sla.penalty \in Nat
    BY JobAssumption
  <2>2. /\ require_minimum_job_budget(req.token, req.budget)
        /\ StoreJob(NewJob(client, req, sla))
    BY <1>4 DEF create_job_multi_eval
  <2> QED
    BY <1>2, <2>1, <2>2
<1> QED
  BY <1>3, <1>4, BatchConserves DEF Create

LEMMA MilestonesConserve ==
    ASSUME IInv, Conserved, MilestoneNext, UNCHANGED channels
    PROVE  Conserved'
<1>1. ConfigOK /\ MilestonesOK
  BY DEF IInv, TypeOK
<1>2. ASSUME NEW client \in Clients, NEW provider \in Providers,
             NEW evaluator \in Evaluators, NEW token \in Tokens, NEW budget \in Budgets,
             NEW plan \in MilestonePlans,
             create_milestone_job(client, provider, evaluator, token, budget, plan)
      PROVE  Conserved'
  <2> DEFINE req == [provider |-> provider, evaluator |-> evaluator,
                     token |-> token, budget |-> budget]
             job == NewJob(client, req, NoSla)
  <2>1. /\ client \in Addr /\ req.provider \in Addr /\ req.evaluator \in Addr
        /\ req.token \in Tokens /\ req.budget \in Nat
        /\ NoSla.deadline \in Nat /\ NoSla.penalty \in Nat
    BY JobAssumption DEF NoSla
  <2>2. require_minimum_job_budget(req.token, req.budget) /\ StoreJob(job)
    BY <1>2 DEF create_milestone_job
  <2>3. /\ job \in Job /\ job.status = "Funded" /\ job.released = 0
        /\ job.deliverable_hash = ZeroHash
    BY <1>1, <2>1, <2>2, NewJobIsJob
  <2> HIDE DEF job
  <2> QED
    BY <2>2, <2>3, StoreConserves
<1>3. ASSUME NEW caller, NEW id \in DOMAIN milestones, MilestoneStep(caller, id)
      PROVE  Conserved'
  <2>1. ASSUME NEW idx, NEW d, submit_milestone(caller, id, idx, d)
        PROVE  Conserved'
    BY <2>1, NothingMoves DEF submit_milestone, JobIds
  <2>2. CASE cancel_uncompleted_milestones(caller, id)
    BY <1>1, <2>2, RefundConserves DEF cancel_uncompleted_milestones, MilestonesOK
  <2> QED
    BY <1>3, <2>1, <2>2, ReleaseConserves DEF MilestoneStep
<1> QED
  BY <1>2, <1>3 DEF MilestoneNext, CreateMilestones

LEMMA NextConserves == IInv /\ Conserved /\ [Next]_vars => Conserved'
<1> SUFFICES ASSUME IInv, Conserved, [Next]_vars PROVE Conserved'
  OBVIOUS
<1>1. CASE UNCHANGED <<held, jobVars, channels>>
  BY <1>1, NothingMoves DEF jobVars, JobIds
<1>2. CASE (Admin \/ Tick) /\ UNCHANGED <<jobVars, milestones, channelVars>>
  BY <1>1, <1>2 DEF Admin, Tick, channelVars
<1>3. CASE JobNext /\ UNCHANGED <<milestones, channelVars>>
  BY <1>3, CreateConserves, JobStepConserves DEF JobNext, channelVars
<1>4. CASE MilestoneNext /\ UNCHANGED channelVars
  BY <1>4, MilestonesConserve DEF channelVars
<1>5. CASE ChannelNext /\ UNCHANGED <<jobVars, milestones>>
  BY <1>5, ChannelStepConserves
<1> QED
  BY <1>1, <1>2, <1>3, <1>4, <1>5 DEF Next, vars, baseVars, channelVars

LEMMA InitConserved == Init => Conserved
<1> SUFFICES ASSUME Init PROVE Conserved
  OBVIOUS
<1>1. \A t : JobsIn(t) = {} /\ ChannelsIn(t) = {}
  BY DEF Init, JobInit, ChannelInit, JobsIn, ChannelsIn, JobIds
<1>2. held = [t \in Tokens |-> 0]
  BY DEF Init, BaseInit
<1> QED
  BY <1>1, <1>2, SumEmpty DEF Conserved

(***************************************************************************)
(* In every token the contract holds what was deposited for its jobs and   *)
(* open channels less what was transferred out for those jobs: no settle-  *)
(* ment moves a token that its job's payments do not record, whatever the  *)
(* order of the calls.                                                     *)
(***************************************************************************)
THEOREM BalanceIsConserved == Spec => []Conserved
<1>1. IInv /\ Conserved /\ [Next]_vars => Conserved'
  BY NextConserves
<1> QED
  BY <1>1, InitConserved, Invariant, PTL DEF Spec

----------------------------------------------------------------------------
(* What is recorded as released, and what was paid. *)

\* An open job has paid what it records as released.  A settled one too, or it
\* has paid more than its budget.
RecordInv(job, pay) ==
    LET out == pay.client + pay.provider + pay.treasury IN
    /\ job.status \notin Terminal => out = job.released
    /\ out = job.released \/ out > job.budget

RecordsInv == \A id \in JobIds : RecordInv(jobs[id], paid[id])

(***************************************************************************)
(* Whoever settles a job pays out its budget, or what of it was not        *)
(* released before.  Only the former can exceed the budget.                *)
(***************************************************************************)
LEMMA StepKeepsRecord ==
    ASSUME IInv, NEW id \in JobIds, RecordInv(jobs[id], paid[id]),
           Moved(id) \/ PaidOut(id) \/ Refunded(id) \/ Released(id)
    PROVE  RecordInv(jobs'[id], paid'[id])
<1> DEFINE job == jobs[id]
           pay == paid[id]
           out == pay.client + pay.provider + pay.treasury
<1>1. /\ job \in Job /\ pay \in Payment /\ ConfigOK /\ OnlyJob(id)
      /\ job.status \notin Terminal
  BY ElementOfSeq, LenProperties DEF IInv, TypeOK, JobsOK, PaidOK, JobIds, Moved,
     PaidOut, Refunded, Released, OnlyJob
<1>2. /\ job.budget \in Nat /\ job.released \in Nat
      /\ pay.client \in Nat /\ pay.provider \in Nat /\ pay.treasury \in Nat
  BY <1>1 DEF Job, Payment
<1>3. out = job.released
  BY <1>1 DEF RecordInv
<1>4. CASE Moved(id)
  BY <1>1, <1>3, <1>4 DEF Moved, RecordInv
<1>5. CASE PaidOut(id)
  <2>1. PICK client, provider, treasury \in Nat :
             /\ client + provider + treasury = job.budget
             /\ paid'[id] = [client   |-> pay.client + client,
                             provider |-> pay.provider + provider,
                             treasury |-> pay.treasury + treasury]
    BY <1>5 DEF PaidOut
  <2>2. /\ jobs'[id].status = "Completed" /\ jobs'[id].released = job.budget
        /\ jobs'[id].budget = job.budget
    BY <1>1, <1>5 DEF PaidOut, Settled, Job
  <2>3. (pay.client + client) + (pay.provider + provider) + (pay.treasury + treasury)
           = job.released + job.budget
    BY <1>2, <1>3, <2>1
  <2>4. job.released + job.budget = job.budget \/ job.released + job.budget > job.budget
    BY <1>2
  <2> QED
    BY <2>1, <2>2, <2>3, <2>4 DEF RecordInv, Terminal
<1>6. CASE Refunded(id)
  <2>1. /\ jobs'[id].status = "Cancelled" /\ jobs'[id].released = job.budget
    BY <1>1, <1>6 DEF Refunded, Settled, Job
  <2>2. /\ paid'[id].client = pay.client + (job.budget - job.released)
        /\ paid'[id].provider = pay.provider /\ paid'[id].treasury = pay.treasury
    BY <1>1, <1>6 DEF Refunded, Payment
  <2>3. pay.client + (job.budget - job.released) + pay.provider + pay.treasury
           = job.budget
    BY <1>2, <1>3
  <2> QED
    BY <2>1, <2>2, <2>3 DEF RecordInv, Terminal
<1>7. CASE Released(id)
  <2>1. PICK provider, treasury \in Nat :
             /\ jobs'[id].released = job.released + (provider + treasury)
             /\ paid'[id] = [client   |-> pay.client,
                             provider |-> pay.provider + provider,
                             treasury |-> pay.treasury + treasury]
    BY <1>7 DEF Released
  <2>2. pay.client + (pay.provider + provider) + (pay.treasury + treasury)
           = job.released + (provider + treasury)
    BY <1>2, <1>3, <2>1
  <2> QED
    BY <2>1, <2>2 DEF RecordInv
<1> QED
  BY <1>4, <1>5, <1>6, <1>7

LEMMA RecordsInvariant == Spec => []RecordsInv
<1>1. ASSUME IInv, RecordsInv, [Next]_vars
      PROVE  RecordsInv'
  <2>1. CASE UNCHANGED <<jobs, paid>>
    BY <1>1, <2>1 DEF RecordsInv, RecordInv, JobIds
  <2>2. CASE Created
    <3>1. \A id \in JobIds' \ JobIds : RecordInv(jobs'[id], paid'[id])
      BY <2>2 DEF Created, RecordInv, NoPayment
    <3> QED
      BY <1>1, <2>2, <3>1 DEF RecordsInv, RecordInv, Created
  <2>3. ASSUME NEW id \in JobIds,
               Moved(id) \/ PaidOut(id) \/ Refunded(id) \/ Released(id)
        PROVE  RecordsInv'
    <3>1. RecordInv(jobs'[id], paid'[id])
      BY <1>1, <2>3, StepKeepsRecord DEF RecordsInv
    <3>2. JobIds' = JobIds /\ \A k \in JobIds \ {id} : jobs'[k] = jobs[k]
                                                      /\ paid'[k] = paid[k]
      BY <2>3 DEF Moved, PaidOut, Refunded, Released, OnlyJob
    <3> QED
      BY <1>1, <3>1, <3>2 DEF RecordsInv, RecordInv
  <2> QED
    BY <1>1, <2>1, <2>2, <2>3, StepClass
<1>2. Init => RecordsInv
  BY DEF Init, JobInit, RecordsInv, JobIds
<1> QED
  BY <1>1, <1>2, Invariant, PTL DEF Spec

(***************************************************************************)
(* As long as no job was paid more than its budget, the contract holds, in *)
(* every token, exactly what its jobs and channels are owed by their       *)
(* records: overpaying a job is the only way to take from the others.      *)
(***************************************************************************)
THEOREM SolventUnlessOverpaid == Spec => [](NeverOverpaid => Solvent)
<1>1. ASSUME IInv, Conserved, RecordsInv, NeverOverpaid
      PROVE  Solvent
  <2>1. \A id \in JobIds : Disbursed(id) = jobs[id].released
    <3> SUFFICES ASSUME NEW id \in JobIds
                 PROVE  Disbursed(id) = jobs[id].released
      OBVIOUS
    <3>1. jobs[id] \in Job /\ paid[id] \in Payment
      BY <1>1, ElementOfSeq, LenProperties DEF IInv, TypeOK, JobsOK, PaidOK, JobIds
    <3>2. Disbursed(id) \in Nat /\ jobs[id].budget \in Nat
      BY <3>1 DEF Disbursed, Job, Payment
    <3>3. Disbursed(id) <= jobs[id].budget
      BY <1>1 DEF NeverOverpaid
    <3>4. Disbursed(id) = jobs[id].released \/ Disbursed(id) > jobs[id].budget
      BY <1>1 DEF RecordsInv, RecordInv, Disbursed
    <3> QED
      BY <3>2, <3>3, <3>4
  <2>2. Owed = Unreleased
    BY <2>1 DEF Owed, Unreleased
  <2> QED
    BY <1>1, <2>2 DEF Conserved, Solvent
<1> QED
  BY <1>1, BalanceIsConserved, RecordsInvariant, Invariant, PTL

(***************************************************************************)
(* Without milestone jobs no job is overpaid, and the contract is solvent. *)
(***************************************************************************)
THEOREM SolventWithoutMilestones ==
    ASSUME MilestonePlans = {}
    PROVE  Spec => []Solvent
<1> DEFINE NoMilestones == DOMAIN milestones = {}
<1>1. NoMilestones /\ [Next]_vars => NoMilestones'
  BY DEF Next, vars, MilestoneNext, CreateMilestones
<1>2. Init => NoMilestones
  BY DEF Init, MilestoneInit
<1>3. ASSUME IInv, NoMilestones
      PROVE  NeverOverpaid
  <2> SUFFICES ASSUME NEW id \in JobIds
               PROVE  Disbursed(id) <= jobs[id].budget
    BY DEF NeverOverpaid
  <2>1. jobs[id] \in Job /\ id \in PlainJobs
    BY <1>3, ElementOfSeq, LenProperties
    DEF IInv, TypeOK, JobsOK, JobIds, PlainJobs, IsMilestoneJob
  <2>2. Disbursed(id) \in {0, jobs[id].budget}
    BY <1>3, <2>1 DEF IInv, SettledOnce
  <2> QED
    BY <2>1, <2>2 DEF Job
<1> QED
  BY <1>1, <1>2, <1>3, SolventUnlessOverpaid, Invariant, PTL DEF Spec

----------------------------------------------------------------------------
(* Milestones. *)

Approvals(plan)     == {i \in DOMAIN plan : plan[i].approved}
ApprovedTotal(plan) == SumFunctionOnSet(Amounts(plan), Approvals(plan))

\* MilestonesReleased of one job, with what makes it inductive: the budget is
\* the plan's total, an open job has something left to release, and nothing of
\* what was released went to the client.
MilestoneInv(job, pay, plan) ==
    /\ PlanTotal(plan) = job.budget
    /\ job.status \notin Terminal =>
          /\ job.released = ApprovedTotal(plan)
          /\ job.released < job.budget
          /\ pay.client = 0 /\ pay.provider + pay.treasury = job.released
    /\ job.status = "Cancelled" =>
          /\ ApprovedTotal(plan) < job.budget
          /\ pay.client = job.budget - ApprovedTotal(plan)
          /\ pay.provider + pay.treasury = ApprovedTotal(plan)
    /\ job.status = "Completed" /\ job.deliverable_hash = ZeroHash =>
          Approvals(plan) = DOMAIN plan

MilestonesInv ==
    \A id \in DOMAIN milestones : MilestoneInv(jobs[id], paid[id], milestones[id])

(***************************************************************************)
(* The approved milestones of a plan add up to no more than the plan, and  *)
(* to as much only when all of them are approved.                          *)
(***************************************************************************)
LEMMA PlanSums ==
    ASSUME NEW plan \in Seq(Milestone), \A i \in DOMAIN plan : plan[i].amount > 0
    PROVE  /\ IsFiniteSet(Approvals(plan))
           /\ \A i \in DOMAIN plan : plan[i].amount \in Nat
           /\ ApprovedTotal(plan) \in Nat /\ PlanTotal(plan) \in Nat
           /\ ApprovedTotal(plan) <= PlanTotal(plan)
           /\ ApprovedTotal(plan) = PlanTotal(plan) <=> Approvals(plan) = DOMAIN plan
<1>1. IsFiniteSet(DOMAIN plan) /\ IsFiniteSet(Approvals(plan))
  BY FiniteJobs DEF Approvals
<1>2. \A i \in DOMAIN plan : plan[i].amount \in Int
  <2>1. \A i \in DOMAIN plan : plan[i] \in Milestone
    BY ElementOfSeq, LenProperties
  <2> QED
    BY <2>1, MilestoneAssumption DEF Milestone
<1>3. \A i \in DOMAIN plan : plan[i].amount \in Nat
  BY <1>2
<1>4. \A i \in DOMAIN plan : Amounts(plan)[i] \in Int /\ Amounts(plan)[i] > 0
  BY <1>2 DEF Amounts
<1>5. Approvals(plan) \in SUBSET DOMAIN plan
  BY DEF Approvals
<1>6. PlanTotal(plan) = SumFunctionOnSet(Amounts(plan), DOMAIN plan)
  BY DEF PlanTotal, SumFunction, Amounts
<1>7. /\ ApprovedTotal(plan) \in Nat
      /\ SumFunctionOnSet(Amounts(plan), DOMAIN plan) \in Nat
      /\ ApprovedTotal(plan) <= SumFunctionOnSet(Amounts(plan), DOMAIN plan)
      /\ ApprovedTotal(plan) = SumFunctionOnSet(Amounts(plan), DOMAIN plan)
            <=> Approvals(plan) = DOMAIN plan
  BY <1>1, <1>4, <1>5, SumOfPart DEF ApprovedTotal
<1> QED
  BY <1>1, <1>3, <1>6, <1>7

(***************************************************************************)
(* Approving one more milestone adds its amount.                           *)
(***************************************************************************)
Approve(plan, i) == [plan EXCEPT ![i].approved = TRUE]

LEMMA OneMoreApproved ==
    ASSUME NEW plan \in Seq(Milestone), \A i \in DOMAIN plan : plan[i].amount > 0,
           NEW i \in DOMAIN plan, ~plan[i].approved,
           NEW new, new = Approve(plan, i)
    PROVE  /\ new \in Seq(Milestone) /\ \A k \in DOMAIN new : new[k].amount > 0
           /\ PlanTotal(new) = PlanTotal(plan)
           /\ ApprovedTotal(new) = ApprovedTotal(plan) + plan[i].amount
<1>1. /\ DOMAIN plan = 1..Len(plan) /\ Len(plan) \in Nat
      /\ \A k \in DOMAIN plan : plan[k] \in Milestone
  BY ElementOfSeq, LenProperties
<1> DEFINE m == [plan[i] EXCEPT !.approved = TRUE]
<1>2. m \in Milestone /\ m.amount = plan[i].amount /\ m.approved
  BY <1>1 DEF Milestone
<1>3. new = [plan EXCEPT ![i] = m]
  BY DEF Approve
<1> HIDE DEF m
<1>4. /\ new \in Seq(Milestone) /\ DOMAIN new = DOMAIN plan
      /\ new[i] = m /\ \A k \in DOMAIN plan \ {i} : new[k] = plan[k]
  <2>1. i \in 1..Len(plan)
    BY <1>1
  <2>2. [plan EXCEPT ![i] = m] \in Seq(Milestone)
    BY <1>2, <2>1, ExceptSeq
  <2> QED
    BY <1>3, <2>2
<1>5. Amounts(new) = Amounts(plan)
  BY <1>2, <1>4 DEF Amounts
<1>6. Approvals(new) = Approvals(plan) \cup {i} /\ i \notin Approvals(plan)
  BY <1>2, <1>4 DEF Approvals
<1>7. \A k \in DOMAIN plan : Amounts(plan)[k] \in Int
  BY PlanSums DEF Amounts
<1>8. SumFunctionOnSet(Amounts(plan), Approvals(plan) \cup {i})
         = SumFunctionOnSet(Amounts(plan), Approvals(plan)) + Amounts(plan)[i]
  <2>1. IsFiniteSet(Approvals(plan)) /\ Approvals(plan) \subseteq DOMAIN plan
    BY PlanSums DEF Approvals
  <2> QED
    BY <1>6, <1>7, <2>1, SumAdd
<1>9. \A k \in DOMAIN new : new[k].amount > 0
  BY <1>2, <1>4
<1>10. ApprovedTotal(new) = ApprovedTotal(plan) + plan[i].amount
  BY <1>5, <1>6, <1>8 DEF ApprovedTotal, Amounts
<1> QED
  BY <1>4, <1>5, <1>9, <1>10 DEF PlanTotal

(***************************************************************************)
(* The entry points of plain jobs keep a milestone job consistent: paying  *)
(* it out leaves a content hash on record, and refunding it returns what   *)
(* its milestones did not release.                                         *)
(***************************************************************************)
LEMMA JobStepKeepsMilestoneInv ==
    ASSUME IInv, NEW id \in DOMAIN milestones,
           MilestoneInv(jobs[id], paid[id], milestones[id]),
           Moved(id) \/ PaidOut(id) \/ Refunded(id)
    PROVE  MilestoneInv(jobs'[id], paid'[id], milestones[id])
<1> DEFINE job  == jobs[id]
           pay  == paid[id]
           plan == milestones[id]
<1>1. /\ job \in Job /\ pay \in Payment /\ OnlyJob(id) /\ CommittedOnSubmit
      /\ job.status \notin Terminal /\ id \in JobIds
  BY ElementOfSeq, LenProperties DEF IInv, TypeOK, JobsOK, PaidOK, JobIds, Moved,
     PaidOut, Refunded, OnlyJob
<1>2. /\ job.budget \in Nat /\ job.released \in Nat
      /\ pay.client \in Nat /\ pay.provider \in Nat /\ pay.treasury \in Nat
  BY <1>1 DEF Job, Payment
<1>3. /\ PlanTotal(plan) = job.budget
      /\ job.released = ApprovedTotal(plan) /\ job.released < job.budget
      /\ pay.client = 0 /\ pay.provider + pay.treasury = job.released
  BY <1>1 DEF MilestoneInv
<1>4. CASE Moved(id)
  BY <1>1, <1>3, <1>4 DEF Moved, OnlyJob, MilestoneInv, Terminal
<1>5. CASE PaidOut(id)
  <2>1. /\ jobs'[id].status = "Completed" /\ jobs'[id].budget = job.budget
        /\ jobs'[id].deliverable_hash = job.deliverable_hash
    BY <1>1, <1>5 DEF PaidOut, Settled, Job
  <2>2. job.deliverable_hash # ZeroHash
    BY <1>1, <1>5 DEF PaidOut, CommittedOnSubmit
  <2> QED
    BY <1>3, <2>1, <2>2 DEF MilestoneInv, Terminal
<1>6. CASE Refunded(id)
  <2>1. /\ jobs'[id].status = "Cancelled" /\ jobs'[id].budget = job.budget
    BY <1>1, <1>6 DEF Refunded, Settled, Job
  <2>2. /\ paid'[id].client = pay.client + (job.budget - job.released)
        /\ paid'[id].provider = pay.provider /\ paid'[id].treasury = pay.treasury
    BY <1>1, <1>6 DEF Refunded, Payment
  <2>3. pay.client + (job.budget - job.released) = job.budget - job.released
    BY <1>2, <1>3
  <2> QED
    BY <1>3, <2>1, <2>2, <2>3 DEF MilestoneInv, Terminal
<1> QED
  BY <1>4, <1>5, <1>6

(***************************************************************************)
(* Approving a milestone releases its amount, and completes the job when   *)
(* nothing is left.                                                        *)
(***************************************************************************)
LEMMA ApproveKeepsMilestoneInv ==
    ASSUME IInv, NEW caller, NEW id \in DOMAIN milestones,
           NEW idx \in DOMAIN milestones[id], approve_milestone(caller, id, idx),
           MilestoneInv(jobs[id], paid[id], milestones[id])
    PROVE  MilestoneInv(jobs'[id], paid'[id], milestones'[id])
<1> DEFINE job      == jobs[id]
           pay      == paid[id]
           plan     == milestones[id]
           amount   == plan[idx].amount
           fee      == compute_fee(amount, job.fee_bps)
           released == job.released + amount
           status   == IF released >= job.budget THEN "Completed" ELSE job.status
<1>1. /\ id \in JobIds /\ id \in DOMAIN jobs /\ id \in DOMAIN paid
      /\ job \in Job /\ pay \in Payment
      /\ plan \in Seq(Milestone) /\ \A i \in DOMAIN plan : plan[i].amount > 0
  BY ElementOfSeq, LenProperties DEF IInv, TypeOK, JobsOK, PaidOK, JobIds, MilestonesOK
<1>2. /\ job.status \in {"Funded", "Submitted"} /\ ~plan[idx].approved
      /\ milestones'[id] = Approve(plan, idx)
  BY DEF approve_milestone, Approve
<1>3. /\ jobs'[id].released = released /\ jobs'[id].status = status
      /\ jobs'[id].budget = job.budget
  BY <1>1 DEF approve_milestone, Job
<1>4. paid'[id] = [client   |-> pay.client + 0,
                   provider |-> pay.provider + (amount - fee),
                   treasury |-> pay.treasury + fee]
  BY <1>1 DEF approve_milestone, Disburse
<1>5. /\ job.budget \in Nat /\ job.released \in Nat /\ job.fee_bps \in 0..MAX_FEE_BPS
      /\ pay.client \in Nat /\ pay.provider \in Nat /\ pay.treasury \in Nat
  BY <1>1 DEF Job, Payment
<1>6. /\ PlanTotal(plan) = job.budget
      /\ job.released = ApprovedTotal(plan) /\ job.released < job.budget
      /\ pay.client = 0 /\ pay.provider + pay.treasury = job.released
  BY <1>2 DEF MilestoneInv, Terminal
<1> PICK new : new = milestones'[id]
  OBVIOUS
<1>7. /\ new \in Seq(Milestone) /\ \A k \in DOMAIN new : new[k].amount > 0
      /\ PlanTotal(new) = job.budget
      /\ ApprovedTotal(new) = released
  <2>1. /\ new \in Seq(Milestone) /\ \A k \in DOMAIN new : new[k].amount > 0
        /\ PlanTotal(new) = PlanTotal(plan)
        /\ ApprovedTotal(new) = ApprovedTotal(plan) + plan[idx].amount
    BY <1>1, <1>2, OneMoreApproved
  <2> QED
    BY <1>6, <2>1
<1>8. /\ released \in Nat /\ released <= job.budget
      /\ released = job.budget <=> Approvals(new) = DOMAIN new
  BY <1>7, PlanSums
<1>9. amount \in Nat
  BY <1>1, PlanSums
<1>10. fee \in 0..amount
  BY <1>5, <1>9, FeeBounds
<1> HIDE DEF fee, amount
<1>11. /\ paid'[id].client = 0
       /\ paid'[id].provider + paid'[id].treasury = released
  <2>1. (pay.provider + (amount - fee)) + (pay.treasury + fee)
           = (pay.provider + pay.treasury) + amount
    BY <1>5, <1>9, <1>10
  <2> QED
    BY <1>4, <1>6, <2>1
<1> HIDE DEF released
<1>12. CASE released >= job.budget
  <2>1. jobs'[id].status = "Completed" /\ Approvals(new) = DOMAIN new
    BY <1>3, <1>5, <1>8, <1>12
  <2> QED
    BY <1>3, <1>7, <2>1 DEF MilestoneInv, Terminal
<1>13. CASE ~(released >= job.budget)
  <2>1. jobs'[id].status = job.status /\ released < job.budget
    BY <1>3, <1>5, <1>8, <1>13
  <2> QED
    BY <1>2, <1>3, <1>7, <1>11, <2>1 DEF MilestoneInv, Terminal
<1> QED
  BY <1>12, <1>13

(***************************************************************************)
(* Submitting a milestone changes neither amounts nor approvals.           *)
(***************************************************************************)
Deliver(plan, i, d) == [plan EXCEPT ![i].deliverable = d]

LEMMA SubmitKeepsApprovals ==
    ASSUME NEW plan \in Seq(Milestone), NEW i \in DOMAIN plan, NEW d,
           NEW new, new = Deliver(plan, i, d)
    PROVE  /\ DOMAIN new = DOMAIN plan
           /\ \A k \in DOMAIN plan : new[k].approved = plan[k].approved
           /\ Approvals(new) = Approvals(plan)
           /\ PlanTotal(new) = PlanTotal(plan)
           /\ ApprovedTotal(new) = ApprovedTotal(plan)
<1>1. \A k \in DOMAIN plan : plan[k] \in Milestone
  BY ElementOfSeq, LenProperties
<1>2. /\ DOMAIN new = DOMAIN plan
      /\ \A k \in DOMAIN plan : /\ new[k].amount = plan[k].amount
                                /\ new[k].approved = plan[k].approved
  BY <1>1 DEF Milestone, Deliver
<1>3. Amounts(new) = Amounts(plan) /\ Approvals(new) = Approvals(plan)
  BY <1>2 DEF Amounts, Approvals
<1> QED
  BY <1>2, <1>3 DEF PlanTotal, ApprovedTotal

LEMMA MilestonesKeepMilestonesInv ==
    ASSUME IInv, MilestonesInv, MilestoneNext,
           \A plan \in MilestonePlans : Approvals(plan) = {}
    PROVE  MilestonesInv'
<1>1. /\ JobsOK /\ PaidOK /\ MilestonesOK
      /\ \A id \in DOMAIN milestones : /\ id \in JobIds
                                       /\ milestones[id] \in Seq(Milestone)
  BY DEF IInv, TypeOK, MilestonesOK
<1>2. CASE CreateMilestones
  <2> PICK new \in Nat : new = Len(jobs) + 1
    BY <1>1, LenProperties DEF JobsOK
  <2>1. PICK plan \in MilestonePlans :
             /\ Created /\ new \in JobIds' /\ new \notin JobIds
             /\ jobs'[new].budget = PlanTotal(plan)
             /\ milestones' = [id \in DOMAIN milestones \cup {new} |->
                                IF id \in DOMAIN milestones THEN milestones[id]
                                                            ELSE plan]
    BY <1>2, CreateMilestonesCreates
  <2>2. /\ \A id \in DOMAIN milestones : /\ jobs'[id] = jobs[id] /\ paid'[id] = paid[id]
                                         /\ milestones'[id] = milestones[id]
        /\ DOMAIN milestones' = DOMAIN milestones \cup {new}
        /\ milestones'[new] = plan
    BY <1>1, <2>1 DEF Created
  <2>3. /\ jobs'[new].status = "Funded" /\ jobs'[new].released = 0
        /\ paid'[new] = NoPayment
        /\ jobs'[new].budget \in Nat \ {0}
    <3>1. JobsOK'
      BY <2>1 DEF Created
    <3>2. jobs'[new] \in Job
      BY <2>1, <3>1, ElementOfSeq, LenProperties DEF JobsOK, JobIds
    <3> QED
      BY <2>1, <3>2 DEF Created, Job
  <2>4. ApprovedTotal(plan) = 0
    BY SumEmpty DEF ApprovedTotal
  <2>5. MilestoneInv(jobs'[new], paid'[new], plan)
    BY <2>1, <2>3, <2>4 DEF MilestoneInv, NoPayment, Terminal
  <2> QED
    BY <2>2, <2>5 DEF MilestonesInv, MilestoneInv
<1>3. ASSUME NEW caller \in Addr, NEW id \in DOMAIN milestones,
             MilestoneStep(caller, id)
      PROVE  MilestonesInv'
  <2>1. ASSUME MilestoneInv(jobs'[id], paid'[id], milestones'[id]),
               DOMAIN milestones' = DOMAIN milestones,
               \A k \in DOMAIN milestones \ {id} :
                  /\ jobs'[k] = jobs[k] /\ paid'[k] = paid[k]
                  /\ milestones'[k] = milestones[k]
        PROVE  MilestonesInv'
    BY <2>1 DEF MilestonesInv, MilestoneInv
  <2>2. ASSUME NEW idx \in DOMAIN milestones[id], NEW d,
               submit_milestone(caller, id, idx, d)
        PROVE  MilestonesInv'
    <3>1. /\ UNCHANGED <<jobs, paid>> /\ DOMAIN milestones' = DOMAIN milestones
          /\ milestones'[id] = Deliver(milestones[id], idx, d)
          /\ \A k \in DOMAIN milestones \ {id} : milestones'[k] = milestones[k]
      BY <2>2 DEF submit_milestone, Deliver
    <3>2. /\ DOMAIN milestones'[id] = DOMAIN milestones[id]
          /\ Approvals(milestones'[id]) = Approvals(milestones[id])
          /\ PlanTotal(milestones'[id]) = PlanTotal(milestones[id])
          /\ ApprovedTotal(milestones'[id]) = ApprovedTotal(milestones[id])
      BY <1>1, <3>1, SubmitKeepsApprovals
    <3>3. MilestoneInv(jobs'[id], paid'[id], milestones'[id])
      BY <3>1, <3>2 DEF MilestonesInv, MilestoneInv
    <3> QED
      BY <2>1, <3>1, <3>3
  <2>3. ASSUME NEW idx \in DOMAIN milestones[id], approve_milestone(caller, id, idx)
        PROVE  MilestonesInv'
    <3>1. /\ DOMAIN milestones' = DOMAIN milestones
          /\ \A k \in DOMAIN milestones \ {id} :
                /\ jobs'[k] = jobs[k] /\ paid'[k] = paid[k]
                /\ milestones'[k] = milestones[k]
      BY <1>1, <2>3, LenProperties
      DEF approve_milestone, Disburse, JobsOK, PaidOK, JobIds
    <3>2. MilestoneInv(jobs'[id], paid'[id], milestones'[id])
      BY <2>3, ApproveKeepsMilestoneInv DEF MilestonesInv
    <3> QED
      BY <2>1, <3>1, <3>2
  <2>4. CASE cancel_uncompleted_milestones(caller, id)
    <3>1. Refunded(id) /\ UNCHANGED milestones
      BY <1>1, <2>4, RefundRefunds DEF cancel_uncompleted_milestones, IInv, TypeOK
    <3>2. \A k \in JobIds \ {id} : jobs'[k] = jobs[k] /\ paid'[k] = paid[k]
      BY <3>1 DEF Refunded, OnlyJob
    <3>3. MilestoneInv(jobs'[id], paid'[id], milestones[id])
      BY <3>1, JobStepKeepsMilestoneInv DEF MilestonesInv
    <3> QED
      BY <1>1, <2>1, <3>1, <3>2, <3>3
  <2> QED
    BY <1>3, <2>2, <2>3, <2>4 DEF MilestoneStep
<1> QED
  BY <1>2, <1>3 DEF MilestoneNext

LEMMA NextKeepsMilestonesInv ==
    ASSUME IInv, MilestonesInv, [Next]_vars,
           \A plan \in MilestonePlans : Approvals(plan) = {}
    PROVE  MilestonesInv'
<1>1. \A id \in DOMAIN milestones : id \in JobIds
  BY DEF IInv, TypeOK, MilestonesOK
<1>2. CASE UNCHANGED <<jobs, paid, milestones>>
  BY <1>2 DEF MilestonesInv, MilestoneInv
<1>3. CASE JobNext /\ UNCHANGED <<milestones, channelVars>>
  <2>1. ASSUME \A k \in DOMAIN milestones :
                  MilestoneInv(jobs'[k], paid'[k], milestones[k])
        PROVE  MilestonesInv'
    BY <1>3, <2>1 DEF MilestonesInv, MilestoneInv
  <2>2. CASE Created
    BY <1>1, <2>1, <2>2 DEF Created, MilestonesInv
  <2>3. ASSUME NEW id \in JobIds, Moved(id) \/ PaidOut(id) \/ Refunded(id)
        PROVE  MilestonesInv'
    <3>1. \A k \in JobIds \ {id} : jobs'[k] = jobs[k] /\ paid'[k] = paid[k]
      BY <2>3 DEF Moved, PaidOut, Refunded, OnlyJob
    <3>2. id \in DOMAIN milestones => MilestoneInv(jobs'[id], paid'[id], milestones[id])
      BY <2>3, JobStepKeepsMilestoneInv DEF MilestonesInv
    <3> QED
      BY <1>1, <2>1, <3>1, <3>2 DEF MilestonesInv
  <2> QED
    BY <1>2, <1>3, <2>2, <2>3, JobNextKeeps
<1>4. CASE MilestoneNext
  BY <1>4, MilestonesKeepMilestonesInv
<1> QED
  BY <1>2, <1>3, <1>4 DEF Next, vars, jobVars

(***************************************************************************)
(* Unless the client hands in milestones that are approved already, an     *)
(* open milestone job has released what its evaluator approved, cancelling *)
(* it refunds the rest, and the last approval completes it.                *)
(***************************************************************************)
THEOREM MilestonesAreReleased ==
    ASSUME \A plan \in MilestonePlans : Approvals(plan) = {}
    PROVE  Spec => []MilestonesReleased
<1>1. IInv /\ MilestonesInv /\ [Next]_vars => MilestonesInv'
  BY NextKeepsMilestonesInv
<1>2. Init => MilestonesInv
  BY DEF Init, MilestoneInit, MilestonesInv
<1>3. ASSUME IInv, MilestonesInv
      PROVE  MilestonesReleased
  <2> SUFFICES ASSUME NEW id \in DOMAIN milestones
               PROVE  /\ jobs[id].status \notin Terminal =>
                            /\ jobs[id].released = ApprovedTotal(milestones[id])
                            /\ Disbursed(id) = jobs[id].released
                      /\ jobs[id].status = "Cancelled" =>
                            /\ Disbursed(id) = jobs[id].budget
                            /\ paid[id].client =
                                  jobs[id].budget - ApprovedTotal(milestones[id])
                      /\ jobs[id].deliverable_hash = ZeroHash =>
                            (jobs[id].status = "Completed"
                               <=> Approvals(milestones[id]) = DOMAIN milestones[id])
    BY DEF MilestonesReleased, ApprovedAmount, Approved, ApprovedTotal, Approvals
  <2>1. /\ jobs[id] \in Job /\ paid[id] \in Payment
        /\ milestones[id] \in Seq(Milestone)
        /\ \A i \in DOMAIN milestones[id] : milestones[id][i].amount > 0
    BY <1>3, ElementOfSeq, LenProperties
    DEF IInv, TypeOK, JobsOK, PaidOK, JobIds, MilestonesOK
  <2>2. /\ jobs[id].budget \in Nat /\ jobs[id].released \in Nat
        /\ jobs[id].status \in JobStatus
        /\ paid[id].client \in Nat /\ paid[id].provider \in Nat
        /\ paid[id].treasury \in Nat
    BY <2>1 DEF Job, Payment
  <2>3. /\ ApprovedTotal(milestones[id]) \in Nat
        /\ ApprovedTotal(milestones[id]) = PlanTotal(milestones[id])
              <=> Approvals(milestones[id]) = DOMAIN milestones[id]
    BY <2>1, PlanSums
  <2>4. MilestoneInv(jobs[id], paid[id], milestones[id])
    BY <1>3 DEF MilestonesInv
  <2>5. Disbursed(id) = paid[id].client + (paid[id].provider + paid[id].treasury)
    BY <2>2 DEF Disbursed
  <2>6. CASE jobs[id].status \notin Terminal
    BY <2>2, <2>3, <2>4, <2>5, <2>6 DEF MilestoneInv, Terminal
  <2>7. CASE jobs[id].status = "Cancelled"
    BY <2>2, <2>3, <2>4, <2>5, <2>7 DEF MilestoneInv, Terminal
  <2>8. CASE jobs[id].status = "Completed"
    BY <2>4, <2>8 DEF MilestoneInv, Terminal
  <2> QED
    BY <2>6, <2>7, <2>8 DEF Terminal
<1> QED
  BY <1>1, <1>2, <1>3, Invariant, PTL DEF Spec

\* A milestone that has been delivered, or approved, comes after approved ones.
PlanInOrder(plan) ==
    \A i \in DOMAIN plan :
       plan[i].approved \/ plan[i].deliverable # Blank =>
          \A k \in 1..(i - 1) : plan[k].approved

PlansInOrder == \A id \in DOMAIN milestones : PlanInOrder(milestones[id])

(***************************************************************************)
(* If no milestone is handed in as approved or delivered, each is paid     *)
(* after all those before it, although each submission consults only its   *)
(* predecessor.                                                            *)
(***************************************************************************)
THEOREM MilestonesArePaidInOrder ==
    ASSUME \A plan \in MilestonePlans : \A i \in DOMAIN plan :
              ~plan[i].approved /\ plan[i].deliverable = Blank
    PROVE  Spec => []MilestonesInOrder
<1>1. ASSUME IInv, PlansInOrder, [Next]_vars
      PROVE  PlansInOrder'
  <2>1. CASE UNCHANGED milestones
    BY <1>1, <2>1 DEF PlansInOrder, PlanInOrder
  <2>2. CASE CreateMilestones
    <3> PICK new : new = Len(jobs) + 1
      OBVIOUS
    <3>1. PICK plan \in MilestonePlans :
               milestones' = [id \in DOMAIN milestones \cup {new} |->
                               IF id \in DOMAIN milestones THEN milestones[id]
                                                           ELSE plan]
      BY <1>1, <2>2, CreateMilestonesCreates
    <3>2. PlanInOrder(plan)
      BY DEF PlanInOrder
    <3> QED
      BY <1>1, <3>1, <3>2 DEF PlansInOrder, PlanInOrder
  <2>3. ASSUME NEW id \in DOMAIN milestones, NEW idx \in DOMAIN milestones[id],
               NEW m, m.approved \/ m.deliverable # Blank,
               milestones[id][idx].approved => m.approved,
               milestones' = [milestones EXCEPT ![id] = [@ EXCEPT ![idx] = m]],
               \A k \in 1..(idx - 1) : milestones[id][k].approved
        PROVE  PlansInOrder'
    <3> DEFINE old == milestones[id]
               new == [old EXCEPT ![idx] = m]
    <3>1. DOMAIN old = 1..Len(old) /\ Len(old) \in Nat
      BY <1>1, LenProperties DEF IInv, TypeOK, MilestonesOK
    <3>2. /\ DOMAIN new = DOMAIN old
          /\ new[idx] = m /\ \A k \in DOMAIN old \ {idx} : new[k] = old[k]
      OBVIOUS
    <3>3. PlanInOrder(old)
      BY <1>1 DEF PlansInOrder
    <3>4. \A i \in DOMAIN old : \A k \in 1..(i - 1) : k \in DOMAIN old
      BY <3>1
    <3> HIDE DEF new
    <3>5. \A k \in DOMAIN old : old[k].approved => new[k].approved
      BY <2>3, <3>2
    <3>6. PlanInOrder(new)
      BY <2>3, <3>2, <3>3, <3>4, <3>5 DEF PlanInOrder
    <3>7. milestones' = [milestones EXCEPT ![id] = new]
      BY <2>3 DEF new
    <3> QED
      BY <1>1, <3>6, <3>7 DEF PlansInOrder, PlanInOrder
  <2>4. ASSUME NEW caller, NEW id \in DOMAIN milestones,
               NEW idx \in DOMAIN milestones[id],
               approve_milestone(caller, id, idx)
        PROVE  PlansInOrder'
    <3> DEFINE m == [milestones[id][idx] EXCEPT !.approved = TRUE]
    <3>1. milestones[id][idx] \in Milestone
      BY <1>1, ElementOfSeq, LenProperties DEF IInv, TypeOK, MilestonesOK
    <3>2. m.approved
      BY <3>1 DEF Milestone
    <3>3. /\ milestones[id][idx].deliverable # Blank
          /\ milestones' = [milestones EXCEPT ![id] = [@ EXCEPT ![idx] = m]]
      BY <2>4 DEF approve_milestone
    <3>4. \A k \in 1..(idx - 1) : milestones[id][k].approved
      BY <1>1, <3>3 DEF PlansInOrder, PlanInOrder
    <3> HIDE DEF m
    <3> QED
      BY <2>3, <3>2, <3>3, <3>4
  <2>5. ASSUME NEW caller, NEW id \in DOMAIN milestones,
               NEW idx \in DOMAIN milestones[id], NEW d,
               submit_milestone(caller, id, idx, d)
        PROVE  PlansInOrder'
    <3> DEFINE m == [milestones[id][idx] EXCEPT !.deliverable = d]
    <3>1. /\ milestones[id][idx] \in Milestone
          /\ DOMAIN milestones[id] = 1..Len(milestones[id])
          /\ Len(milestones[id]) \in Nat
      BY <1>1, ElementOfSeq, LenProperties DEF IInv, TypeOK, MilestonesOK
    <3>2. m.deliverable # Blank /\ ~milestones[id][idx].approved
      BY <2>5, <3>1 DEF Milestone, submit_milestone
    <3>3. /\ idx > 1 => milestones[id][idx - 1].approved
          /\ milestones' = [milestones EXCEPT ![id] = [@ EXCEPT ![idx] = m]]
      BY <2>5 DEF submit_milestone
    <3>4. \A k \in 1..(idx - 1) : milestones[id][k].approved
      <4> SUFFICES ASSUME NEW k \in 1..(idx - 1)
                   PROVE  milestones[id][k].approved
        OBVIOUS
      <4>1. idx > 1 /\ idx - 1 \in DOMAIN milestones[id]
            /\ (k = idx - 1 \/ k \in 1..((idx - 1) - 1))
        BY <3>1
      <4> QED
        BY <1>1, <3>3, <4>1 DEF PlansInOrder, PlanInOrder
    <3> HIDE DEF m
    <3> QED
      BY <2>3, <3>2, <3>3, <3>4
  <2>6. ASSUME NEW caller, NEW id, cancel_uncompleted_milestones(caller, id)
        PROVE  PlansInOrder'
    BY <2>1, <2>6 DEF cancel_uncompleted_milestones
  <2> QED
    BY <1>1, <2>1, <2>2, <2>4, <2>5, <2>6 DEF Next, vars, MilestoneNext, MilestoneStep
<1>2. Init => PlansInOrder
  BY DEF Init, MilestoneInit, PlansInOrder
<1>3. ASSUME IInv, PlansInOrder
      PROVE  MilestonesInOrder
  <2> SUFFICES ASSUME NEW id \in DOMAIN milestones, NEW i \in Approved(id),
                      NEW k \in 1..i
               PROVE  k \in Approved(id)
    BY DEF MilestonesInOrder
  <2>1. /\ DOMAIN milestones[id] = 1..Len(milestones[id])
        /\ Len(milestones[id]) \in Nat
        /\ i \in DOMAIN milestones[id] /\ milestones[id][i].approved
    BY <1>3, LenProperties DEF IInv, TypeOK, MilestonesOK, Approved
  <2>2. k \in DOMAIN milestones[id] /\ (k = i \/ k \in 1..(i - 1))
    BY <2>1
  <2>3. milestones[id][k].approved
    BY <1>3, <2>1, <2>2 DEF PlansInOrder, PlanInOrder
  <2> QED
    BY <2>2, <2>3 DEF Approved
<1> QED
  BY <1>1, <1>2, <1>3, Invariant, PTL DEF Spec

=============================================================================
