------------------------------ MODULE FeeMath ------------------------------
(***************************************************************************)
(* The arithmetic every settlement of the agentic-commerce contract uses:  *)
(* the platform fee and the SLA penalty.  Amounts are in the smallest unit *)
(* of a token, rates in basis points, times in ledger seconds.             *)
(*                                                                         *)
(* The contract computes in i128 with checked multiplication.  Amounts     *)
(* here are unbounded naturals: the product it checks overflows only above *)
(* i128::MAX / 5000, more than any token can hold.                         *)
(***************************************************************************)
EXTENDS Integers

CONSTANT SECS_PER_HOUR

ASSUME HourAssumption == SECS_PER_HOUR \in Nat \ {0}

DEFAULT_FEE_BPS     == 100
MAX_FEE_BPS         == 500
BPS_DENOM           == 10000
MAX_SLA_PENALTY_BPS == 5000

\* Mutant: the fee is rounded up.
FeeRoundedUp(budget, fee_bps) ==
    (budget * fee_bps + BPS_DENOM - 1) \div BPS_DENOM

(***************************************************************************)
(* Multiply first, then divide; a positive rate on a positive budget is    *)
(* never rounded down to no fee at all.                                    *)
(***************************************************************************)
compute_fee(budget, fee_bps) ==
    LET fee == (budget * fee_bps) \div BPS_DENOM
    IN  IF budget <= 0 \/ fee_bps = 0 THEN 0
        ELSE IF fee = 0 THEN 1 ELSE fee

div_ceil(a, b) == (a + b - 1) \div b

OverdueHours(job) == div_ceil(job.submitted_at - job.sla_deadline, SECS_PER_HOUR)

SlaPenaltyBps(job) ==
    LET raw == OverdueHours(job) * job.penalty_bps_per_hour
    IN  IF raw > MAX_SLA_PENALTY_BPS THEN MAX_SLA_PENALTY_BPS ELSE raw

(***************************************************************************)
(* The part of the budget that goes back to the client of a job submitted  *)
(* after its SLA deadline: so many basis points per started hour, at most  *)
(* half of the budget.                                                     *)
(***************************************************************************)
compute_sla_penalty(job) ==
    IF \/ job.sla_deadline = 0
       \/ job.penalty_bps_per_hour = 0
       \/ job.submitted_at <= job.sla_deadline
    THEN 0
    ELSE (job.budget * SlaPenaltyBps(job)) \div BPS_DENOM

=============================================================================
