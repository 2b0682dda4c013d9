---------------------------- MODULE CommerceBase ----------------------------
(***************************************************************************)
(* What the job escrow and the payment channels of the agentic-commerce    *)
(* contract share: the instance storage the admin configures, the ledger's *)
(* clock, and the contract's own balance of each token.                    *)
(*                                                                         *)
(* A contract call is atomic: a panic rolls every write back, so a guard   *)
(* that fails is an action that is not taken.  Caller authentication is a  *)
(* parameter, caller, compared with the stored party.  The wallets of the  *)
(* parties belong to the token contract and are not modelled: any party    *)
(* can fund what it deposits.                                              *)
(***************************************************************************)
EXTENDS FeeMath, Sequences, FiniteSets

CONSTANTS
    Addr,               \* accounts that call the contract
    Admins,             \* those that are ever made admin
    Treasuries,         \* accounts proposed as a treasury
    ZeroAddr,           \* the all-zero account, refused as a treasury
    NotSet,             \* a storage key that has no value
    Tokens,             \* token contracts
    FeeRates,           \* fee rates an admin asks for, in basis points
    EvalThresholds,     \* multi-evaluator thresholds an admin asks for
    TokenDecimals,      \* decimals an admin gives a token it whitelists
    DefaultDecimals,    \* decimals of a token that is not whitelisted
    AdminOps,           \* the admin entry points a model exercises
    MaxTime             \* bound: the last ledger time

MAX_TOKEN_DECIMALS == 38

ValidDecimals == {n \in TokenDecimals : n <= MAX_TOKEN_DECIMALS}

ASSUME BaseAssumption ==
    /\ NotSet \notin Addr /\ ZeroAddr \notin Addr
    /\ Admins \subseteq Addr /\ Treasuries \subseteq Addr \cup {ZeroAddr}
    /\ FeeRates \subseteq Nat /\ EvalThresholds \subseteq Nat
    /\ TokenDecimals \subseteq Nat
    /\ DefaultDecimals \in Nat
    /\ \A n \in ValidDecimals \cup {DefaultDecimals} : 10 ^ n \in Nat \ {0}
    /\ MaxTime \in Nat

VARIABLES
    config,     \* instance storage: admin, treasury, rates, flags, whitelist
    now,        \* env.ledger().timestamp()
    held        \* token balance of the contract's own address

baseVars == <<config, now, held>>

InitialConfig ==
    [ admin                |-> NotSet,
      treasury             |-> NotSet,
      fee_bps              |-> DEFAULT_FEE_BPS,
      multi_eval_threshold |-> NotSet,
      paused               |-> FALSE,
      channels_paused      |-> FALSE,
      allowed              |-> << >> ]

BaseInit ==
    /\ config = InitialConfig
    /\ now = 1
    /\ held = [t \in Tokens |-> 0]

----------------------------------------------------------------------------
(* Guards the entry points share. *)

initialized == config.admin # NotSet

\* Mutant of require_not_paused.
NeverPaused == TRUE
require_not_paused == ~config.paused

require_channels_not_paused == ~config.channels_paused

\* Nothing is whitelisted yet, or this token is.
TokenAllowed(token) ==
    DOMAIN config.allowed = {} \/ token \in DOMAIN config.allowed

MinimumBudget(token) ==
    10 ^ (IF token \in DOMAIN config.allowed THEN config.allowed[token]
                                             ELSE DefaultDecimals)

require_minimum_job_budget(token, budget) == budget >= MinimumBudget(token)

\* No threshold set means i128::MAX: no job is high-value.
AboveEvalThreshold(budget) ==
    /\ config.multi_eval_threshold # NotSet
    /\ budget > config.multi_eval_threshold

\* token::transfer from the contract: it fails when the balance is too low.
Withdraw(token, amount) ==
    /\ held[token] >= amount
    /\ held' = [held EXCEPT ![token] = @ - amount]

----------------------------------------------------------------------------
(* Admin entry points. *)

init(admin, treasury) ==
    /\ ~initialized
    /\ treasury # ZeroAddr
    /\ config' = [config EXCEPT !.admin = admin, !.treasury = treasury]

re_init(caller, new_admin, new_treasury) ==
    /\ initialized /\ caller = config.admin
    /\ new_treasury # ZeroAddr
    /\ config' = [config EXCEPT !.admin = new_admin, !.treasury = new_treasury]

emergency_pause(caller) ==
    /\ initialized /\ caller = config.admin
    /\ config' = [config EXCEPT !.paused = TRUE]

emergency_unpause(caller) ==
    /\ initialized /\ caller = config.admin
    /\ config' = [config EXCEPT !.paused = FALSE]

pause_channels(caller) ==
    /\ initialized /\ caller = config.admin
    /\ config' = [config EXCEPT !.channels_paused = TRUE]

unpause_channels(caller) ==
    /\ initialized /\ caller = config.admin
    /\ config' = [config EXCEPT !.channels_paused = FALSE]

set_treasury(caller, new_treasury) ==
    /\ initialized /\ caller = config.admin
    /\ new_treasury # ZeroAddr
    /\ config' = [config EXCEPT !.treasury = new_treasury]

\* Mutant: the cap is forgotten.
SetAnyFee(caller, new_bps) ==
    /\ initialized /\ caller = config.admin
    /\ config' = [config EXCEPT !.fee_bps = new_bps]

set_fee_bps(caller, new_bps) ==
    /\ initialized /\ caller = config.admin
    /\ new_bps <= MAX_FEE_BPS
    /\ config' = [config EXCEPT !.fee_bps = new_bps]

set_multi_eval_threshold(caller, threshold) ==
    /\ initialized /\ caller = config.admin
    /\ threshold >= 0
    /\ config' = [config EXCEPT !.multi_eval_threshold = threshold]

add_token(caller, token, decimals) ==
    /\ initialized /\ caller = config.admin
    /\ decimals <= MAX_TOKEN_DECIMALS
    /\ config' = [config EXCEPT !.allowed =
                    [t \in DOMAIN @ \cup {token} |->
                        IF t = token THEN decimals ELSE @[t]]]

remove_token(caller, token) ==
    /\ initialized /\ caller = config.admin
    /\ config' = [config EXCEPT !.allowed =
                    [t \in DOMAIN @ \ {token} |-> @[t]]]

AdminStep(caller) ==
    \/ /\ "re_init" \in AdminOps
       /\ \E a \in Admins, t \in Treasuries : re_init(caller, a, t)
    \/ /\ "pause" \in AdminOps
       /\ \/ emergency_pause(caller)
          \/ emergency_unpause(caller)
    \/ /\ "channels" \in AdminOps
       /\ \/ pause_channels(caller)
          \/ unpause_channels(caller)
    \/ /\ "treasury" \in AdminOps
       /\ \E t \in Treasuries : set_treasury(caller, t)
    \/ /\ "fee" \in AdminOps
       /\ \E bps \in FeeRates : set_fee_bps(caller, bps)
    \/ /\ "threshold" \in AdminOps
       /\ \E n \in EvalThresholds : set_multi_eval_threshold(caller, n)
    \/ /\ "tokens" \in AdminOps
       /\ \E t \in Tokens :
             \/ \E d \in TokenDecimals : add_token(caller, t, d)
             \/ remove_token(caller, t)

\* One ledger closes.
Tick ==
    /\ now < MaxTime
    /\ now' = now + 1
    /\ UNCHANGED <<config, held>>

Admin ==
    /\ \/ \E admin \in Admins, t \in Treasuries : init(admin, t)
       \/ \E caller \in Addr : AdminStep(caller)
    /\ UNCHANGED <<now, held>>

=============================================================================
