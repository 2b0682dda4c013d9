----------------------------- MODULE ContractCalls -----------------------------
(***************************************************************************)
(* The calls the SDK makes of the two contracts: every method of           *)
(* CommerceClient (sdk/src/commerce.ts) and IdentityClient (sdk/src/       *)
(* identity.ts), with what it refuses on its own and the arguments it      *)
(* encodes, against the entry points the contracts export; and the         *)
(* envelopes it prepares for a wallet to sign and sends when they come     *)
(* back.                                                                   *)
(*                                                                         *)
(* An argument is its Soroban type.  The host refuses a call of a function *)
(* that does not exist or has other parameters before the contract runs.   *)
(***************************************************************************)
EXTENDS Naturals, Sequences

CONSTANTS
    LargestAmount,      \* stands for the largest i128; one more does not fit
    MAX_BATCH_JOBS, MAX_EVALUATORS, MAX_MILESTONES      \* 10, 5 and 20 in the code

ASSUME CallsAssumption ==
    {LargestAmount, MAX_BATCH_JOBS, MAX_EVALUATORS, MAX_MILESTONES} \subseteq Nat \ {0}

VARIABLES
    sdkCall,    \* the last call: [method, sent, fn, args]
    envelope    \* a prepared transaction on its way through a wallet

callsVars == <<sdkCall, envelope>>

\* A struct that nativeToScVal encodes as a "map" arrives under strings, where the
\* contract's structs have symbols.
StringMap == "Map<String>"

JobTerms == <<"Address", "Address", "Address", "Address", "i128", "String">>
ById == <<"Address", "u64">>
Page == <<"Address", "u64", "u32">>

\* What agentic-commerce exports ...
CommerceEntryPoints ==
    [ create_job |-> JobTerms \o <<"u64", "u32">>,
      batch_create_jobs |-> <<"Address", "Vec<JobRequest>">>,
      create_job_multi_eval |-> <<"Address", "Address", "Vec<Address>", "u32", "Address", "i128",
                                  "String", "u64", "u32">>,
      submit |-> <<"Address", "u64", "String", "BytesN<32>">>,
      complete |-> <<"Address", "u64", "BytesN<32>">>,
      approve_job |-> ById, cancel |-> ById, dispute |-> ById,
      claim_refund |-> ById, claim_expired |-> ById, force_close |-> ById,
      open_channel |-> <<"Address", "Address", "Address", "i128", "BytesN<32>">>,
      close_channel |-> <<"Address", "u64", "ChannelVoucher", "BytesN<64>">>,
      create_milestone_job |-> JobTerms \o <<"Vec<Milestone>">>,
      submit_milestone |-> <<"Address", "u64", "u32", "String">>,
      approve_milestone |-> <<"Address", "u64", "u32">>,
      cancel_uncompleted_milestones |-> ById,
      set_treasury |-> <<"Address", "Address">>, set_fee_bps |-> <<"Address", "u32">>,
      set_multi_eval_threshold |-> <<"Address", "i128">>,
      get_job |-> <<"u64">>, get_milestones |-> <<"u64">>, get_evaluator_progress |-> <<"u64">>,
      jobs_by_provider |-> Page, jobs_by_client |-> Page, job_count |-> <<>>, fee_bps |-> <<>> ]

\* ... agent-identity ...
IdentityEntryPoints ==
    [ register |-> <<"Address", "String">>,
      update_uri |-> <<"Address", "u64", "String">>,
      update_owner |-> <<"Address", "u64", "Address">>, deregister |-> ById,
      add_delegate |-> <<"Address", "u64", "Address", "u64", "u32">>,
      revoke_delegate |-> <<"Address", "u64", "Address">>,
      get_delegate |-> <<"u64", "Address">>, check_delegate |-> <<"u64", "Address", "u32">>,
      get_agent |-> <<"u64">>, agent_of |-> <<"Address">>, registered_count |-> <<>> ]

\* ... and a token.
TokenEntryPoints ==
    [ allowance |-> <<"Address", "Address">>, balance |-> <<"Address">>,
      approve |-> <<"Address", "Address", "i128", "u32">> ]

Takes(exports, fn, args) == fn \in DOMAIN exports /\ exports[fn] = args
Arrives(fn, args) ==
    \/ Takes(CommerceEntryPoints, fn, args)
    \/ Takes(IdentityEntryPoints, fn, args)
    \/ Takes(TokenEntryPoints, fn, args)

NoSdkCall == [method |-> "none", sent |-> FALSE, fn |-> "none", args |-> <<>>]
CallsInit == sdkCall = NoSdkCall /\ envelope = "none"

-----------------------------------------------------------------------------
(***************************************************************************)
(* A method whose own checks pass (sent) hands fn(args) to invoke,         *)
(* simulate or estimateOperationFee.                                       *)
(***************************************************************************)
Sends(method, sent, fn, args) ==
    /\ sdkCall' = [method |-> method, sent |-> sent, fn |-> fn, args |-> args]
    /\ UNCHANGED envelope
Calling(method, fn, args) == Sends(method, TRUE, fn, args)

\* 0 stands for what is not positive.
SomeAmounts == 0..(LargestAmount + 1)
ValidAmount(amount) == amount \in 1..LargestAmount

\* What a wallet is to sign: the envelope exists when the call could be simulated.
Prepare(method, sent, fn, args) ==
    /\ sdkCall' = [method |-> method, sent |-> sent, fn |-> fn, args |-> args]
    /\ envelope' \in {"none"} \cup IF sent /\ Arrives(fn, args) THEN {"prepared"} ELSE {}

(* Creating jobs *)

createJob ==
    \E budget \in SomeAmounts :
        Sends("createJob", ValidAmount(budget), "create_job", JobTerms \o <<"u64", "u32">>)

\* createJobAndWait is createJob, createJobWithApproval is approveAndCreateJob.
createJobAndWait == createJob

batchCreateJobs ==
    \E count \in 0..(MAX_BATCH_JOBS + 1), least, most \in SomeAmounts :
        Sends("batchCreateJobs",
              count \in 1..MAX_BATCH_JOBS /\ ValidAmount(least) /\ ValidAmount(most),
              "batch_create_jobs", <<"Address", "Vec<Map<String>>">>)

createJobMultiEval ==
    \E budget \in SomeAmounts, evaluators, threshold \in 0..(MAX_EVALUATORS + 1),
       unique \in BOOLEAN :
        Sends("createJobMultiEval",
              /\ ValidAmount(budget) /\ unique
              /\ evaluators \in 1..MAX_EVALUATORS /\ threshold \in 1..evaluators,
              "create_job_multi_eval",
              <<"Address", "Address", "Vec<Address>", "u32", "Address", "i128", "String">>)

estimateCreateJobFee == Calling("estimateCreateJobFee", "create_job", JobTerms)

\* The sum of the amounts is compared with the budget, the amounts one by one are
\* left to the contract.
createMilestoneJob ==
    \E budget, total \in SomeAmounts, count \in 0..(MAX_MILESTONES + 1) :
        Sends("createMilestoneJob",
              ValidAmount(budget) /\ count \in 1..MAX_MILESTONES /\ total = budget,
              "create_milestone_job", JobTerms \o <<"Vec<Map<String>>">>)

\* approveAndCreateJob reads the allowance, approves the budget when it is short,
\* and creates the job.
allowanceOf == Calling("allowance", "allowance", <<"Address", "Address">>)
approve == Calling("approve", "approve", <<"Address", "Address", "i128", "u32">>)
approveAndCreateJob == allowanceOf \/ approve \/ createJob
createJobWithApproval == approveAndCreateJob

(* Working on jobs *)

\* The hash is the caller's or that of the text; it is 32 bytes or refused.
submit ==
    \E length \in {31, 32} :
        Sends("submit", length = 32, "submit", <<"Address", "u64", "String", "BytesN<32>">>)

\* The hash is an argument only when the caller gives one.
CompleteArgs(hashGiven) == ById \o IF hashGiven THEN <<"BytesN<32>">> ELSE <<>>
complete ==
    \E hashGiven \in BOOLEAN :
        Calling(IF hashGiven THEN "complete" ELSE "completeWithoutAHash", "complete",
                CompleteArgs(hashGiven))

approveJob == Calling("approveJob", "approve_job", ById)
cancel == Calling("cancel", "cancel", ById)
dispute == Calling("dispute", "dispute", ById)
claimRefund == Calling("claimRefund", "claim_refund", ById)
claimExpired == Calling("claimExpired", "claim_expired", ById)
submitMilestone ==
    Calling("submitMilestone", "submit_milestone",
            <<"Address", "u64", "u32", "String", "BytesN<32>">>)
approveMilestone == Calling("approveMilestone", "approve_milestone", <<"Address", "u64", "u32">>)
cancelUncompletedMilestones ==
    Calling("cancelUncompletedMilestones", "cancel_uncompleted_milestones", ById)

(* Channels *)

\* Mutant: the voucher key of the channel is left out.
OpenWithoutKey ==
    \E deposit \in SomeAmounts :
        Sends("openChannel", ValidAmount(deposit), "open_channel",
              <<"Address", "Address", "Address", "i128">>)

openChannel ==
    \E deposit \in SomeAmounts :
        Sends("openChannel", ValidAmount(deposit), "open_channel",
              <<"Address", "Address", "Address", "i128", "BytesN<32>">>)

\* A voucher of another channel is not sent; the contract would not take it.
closeChannel ==
    \E itsChannel \in BOOLEAN :
        Sends("closeChannel", itsChannel, "close_channel",
              <<"Address", "u64", StringMap, "BytesN<64>">>)

forceClose == Calling("forceClose", "force_close", ById)

(* Administration *)

setMultiEvalThreshold ==
    \E negative, tooLarge \in BOOLEAN :
        Sends("setMultiEvalThreshold", ~negative /\ ~tooLarge, "set_multi_eval_threshold",
              <<"Address", "i128">>)
setTreasury == Calling("setTreasury", "set_treasury", <<"Address", "Address">>)
setFeeBps == Calling("setFeeBps", "set_fee_bps", <<"Address", "u32">>)

(* Reading *)

getJob == Calling("getJob", "get_job", <<"u64">>)
getMilestones == Calling("getMilestones", "get_milestones", <<"u64">>)
getEvaluatorProgress == Calling("getEvaluatorProgress", "get_evaluator_progress", <<"u64">>)
jobsByProvider == Calling("jobsByProvider", "jobs_by_provider", Page)
getJobsByClient == Calling("getJobsByClient", "jobs_by_client", Page)
jobCount == Calling("jobCount", "job_count", <<>>)
feeBps == Calling("feeBps", "fee_bps", <<>>)
\* The native balance is asked of the node, any other of its token.
getBalance == Calling("getBalance", "balance", <<"Address">>)

-----------------------------------------------------------------------------
(* IdentityClient *)

\* A uri the SDK refuses (a private host, another scheme) the contract would take.
register ==
    \E validUri \in BOOLEAN :
        Sends("register", validUri, "register", <<"Address", "String">>)
updateUri ==
    \E validUri \in BOOLEAN :
        Sends("updateUri", validUri, "update_uri", <<"Address", "u64", "String">>)
updateOwner == Calling("updateOwner", "update_owner", <<"Address", "u64", "Address">>)
deregister == Calling("deregister", "deregister", ById)
addDelegate ==
    Calling("addDelegate", "add_delegate", <<"Address", "u64", "Address", "u64", "u32">>)
revokeDelegate == Calling("revokeDelegate", "revoke_delegate", <<"Address", "u64", "Address">>)
getDelegate == Calling("getDelegate", "get_delegate", <<"u64", "Address">>)
\* Every error, a lost connection too, is the answer no.
checkDelegate == Calling("checkDelegate", "check_delegate", <<"u64", "Address", "u32">>)
getAgent == Calling("getAgent", "get_agent", <<"u64">>)
agentOf == Calling("agentOf", "agent_of", <<"Address">>)
\* agentOf, then getAgent.
getAgentByOwner == agentOf \/ getAgent
balanceOf == Calling("balanceOf", "balance", <<"Address">>)
registeredCount == Calling("registeredCount", "registered_count", <<>>)
getBadges == Calling("getBadges", "get_badges", <<"u64">>)
\* listAgents asks for the ids 1 to 200, one after the other.
listAgents == getAgent

-----------------------------------------------------------------------------
(* Transactions for a wallet to sign *)

prepareCreateJob ==
    \E budget \in SomeAmounts :
        Prepare("prepareCreateJob", ValidAmount(budget), "create_job", JobTerms)
prepareSubmit ==
    Prepare("prepareSubmit", TRUE, "submit", <<"Address", "u64", "String", "BytesN<32>">>)
prepareComplete ==
    \E hashGiven \in BOOLEAN :
        Prepare(IF hashGiven THEN "prepareComplete" ELSE "prepareCompleteWithoutAHash",
                TRUE, "complete", CompleteArgs(hashGiven))

\* submitSignedXdr: refused at once, or on its way.
submitSignedXdr ==
    /\ envelope = "prepared" /\ envelope' \in {"error", "sent"}
    /\ UNCHANGED sdkCall
\* External: the ledger executes it, or it fails, or its time bound passes.
EnvelopeIncluded ==
    /\ envelope \in {"sent", "givenUp"}
    /\ envelope' \in IF envelope = "sent" THEN {"SUCCESS", "FAILED"} ELSE {"landedLate"}
    /\ UNCHANGED sdkCall
\* The poll finds it, or gives up after pollTimeoutMs with the transaction out there.
PollEnvelope ==
    /\ envelope \in {"sent", "SUCCESS", "FAILED"}
    /\ envelope' = CASE envelope = "SUCCESS" -> "reported"
                     [] envelope = "FAILED" -> "error"
                     [] OTHER -> "givenUp"
    /\ UNCHANGED sdkCall

CommerceCalls ==
    \/ createJob \/ batchCreateJobs \/ createJobMultiEval \/ estimateCreateJobFee
    \/ createMilestoneJob \/ createJobAndWait \/ createJobWithApproval
    \/ submit \/ complete \/ approveJob \/ cancel \/ dispute \/ claimRefund \/ claimExpired
    \/ submitMilestone \/ approveMilestone \/ cancelUncompletedMilestones
    \/ openChannel \/ closeChannel \/ forceClose
    \/ setMultiEvalThreshold \/ setTreasury \/ setFeeBps
    \/ getJob \/ getMilestones \/ getEvaluatorProgress \/ jobsByProvider \/ getJobsByClient
    \/ jobCount \/ feeBps \/ getBalance

IdentityMethods ==
    \/ register \/ updateUri \/ updateOwner \/ deregister
    \/ addDelegate \/ revokeDelegate \/ getDelegate \/ checkDelegate
    \/ getAgent \/ agentOf \/ getAgentByOwner \/ listAgents \/ balanceOf
    \/ registeredCount \/ getBadges

EnvelopeCalls ==
    \/ prepareCreateJob \/ prepareSubmit \/ prepareComplete
    \/ submitSignedXdr \/ EnvelopeIncluded \/ PollEnvelope

CallsNext == CommerceCalls \/ IdentityMethods \/ EnvelopeCalls

CallsTypeOK ==
    /\ sdkCall.sent \in BOOLEAN
    /\ envelope \in {"none", "prepared", "sent", "SUCCESS", "FAILED", "reported", "error",
                     "givenUp", "landedLate"}

-----------------------------------------------------------------------------
\* The methods whose call the host refuses, whatever its values: they leave out
\* arguments, or add one, or name a function that is not there, or encode a struct
\* under keys of another type.
Misfits ==
    {"createJobMultiEval", "estimateCreateJobFee", "prepareCreateJob", "submitMilestone",
     "completeWithoutAHash", "prepareCompleteWithoutAHash", "getBadges",
     "batchCreateJobs", "createMilestoneJob", "closeChannel"}

\* The SDK and the contracts agree, although each states the calls and their checks
\* for itself: every call that is sent fits an entry point, except those of Misfits,
\* which the code has; another method that drifts from its entry point is one too many.
\* Of Misfits none gets there: no batch, no milestone job and no channel's closing
\* goes through the SDK as it stands.
CallsReachContract ==
    /\ sdkCall.sent /\ sdkCall.method \notin Misfits => Arrives(sdkCall.fn, sdkCall.args)
    /\ sdkCall.method \in Misfits /\ sdkCall.sent => ~Arrives(sdkCall.fn, sdkCall.args)
=============================================================================
