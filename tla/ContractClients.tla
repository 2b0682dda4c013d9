--------------------------- MODULE ContractClients ---------------------------
(***************************************************************************)
(* The SDK's contract clients: CommerceClient (sdk/src/commerce.ts) and    *)
(* IdentityClient (sdk/src/identity.ts).  Most of their methods build one  *)
(* contract call and hand it to invoke or simulate, which TxSubmission     *)
(* models; here an invocation is one step with the outcomes invoke has.    *)
(* What takes several calls, or keeps state, is modelled step by step:     *)
(* approveAndCreateJob, listJobs, getAgentByOwner, payment channel         *)
(* sessions with their vouchers, and the transfer of an agent that two     *)
(* wallets sign.                                                           *)
(***************************************************************************)
EXTENDS Naturals, Sequences, FiniteSets

CONSTANTS
    Apps,           \* callers of approveAndCreateJob, sharing one wallet
    MaxBudget,      \* the largest budget, deposit and voucher amount tried
    MaxJobs,        \* jobs ever created
    MaxPolls        \* polls of a two-signature transaction that are counted

ASSUME ClientsAssumption == {MaxBudget, MaxJobs, MaxPolls} \subseteq Nat \ {0}

VARIABLES
    allowance,  \* external: what the wallet allows the contract to take
    jobs,       \* external: the client that asked for each job, by job id
    app,        \* calls of approveAndCreateJob
    listing,    \* a call of listJobs
    session,    \* a PaymentChannelSession
    vouchers,   \* the vouchers the session has signed, in order
    channel,    \* external: the channel on the ledger
    owner,      \* external: owner of the agent, "none" when deregistered
    lookup,     \* a call of getAgentByOwner
    transfer    \* a call of updateOwner

jobVars == <<allowance, jobs, app, listing>>
channelVars == <<session, vouchers, channel>>
identityVars == <<owner, lookup, transfer>>
clientVars == <<jobVars, channelVars, identityVars>>

Amounts == 0..MaxBudget
NoSession == [deposit |-> 0, amount |-> 0, nonce |-> 0]

ClientsStart(allowed, agentOwner) ==
    /\ allowance = allowed /\ owner = agentOwner /\ jobs = <<>>
    /\ app = [a \in Apps |-> [pc |-> "idle", budget |-> 0, seen |-> 0, result |-> "none"]]
    /\ listing = [pc |-> "idle", count |-> 0, got |-> {}]
    /\ session = NoSession /\ vouchers = <<>>
    /\ channel = [deposit |-> 0, amount |-> 0, nonce |-> 0]
    /\ lookup = [pc |-> "idle", result |-> "none"]
    /\ transfer = [pc |-> "idle", polls |-> 0]

ClientsInit == \E allowed \in Amounts, o \in {"none", "old"} : ClientsStart(allowed, o)

-----------------------------------------------------------------------------
(* Jobs *)

\* approveAndCreateJob checks the budget before it does anything.
ApproveAndCreate(a) ==
    /\ app[a].pc = "idle"
    /\ \E budget \in Amounts :
         app' = IF budget = 0
                THEN [app EXCEPT ![a].pc = "done", ![a].result = "error"]
                ELSE [app EXCEPT ![a].pc = "allowance", ![a].budget = budget]
    /\ UNCHANGED <<allowance, jobs, listing>>

\* allowance is read; an allowance that cannot be read counts as none.
ReadAllowance(a) ==
    /\ app[a].pc = "allowance"
    /\ \E seen \in {allowance, 0} :
         app' = [app EXCEPT ![a].seen = seen,
                   ![a].pc = IF seen < app[a].budget THEN "approve" ELSE "create"]
    /\ UNCHANGED <<allowance, jobs, listing>>

\* approve sets the allowance, whatever it was before.  It can take effect and
\* fail all the same, when its confirmation is not seen in time.
Approve(a) ==
    /\ app[a].pc = "approve"
    /\ \/ /\ allowance' = app[a].budget
          /\ app' = [app EXCEPT ![a].pc = "create"]
       \/ /\ allowance' \in {allowance, app[a].budget}
          /\ app' = [app EXCEPT ![a].pc = "done", ![a].result = "error"]
    /\ UNCHANGED <<jobs, listing>>

\* createJob: the contract moves the budget on the client's own authority and
\* leaves the allowance alone.  The job can exist although createJob throws.
CreateJob(a) ==
    /\ app[a].pc = "create"
    /\ \/ /\ Len(jobs) < MaxJobs
          /\ jobs' = Append(jobs, a)
          /\ \E result \in {"job", "error"} :
               app' = [app EXCEPT ![a].pc = "done", ![a].result = result]
       \/ /\ app' = [app EXCEPT ![a].pc = "done", ![a].result = "error"]
          /\ UNCHANGED jobs
    /\ UNCHANGED <<allowance, listing>>

\* listJobs reads the count, then every job up to it, all at once; the answers
\* come from later ledgers, and an id without a job is left out.
CountJobs ==
    /\ listing.pc = "idle"
    /\ listing' = IF jobs = <<>> THEN [listing EXCEPT !.pc = "done"]
                  ELSE [listing EXCEPT !.pc = "reading", !.count = Len(jobs)]
    /\ UNCHANGED <<allowance, jobs, app>>

ReadJobs ==
    /\ listing.pc = "reading"
    /\ listing' = [listing EXCEPT !.pc = "done", !.got = 1..listing.count]
    /\ UNCHANGED <<allowance, jobs, app>>

-----------------------------------------------------------------------------
(* Payment channel sessions *)

\* openChannel: the session exists only when the invocation returned; a channel
\* whose invocation failed late is open and nobody holds its id.
OpenChannel ==
    /\ session = NoSession /\ channel.deposit = 0
    /\ \E deposit \in Amounts \ {0} :
         /\ channel' = [channel EXCEPT !.deposit = deposit]
         /\ session' \in {NoSession, [NoSession EXCEPT !.deposit = deposit]}
    /\ UNCHANGED vouchers

\* Mutant: A voucher for the payment alone, not for what was paid in all.
VoucherOfPayment ==
    /\ session # NoSession
    /\ \E payment \in Amounts \ {0} :
         /\ session.amount + payment <= session.deposit
         /\ session' = [session EXCEPT !.amount = @ + payment, !.nonce = @ + 1]
         /\ vouchers' = Append(vouchers, [amount |-> payment, nonce |-> session.nonce + 1])
    /\ UNCHANGED channel

\* createVoucher: the amount is what has been paid in all, the nonce counts up;
\* nothing changes when the deposit would be exceeded.
CreateVoucher ==
    /\ session # NoSession
    /\ \E payment \in Amounts \ {0} :
         /\ session.amount + payment <= session.deposit
         /\ session' = [session EXCEPT !.amount = @ + payment, !.nonce = @ + 1]
         /\ vouchers' = Append(vouchers, [amount |-> session.amount + payment,
                                          nonce |-> session.nonce + 1])
    /\ UNCHANGED channel

\* closeChannel with any voucher signed so far.  The contract takes a voucher
\* that covers no more than the deposit and is newer than the one it has.
CloseChannel ==
    /\ \E i \in DOMAIN vouchers :
         /\ vouchers[i].nonce > channel.nonce
         /\ vouchers[i].amount <= channel.deposit
         /\ channel' = [channel EXCEPT !.amount = vouchers[i].amount, !.nonce = vouchers[i].nonce]
    /\ UNCHANGED <<session, vouchers>>

-----------------------------------------------------------------------------
(* The identity client *)

\* getAgentByOwner: the id first, the agent with a second call.
AgentOf ==
    /\ lookup.pc = "idle"
    /\ lookup' = IF owner = "old" THEN [lookup EXCEPT !.pc = "agent"]
                 ELSE [lookup EXCEPT !.pc = "done", !.result = "null"]
    /\ UNCHANGED <<owner, transfer>>

GetAgent ==
    /\ lookup.pc = "agent"
    /\ lookup' = [pc |-> "done", result |-> IF owner = "none" THEN "null" ELSE owner]
    /\ UNCHANGED <<owner, transfer>>

\* deregister, by another call of the owner.
Deregister ==
    /\ owner = "old" /\ owner' = "none"
    /\ UNCHANGED <<lookup, transfer>>

\* updateOwner goes through invokeMultiSig: both wallets sign one transaction,
\* which is submitted once, without the retries of invoke.
UpdateOwner ==
    /\ transfer.pc = "idle"
    /\ transfer' \in {[transfer EXCEPT !.pc = pc] : pc \in {"pending", "unknown", "error"}}
    /\ UNCHANGED <<owner, lookup>>

\* The transaction is included, and succeeds if the agent is still the owner's;
\* or its time bound passes first.
TransferIncluded ==
    /\ transfer.pc = "pending"
    /\ IF owner = "old"
       THEN owner' = "new" /\ transfer' = [transfer EXCEPT !.pc = "success"]
       ELSE UNCHANGED owner /\ transfer' = [transfer EXCEPT !.pc = "failed"]
    /\ UNCHANGED lookup

TransferExpires ==
    /\ transfer.pc = "pending"
    /\ transfer' = [transfer EXCEPT !.pc = "unknown"]
    /\ UNCHANGED <<owner, lookup>>

\* invokeMultiSig asks until the transaction is found: there is no limit, so a
\* transaction the ledger never takes is asked for for ever.
PollTransfer ==
    /\ transfer.pc \in {"pending", "unknown", "success", "failed"}
    /\ transfer' = CASE transfer.pc = "success" -> [transfer EXCEPT !.pc = "done"]
                     [] transfer.pc = "failed" -> [transfer EXCEPT !.pc = "error"]
                     [] OTHER -> [transfer EXCEPT !.polls = IF @ < MaxPolls THEN @ + 1 ELSE @]
    /\ UNCHANGED <<owner, lookup>>

\* The three parts share nothing.
JobCalls ==
    \/ \E a \in Apps : ApproveAndCreate(a) \/ ReadAllowance(a) \/ Approve(a) \/ CreateJob(a)
    \/ CountJobs \/ ReadJobs

ChannelSession == OpenChannel \/ CreateVoucher \/ CloseChannel

IdentityCalls == \/ AgentOf \/ GetAgent \/ Deregister
                 \/ UpdateOwner \/ TransferIncluded \/ TransferExpires \/ PollTransfer

ClientsTypeOK ==
    /\ allowance \in Amounts /\ jobs \in Seq(Apps)
    /\ app \in [Apps -> [pc : {"idle", "allowance", "approve", "create", "done"}, budget : Amounts,
                         seen : Amounts, result : {"none", "job", "error"}]]
    /\ listing \in [pc : {"idle", "reading", "done"}, count : 0..MaxJobs, got : SUBSET (1..MaxJobs)]
    /\ session \in [deposit : Amounts, amount : Amounts, nonce : Amounts]
    /\ vouchers \in Seq([amount : Amounts, nonce : Amounts])
    /\ channel \in [deposit : Amounts, amount : Amounts, nonce : Amounts]
    /\ owner \in {"none", "old", "new"}
    /\ lookup \in [pc : {"idle", "agent", "done"}, result : {"none", "null", "old", "new"}]
    /\ transfer \in [pc : {"idle", "pending", "unknown", "success", "failed", "done", "error"},
                     polls : 0..MaxPolls]

-----------------------------------------------------------------------------
\* A voucher never takes back what an earlier one promised, and the contract
\* would take it after any earlier one: both its amount and its nonce are higher,
\* and the deposit the ledger holds covers it.  The hazard is a session whose two
\* counters part, or that outlives the deposit it was opened with.
VouchersSupersede ==
    \A j \in DOMAIN vouchers :
        /\ vouchers[j].amount <= channel.deposit
        /\ \A i \in 1..(j - 1) : /\ vouchers[i].amount < vouchers[j].amount
                                 /\ vouchers[i].nonce < vouchers[j].nonce

\* What the client is told is so: a job it is told of exists and is its own, one
\* per call; the jobs it lists exist, and updateOwner reports a transfer that was
\* made.  The hazard is an answer read in one ledger and used in a later one.
ToldIsSo ==
    /\ \A a \in Apps :
         /\ app[a].result = "job" => \E id \in DOMAIN jobs : jobs[id] = a
         /\ \A i, j \in DOMAIN jobs : jobs[i] = a /\ jobs[j] = a => i = j
    /\ listing.got \subseteq DOMAIN jobs
    /\ transfer.pc = "done" => owner = "new"
=============================================================================
