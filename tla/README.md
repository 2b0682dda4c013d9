# A TLA+ model of the Bear / MARC agent-commerce protocol

Agents hire other agents on Stellar: a client escrows a budget with the
`agentic-commerce` contract, a provider delivers, an evaluator decides, the
contract pays. Around it are an identity registry, an SDK with the x402 payment
protocol, an event indexer, the agents themselves and a dashboard. This
directory models that system in TLA+, checks the model with TLC on small
instances, and proves what matters most with TLAPS for every instance.

All paths are relative to the repository; `lib.rs` without a path is
`src/contracts/agentic-commerce/src/lib.rs`.

## 1. Inventory

| Component | State it keeps | Operations | What is hard | What makes it correct |
|---|---|---|---|---|
| Escrowed jobs (`lib.rs`) | `Job` records, evaluator quorums, the contract's token balance | create (single, batch, multi-evaluator), submit, complete, approve, cancel, dispute, refund and timeout claims | six ways to settle one escrow, called in any order by four parties; rates that change in between; shared balance | solvency, one settlement, quorum decides, immutable hash, refinement of an abstract escrow |
| Milestone jobs (`lib.rs`) | milestone lists; the same `Job` records | create, submit, approve, cancel the rest | the plain entry points accept these jobs too | released = approved, in order, refund = rest |
| Payment channels (`lib.rs`, `src/sdk/src/commerce.ts`, `paymentChannels.ts`) | channels; off chain: the payer's session and signed vouchers | open, close with a voucher, force close; sign | vouchers late, replayed, reordered, overdrawn; a silent counterparty | pays what was signed, window honoured, deposit never locked |
| Administration (`lib.rs`) | admin, treasury, fee rate, threshold, whitelist, two pause switches | setters, `init`, `re_init`, `upgrade` | changes between any two steps of a job | pause freezes, fee stays capped |
| Identity (`src/contracts/agent-identity`) | agents, owner index, delegates, count | register, update, deregister, transfer, delegate | what deregistration and transfer leave behind | index and records agree, delegates do not outlive their grantor |
| Transaction client (`src/sdk/src/baseClient.ts`) | account sequence, endpoint health | simulate, invoke, retry, failover | concurrency, lost answers, repeated submissions | who polls longer than a transaction is valid may take a timeout for final; sequence numbers in order |
| x402 (`marcFetch.ts`, `marcPaywall*.ts`) | idempotency and deduplication caches | pay and retry, stream, claim, settle, release | concurrent requests, expiry in flight, hang-ups | one call is charged once, a payment is held by one request |
| Contract clients (`commerce.ts`, `identity.ts`, `paymentChannels.ts`) | voucher sessions | every contract call, multi-call methods | two sides that state one interface; answers of an earlier ledger | calls fit entry points, vouchers supersede, told is so |
| Events (`events.ts`, `subscribeJob.ts`) | none | decode, match, call back | two layouts, and decoders for one of them | a field keeps its value, no layout is taken for the other |
| Storage (`storage.ts`) | none that lasts | upload, verify, fall back | lost answers, lying gateways | the provider named holds the content |
| Indexer (`src/indexer/src`) | events, ledger hashes, watermark; two stores | poll, rewind, stop, migrate, insert, page | reorganisations, partial failures, restarts, overlapping batches, lost answers of the database | the index is what the chain says; nothing skipped or counted twice |
| Webhooks, reputation (`src/indexer/src`) | delivery attempts, scores | deliver, compute | retries; scores computed over interleaved reads | - |
| Agent runtime (`src/agents/shared.ts`) | dead-letter queue, active tasks | retry, enqueue, replay, shut down | failures of the failure handling, work begun late | work under way at the signal is awaited, failed work is in the queue |
| Buyer, orchestrator (`src/agents/buyer`, `orchestrator`) | task states, job ids | plan, dispatch, poll, complete | failing after the escrow was funded | a plan runs out, failures reach what depends on them |
| Sellers (`src/agents/seller-*`) | files, tasks | answer, generate, write, submit | several jobs at once | what is submitted is a text made for the job, or, in a file shared by all jobs, none from before it |
| Registry, health monitor (`src/agents/registry`) | registrations, health verdicts | register, heartbeat, probe, forget | a probe in flight while the agent changes | an agent that failed its probes is not listed as online |
| Watcher (`src/agents/watcher`) | locks, timers | tick, refund, stop | an old answer; stop and start during a tick | a job is in one tick's hands, and the watcher goes on |
| Dashboard server (`src/dashboard`) | challenges, sessions, limits, audit trail, pending hashes, caches | challenge, verify, build, submit, list, inspect | double submissions, answers of an invalidated cache | no transaction is sent twice |
| Dashboard page (`src/dashboard/public/app.js`) | stream, timers, wallet session, lists | reconnect, poll, sign, filter, page | events in any order | never deaf, no list loading for ever |
| React hooks (`src/packages/react`) | wallet, caches, channel session | wrappers of the SDK | slow answers, closures over old state | the address shown is the signing wallet's, nonces do not go back behind a voucher |
| Signing, formatting, configuration, landing, demo, scripts | (none of the protocol's) | I/O and conversions | - | - |

**Interaction.** Only the contracts are shared state. Agents, dashboard and
hooks call them through the SDK's transaction client; a contract call is atomic
and a panic rolls it back, so concurrency there is the *order of calls*. The
indexer, watcher and pollers read the contract's events and records later than
they happened. Payments over HTTP (x402) and vouchers are messages between
client and seller that the contract never sees until one is presented.

`PROJECT.json` lists every component with its status and every hazard, at its
line, with the property that would catch it.

## 2. Plan

1. **The contracts** (done): `FeeMath`, `CommerceBase`, `JobEscrow`,
   `MilestoneEscrow`, `PaymentChannels`, composed in `AgenticCommerce`; abstract
   specification `EscrowPromise`; `AgentIdentity`.
2. **The client side** (done): payments, transactions, contract calls, events,
   storage, the hooks and the dashboard's page, instantiated in `MCClients`.
3. **The services** (done): indexer and stores, agents, registry, dashboard
   server, instantiated in `MCServices`.
4. **Proofs about the contracts** (done): every invariant and action property the
   runs check of `AgenticCommerce` and `AgentIdentity`, and the refinement.
5. **Proofs about the rest** (done): every property the runs `clients` and
   `services` check, the two tables of names and the joint types included.

## 3. Modules

**FeeMath** - `compute_fee` and `compute_sla_penalty` over unbounded naturals
(the code's `i128` products are checked and overflow only beyond any token's
supply). `fee.max(1)` makes a fee positive.

**CommerceBase** - instance storage (`config`), the ledger's clock (`now`), the
contract's token balances (`held`), the guards entry points share and the admin
entry points. `Withdraw` is the token transfer out of the contract: it fails
when the balance does not cover it, and so fails the whole call. A deposit
always succeeds: wallets belong to the token contract.

**JobEscrow** - `jobs` is `DataKey::Job` (ids are dense, so a sequence),
`quorums` is `DataKey::Evaluators`. `paid` is not storage of the contract: it
records what the token contracts transferred on behalf of each job, by the role
that received it, and nothing reads it but properties. One action per entry
point; `PayOut` is the settlement of `complete`, `settle_job` and
`claim_expired`, `Refund` that of `cancel` and `claim_refund`. Two details that
matter: `claim_expired` uses the fee rate in force, the others the snapshot;
`submit` does not set `submitted_at`. `create_job_multi_eval` stands for both
multi-evaluator entry points: the unweighted one is the weighted one with all
weights 1, and only it takes an SLA.

**MilestoneEscrow** - `milestones` is `DataKey::Milestones`; the job is one of
`jobs` and every entry point of `JobEscrow` accepts its id.

**PaymentChannels** - `channels` is `DataKey::Channel`; `sessions` is what the
SDK's `openChannel` keeps in the payer's memory; `vouchers` is the set of what
was ever signed, so a signature check is membership and nothing signed is ever
forgotten: any voucher can be presented late, repeatedly and in any order.
Vouchers signed without a session (`createChannelVoucher`) come from
`ForeignVouchers`. `settled` records what the token contract paid.

**AgenticCommerce** composes them: one balance, one pause switch, one clock. It
states all properties. **EscrowPromise** is the abstract escrow: a deposit is
held in full, then paid out or refunded in full, once. `AgenticCommerce!Promise`
is the refinement mapping for jobs without milestones.

**MCAgenticCommerce** gives constants their values for TLC.

**AgentIdentity** - the registry contract, on its own: the other contract never
calls it. `agents`, `owner_to_id` and `delegates` are functions over the keys
that are in storage (`Set` and `Remove` write and delete one). A deregistered
agent's delegates stay in `delegates`, as in the code. Permission masks are sets.
`u64` saturation of an expiry is out of reach of a ledger's clock.

### The client side

Each module has the state of one component; what is on the other side of the
network (ledger, RPC, wallets, browser, gateways) is external state of the
module, and every `await` is a step boundary: what was read before it is kept in
the record of the call that waits, and used after it.

**Paywall** - `claims` of the idempotency cache with expiry, the requests with
their connections, the x402 middleware as an external step that verifies a proof
and answers. The Express adapter claims a payment before the middleware and
releases it on any answer but a 2xx; the Fastify and Node adapters do not claim.
**PaymentFetch** extends it with the buyer: attempts, retries, the proof that is
kept from one attempt to the next; and with `marcFetchStream`, lines of a body
that arrive in pieces. **PaymentDedup** is the cache of `marcPaywallCore.ts`,
which no adapter uses.

**TxSubmission** - one client and account: numbers handed out by the sequence
manager, endpoints with their health, submissions without an answer, the poll
with its deadline, the ledger that takes exactly the next number. Numbers are
written out, because counting them is what the module is about, and so is the
time: a transaction may be included up to `timeBound` ticks after it was built,
the poll for it starts later and lasts as long as the client was configured to
(`pollTimeout`, any of `PollTimeouts`).

**ContractClients** - the methods that take several calls or keep state
(`approveAndCreateJob`, `listJobs`, `getAgentByOwner`, voucher sessions, a
transfer two wallets sign). **ContractCalls** - all methods as rows: what the SDK
refuses, the argument types it encodes, and the entry point the contracts export.
`Misfits` names the methods that do not fit as the code stands, so that
`CallsReachContract` would catch any further drift; three of them encode a struct as
a map with strings for keys, which the host refuses (`StringMap`). **EventDecoding** -
the events as the contracts publish them (name in snake case, version, who acted, a
map of the struct's other fields) and in the earlier layout that the decoders and
their tests have (name, who acted, then a tuple, one value or a map): the header the
poller stores each under, what each decoder makes of it, and whether it reaches the
callback of `subscribeJob`. A value is the name of the field it was emitted as.
**Storage** - providers, gateways and
the fallback.

**WalletHook**, **JobHook** (also `useAgent`, the same code without the poll),
**CommerceHook**, **ChannelHook** - the React hooks: a component's state, the refs
that tell a current answer from one given up, the shared cache, the browser's
storage, which may fail unseen. `ChannelHook` keeps the state of the component and
that of its last render apart, as a handler of the page has the latter.
**DashboardStream**, **DashboardWallet**, **DashboardLists** - the
dashboard's page: stream (where the browser has `EventSource`), retry timer, polls
and the health check after a loss of the network; wallet, session and actions;
lists, tabs and pages with answers that overtake each other.

**MCClients** composes them by *focus*. The components share no state, so each
behaviour runs one of them from each of its initial states and the others rest:
interleaving two would only reorder independent steps and multiply the states.
`NeverStuck` and `AnswersHold` join properties of several modules; each conjunct
is stated and explained where its component is.

### The services

**Indexer** - the poller over a chain whose ledgers carry a hash that changes
with a reorganisation; watermark and stored hashes; two stores: "EventStore", the
committed SQLite store, which ignores the watermark it is handed, and "adapter",
a store that writes rows, watermark and hash in one transaction, as the poller
expects. Each `start` begins a *chain* of polls; `stop` clears the timer and leaves a
poll that is under way, which goes on and inserts, beside those of a later chain; a
crash ends all. **EventStores** - the SQLite store's migrations, rows, paged queries and dashboard cache, and the
Postgres adapter's migrations (advisory lock), pool and overlapping `insertMany`
calls, with row locks, deadlocks and rollbacks as Postgres gives them; the answer of
an insert or of a `COMMIT` may be lost, and then the call throws although its rows
are there.
**Webhook**, **Reputation** - deliveries and scores.

**Orchestrator** - a plan is a function from tasks to the tasks they depend on;
`executeDAG` in its order, escrow, poll, failure. **AgentRuntime** - dead letters
with concurrent replays, a store whose answer is lost, and the end of a process:
tasks, connections, two registrations of the handlers, the timer. `early` is history:
the requests that were answered before the signal. **AgentRegistry** - heartbeats and the
monitor's probes of a snapshot of the agents. **SellerAgent** - POST /job of the
four sellers, with a file per job or (namer and researcher) one for all; `written`
orders the texts. **BuyerAgent**. **JobWatcher** - a tick asks the indexer, then works
on the jobs it locked; stops, starts and the timers they leave come at any time.

**DashboardAuth** - challenges under a rate limit, sessions, the verdict of the
middleware, the audit files and a restart. **DashboardTx** - transactions built
here, signed elsewhere and submitted, possibly by several requests at once; the
cached list and who was told; how discovery counts and pages agents.
**DeliverableCheck** - the inspection of a deliverable, one step per answer.

**MCServices** composes them by focus, like MCClients. `StoreKeeps` and
`WorkIsKept` join properties of several modules.

Operators whose comment begins "Mutant" are deliberately wrong variants of the
definition after them. No action uses them: they document what each property
catches, since substituting one makes TLC report the property violated.

### Abstractions

Account authentication is the parameter `caller` compared with the stored party.
Descriptions, metadata and events are left out. Deliverable URIs and hashes are
model values, with one blank URI and the zero hash that the code refuses. The
contract's storage lifetime extension is left out: an archived entry is
restored before it can be read, so it is not lost. An input the code refuses on
its face is still enumerated where the refusal is a guard of its own (a token
decimal above 38, a batch with a request below the minimum, an unreachable
quorum, an overdrawn voucher).

## 4. Runs

| Run | Question | Bounds |
|---|---|---|
| `jobs` | Is money ever missing, paid twice or decided by too few? Does the contract implement `EscrowPromise`? | 2 jobs, 4 accounts (client/provider, provider, two evaluators of weights 2 and 1), a batch of two, two hashes, two fee rates (one at the cap of 5 %, one above), a budget of 50 whose fee at the cap is 2.5 and must round to 2, clock 1..2 |
| `milestones` | Are releases and refunds exact and in order? | 2 jobs, plans of 2 and 3 milestones, clock 1..2 |
| `channels` | Is only what was signed paid, and not early? | 2 channels, deposit 2, vouchers of amount 0..3 and nonce 1..2, a re-appointed admin, a window of 2 ticks, clock 1..4 |
| `liveness` | Does money ever stay locked? | 1 job and 1 channel, clock 1..3, fairness below |
| `identity` | Do index, count and agents agree, and where does authority come from? | 2 accounts, 2 registrations, lifetimes 0 and 1, one permission, clock 1..2 |
| `clients` | Is a call charged once, a timeout final, an event, a call and an address what it is taken for? Does any page wait for nothing? | per component: 1 buyer's call of 3 attempts and 1 retry with 2 proofs on 2 slots; an invocation and a read over 2 endpoints, polls of 1 and of 2 ticks around a bound of 1, clock 0..3; 2 channels of the hook, nonces to 3; 2 answers in flight for each hook, 2 loads of the job list, 1 disconnect in flight; a page with and without `EventSource`, 3 events of it |
| `services` | Is the index what the chain says? Is work kept, a plan finished, a file its job's, a transaction sent once? | per component: 2 contracts on 4 ledgers, a batch size of 3, 2 reorganisations of depth 2, 2 stops or crashes; 2 adapters with overlapping batches of 2; graphs of the planner's plans; 2 requests and 2 registrations at shutdown; 3 posts of 2 jobs; 2 posts of one build and 2 readers |
| `sequence` | Does the sequence manager avoid `txBAD_SEQ`? TLC finds that it does not | one component (`tx`) of `clients` |
| `double_pay`, `high_value`, `fee_snapshot`, `submitted_at` | Does the code do what its comments say? TLC finds that it does not | see section 6 |

**Why the bounds suffice.** Money errors need a second depositor to pay for
them: two jobs give that, and a batch of two jobs of the same token exercises
the per-token totals. A third actor on the same job adds no entry point: every
guard compares the caller with one stored party. Weights 2 and 1 with threshold
2 and 3 make one evaluator sufficient, insufficient and necessary in turn. The
timeout of a job is one tick, so both sides of every comparison are reached by
time 2 or 3; the challenge window is two ticks in `channels`, so that a second
voucher can arrive later in the window than the first. Two channels let a
voucher of one be presented on the other, and one draw on the other's deposit;
beyond that channels share nothing. In `identity`, two registrations let an
owner leave and come back under a new id while its old delegates are still
stored, and a lifetime of 0 expires at the next tick. `MaxJobs`, `MaxChannels`,
`MaxAgents` and `MaxTime` are the only bounds in guards; because the clock and
the counts stop, a run may stop, so deadlock is not checked.

In `clients` and `services` a component needs two of whatever can overtake or
collide: two requests with one proof, two callers of one account, two endpoints
or providers to fall back on, two reads of one hook, two adapters on one
database, two handlers of one signal, two ticks. Where the failure takes three
steps of one kind the bound is three (attempts of a call, posts to a seller,
ledgers around a fork). Counters are bounded by constants whose names begin with
`Max`, by the clocks, or by the option they model (`retries`, `maxReorgDepth`).
In `services` the constraint `StillClean` ends a behaviour of the indexer when one of
the things has happened that its poller does not guard against: the one property
about it says nothing from there on, and `clean` never returns.
`Reqs` and `Invokes` are symmetric in `clients`: only identity is ever compared,
and the one temporal property there is an action property.

`jobs` checks finality, the pause and the types for the whole contract, and
`AgenticCommerce_proofs` proves them for milestone jobs and channels too;
`milestones` and `channels` check what is theirs alone.

**Fairness** (`FairSpec`, run `liveness` only). Ledgers keep closing (`Tick`);
a provider that is entitled to its timeout payout claims it; a payer claims its
deposit when the window is over. The last two are calls of the party that gains
by them, which the SDK offers it (`claimExpired`, `forceClose`) and which stay
possible until they are made, so that party only has to try again. Nothing is
assumed of evaluators, of the other party of a channel, or of the admin: the
properties say what happens *without* them, and except a pause.

## 5. Proofs

### The contracts

`AgenticCommerce_proofs` begins with the arithmetic of a settlement: the fee lies
between zero and the amount, within 5 % or one unit, and is never waived; the
penalty is at most half of the budget. Then it proves, for every number of jobs,
parties, tokens, quorums, milestone plans and channels, that the contract's types
hold (`TypeCorrect`), that a plain job is settled once and as a whole
(`EscrowSettledOnce`), that the fee is capped (`FeeStaysCapped`), that no
provider is paid without a delivery (`NoPayWithoutDelivery`), that settled jobs
are final (`TerminalStaysFinal`), hashes immutable (`HashStaysImmutable`) and
that the pause freezes everything (`PauseHolds`).

The inductive invariant is

    IInv == TypeOK /\ SettledOnce /\ FeeIsCapped /\ PaidForDelivery
                   /\ OpenWithinBudget /\ CommittedOnSubmit

The last two are the strengthening. A payout preserves `SettledOnce` only if
nothing was released before (`OpenWithinBudget`), and `HashIsImmutable` needs a
job with a hash not to be `Funded`, for milestone jobs as well
(`CommittedOnSubmit`). The argument goes through *step classes*: a step creates
jobs (`Created`), moves one job without money (`Moved`), or pays out, refunds or
releases a milestone (`PaidOut`, `Refunded`, `Released`). One lemma per entry
point places it in a class, one lemma per class shows what the class keeps; the
action properties and the refinement reuse the same classes.

`EscrowPromise_proofs` proves `ContractKeepsPromise == Spec => KeepsPromise`:
creation is a deposit, `PaidOut` a payout, `Refunded` a refund, and every other
step (administration, milestones, channels, moves) a stutter.

`Sums_proofs` has the sums. `SumFunctionOnSet` is a fold, which the library defines
by recursion on the set, so what it is worth for every finite set has to be
proved by induction on the set's size. The library's induction theorems take an
operator as parameter, which the provers cannot instantiate; the module proves
induction for *sets* of numbers and of subsets instead, from the minimal
elements of the well-founded order on `Nat` (`NatSetInduction`,
`SubsetInduction`), shows that the recursion has one solution (`SolutionExists`, `SolutionUnique`), and from that what every later proof
cites: the sum of the empty set, what adding, removing or changing one member
does to a sum (`SumAdd`, `SumRemove`, `SumChange`), of disjoint sets (`SumDisjoint`),
and its sign and monotony (`SumPositive`, `SumOfPart`).

`CommerceLedger_proofs` proves what the contract's records say of each other:

| Theorems | Invariant beside `IInv` | Why it is needed |
|---|---|---|
| `EachIsCountedOnce`, `OnlyQuorumDecides` | `QuorumsInv` | the weight counted is the sum over those who approved, *and* the job is completed exactly when it reaches the threshold, so the approval that reaches it is the last |
| `NoPaymentUnsigned`, `WindowHolds` | `ChannelsInv` | the amount on record of an *open* channel is nothing or an amount the payer signed for it; a channel is not both open and settled, and a settled one has paid its deposit in full, the amount to the provider and the rest to the payer |
| `HigherVoucherIsAccepted` | `SessionsInv` | a session's vouchers grow in amount and nonce together, none is ahead of its session, and an open channel has one of them on record, or none |
| `BalanceIsConserved`, `SolventUnlessOverpaid`, `SolventWithoutMilestones` | `Conserved`, `RecordsInv` | the balance of a token is what the budgets of its jobs exceed the transfers made for them, plus open deposits: true of every step, also of the one that overpays |
| `MilestonesAreReleased` | `MilestonesInv` | an open job has released the sum of what was approved, and a plan's amounts add up to the budget |
| `MilestonesArePaidInOrder` | `PlansInOrder` | a milestone is delivered only after all those before it are approved |

Four of them have a hypothesis, since without it they are false and the code shows
why. `Solvent` fails when a milestone job is also submitted as a whole (section 6,
`double_pay`); so `SolventUnlessOverpaid` proves `NeverOverpaid => Solvent` for all
jobs, and `SolventWithoutMilestones` assumes `MilestonePlans = {}` and drops the
condition. `create_milestone_job` takes a milestone list as the caller wrote it, so
`MilestonesAreReleased` assumes plans without approved milestones and
`MilestonesArePaidInOrder` plans with none approved or delivered, as the plans of
the run `milestones` are.
`HigherVoucherIsAccepted` assumes `ForeignVouchers = {}`, that is, payers that sign
through the SDK's session only.

`AgentIdentity_proofs` proves all four properties of the registry. Its invariant
adds to them that the live agents are finitely many, so that they can be
counted; `AuthorityIsGranted` rests on the part of `TypeOK` that every delegate
has an id that was already assigned, so a registration finds none.

### The client side and the services

A component is proved correct against its own specification (`WalletSpec`,
`X402Spec`, `IndexerSpec` and so on: its `Init` and `[][Next]` of its variables), for
every value of its constants. The components share no variables, so the whole
specification of `MCClients` implies each (`EachRunsItsOwn`: a step of another
component is a stutter), and `ClientsKeepTheirs` and `ServicesKeepTheirs` state the
properties of the whole.

`Clients_proofs`:

- `ShownAddressIsWallets` (`WalletHook`): of the connects in flight the latest is
  for the wallet the hook shows (`LatestIsShown`), so an answer that is still
  wanted can only bring that wallet's address.
- `OneHoldsThePayment` (`PaymentDedup`): the reservation of a request that holds its
  payment stays in the cache as long as it runs (`ReservationLives`), so `Reserve`
  finds it.
- `CallsAreChargedOnce` (`Paywall`, `PaymentFetch`): for a proof it has not forgotten
  the guard lets one request work at a time, and that one settles it
  (`ClaimsAreHeld`). A call signs a new proof only after a 402 to its last, and a
  402 of the middleware leaves the claim in the cache, so that no later or delayed
  request gets that proof settled (`InVain`, `OldProofsInVain`). Hence only a call's
  last proof can ever be settled. `CallsInOrder` is the bookkeeping: a call sends its
  last proof, awaits a request of its own, and no request carries a proof that is
  not signed yet. The release on an error of the middleware, the expiry, a restart
  and a client that hangs up put the proof in `forgot`, where nothing is claimed.
- `TimedOutStaysOut` (`TxSubmission`): no transaction of a call is valid longer than
  the one it built last, which was built before it was polled for; so when a client
  that polls for longer than `timeBound` gives up, all of its bounds have passed
  (`InTime`, `TxInv`). The condition `pollTimeout > timeBound` is in the property: it
  is so by default (60 s and 30 s), and `pollTimeoutMs` can be configured otherwise.
- `PagesAreNeverStuck` joins three. `NeverDeaf` (`DashboardStream`): a page that can
  have a stream and has none has a retry running, the interval a live stream put
  aside is put aside only while it lives, and a page that is seen and online polls
  or has a health check under way that will make it (`PageInv`). `SkeletonsEnd`
  (`DashboardLists`) and, up to its types, `LoadingEnds` (`JobHook`) are inductive as
  they stand; of the latter the work is that a fetch given up has a successor. A
  hook that polls is left out of it, and section 6 says why.
- `AnswersKeepHolding` joins four. `VouchersSupersede` (`ContractClients`): the session
  is not behind any voucher it signed, in amount and nonce, nor beyond the deposit
  the ledger holds (`SessionInv`). `ToldIsSo`: a job was made by a call that is done,
  a list was counted when there were no more jobs than there are, and an included
  transfer gave the agent its new owner (`JobCallsInv`, `IdentityInv`). `NonceIsKept`
  (`ChannelHook`): the nonce the component goes on from is not below that of a voucher
  it handed out; the record in the browser is not either, unless it could not be
  stored, and the last render is one behind at most (`NoncesKept`). A channel that was
  reset, or reloaded with its last state unsaved, is `forgotten`, and nothing is said
  of it. `UploadIsBacked` (`Storage`): the provider asked to serve the content back was
  given it, and as many failed as come before the one tried (`UploadInv`).

`Services_proofs`:

- `OfflineStaysUnlisted` (`AgentRegistry`): the registry shows the monitor's verdict
  (`VerdictsShown`), and a probe that is late writes to a state the monitor has
  dropped (`LateProbes`).
- `BuildsAreSentOnce` (`DashboardTx`): sends of a hash, plus one if it is pending, do
  not exceed its builds (`BuildsAreSpent`); a request answered 200 saw its
  transaction executed (`ExecutionIsTold`).
- `FilesAreTheirJobs` (`SellerAgent`): a file holds the text written last of those that
  go to it, and a job is submitted with its file after a text for it was written
  (`WrittenInOrder`, `FilesHoldTheLast`, `SubmittedWithItsFile`); each completion counted
  is of another submitted job (`CompletedOnce`).
- `PlansRunOut` (`Orchestrator`): the planner's tasks are in a row (`TasksInARow`), and
  along the row what is completed is a beginning and what failed an end
  (`PlanInv`); the task that runs is the one after the completed ones (`CurrentRuns`).
- `IndexStaysExact` (`Indexer`): the rows are those of one hash per ledger up to the
  watermark, none twice (`BuiltFrom`); the chain left these at one ledger at most, and
  the hash before it is still stored within the depth the poller looks back
  (`Recoverable`); a poll under way has got the chain's events for the contracts it is
  done with (`PollIsTrue`); and no two polls are under way (`OneAtATime`): a start
  beside a poll that a stop left is one of the things after which `clean` is false.
  `Recoverable` is what makes the rewind land below the fork and never further than
  the stored hashes allow.
- `AgentsKeepTheirWork` joins three. `QueueIsTrue` (`AgentRuntime`): replayers list only
  work that `withRetry` has given up (`ListsWhatIsGivenUp`), and one about to mark a
  letter resolved has done its work (`ResolvesWhatIsDone`). `CleanExitIsDrained`: at the
  signal every task of a request answered before it is on the list that the shutdown
  awaits, and its answer from the tracker was right to be given (`ShutdownInv`).
  `WatcherKeepsWatch` (`JobWatcher`): only a tick that was answered works on jobs, each on
  those it locked; a chain of timers that nobody holds was left by a tick that ended
  (`TicksInOrder`).
- `StoresKeepTheirEvents` (`EventStores`) joins two. `PagesMissNothing`: a reader has
  had every row whose place in the order is before its offset (`ReadSoFar`); rows
  that are inserted move none up (`InsertedRowsMoveNoneUp`), and an empty page is the
  end since the places are in a row (`PlacesAreTaken`). `CountedOnce`: what an open
  transaction counted is what it inserted and nobody committed (`CallInOrder`), no
  key is in two of them (`KeysHeldOnce`), and nothing is written before the tables are
  there (`TablesFirst`); so a commit adds to the rows what it adds to the sum of what
  was counted (`PgCounts`), by the lemmas of `Sums_proofs`, whether its answer arrives
  or not.

**Tables of names.** `CallsFitTheContracts` (`ContractCalls`) and
`EventsAreDecodedAsEmitted` (`EventDecoding`) are about the code's own names, all of
which TLC evaluates too; the proofs hold for any limits on amounts, batches,
evaluators and milestones, and give the reason. Of the calls: a group of lemmas (`CreatingFits`, `WorkingFits`, `ReadingFits`,
`IdentityFits`) shows once per entry point that what the SDK encodes is what the
contract takes, whatever the caller's options; `MisfitsFitNone` shows that the
methods named in `Misfits` reach no entry point in any of their forms. Of the
events: no name that is published now is a type of the SDK (`WireIsNoType`), so only
one of the earlier layout gets past the decoders' check (`FirstEventIs`); its fields
are looked up by name in a map and by position elsewhere (`LookedUpIsThere`), and
what is decoded are the fields of its type (`DecodedIsEmitted`), also in the form of
`JobCompleted` with its provider (`DecodingInv`).

**Types.** `ClientSideStaysTyped` and `ServicesStayTyped` prove the joint `TypeOK` of
`MCClients` and `MCServices`. A type here says what a component counts and bounds as
well, and where that is not inductive the lemma `...StaysTyped` of the component
strengthens it:

| Component | What its types say or rest on beside the kind of each value |
|---|---|
| `AgentRegistry` | no beat is later than now and no more failures are counted than put an agent offline (`RegistryBounds`) |
| `DashboardTx` | only what was built is pending, no list shows more changes than there were (`DashboardTxBounds`); discovery shows ids that were given |
| `DashboardAuth` | no more challenges in a window than its limit, no audit file beyond its size (`AuthInv`) |
| `SellerAgent` | `jobsActive` is the number of requests at work (`SellerCounts`) |
| `BuyerAgent` | who was paid is the pick of this round or of the one before, so at most two are paid for a task (`PaidWerePicked`) |
| `AgentRuntime` | no run tries more often than its retries allow (`RetriesInBounds`) |
| `JobWatcher` | timers nobody holds and ticks in flight are together no more than the ticks that began (`TicksInOrder`) |
| `Webhook` | while an attempt is under way or waited for there is one left to make (`WebhookInv`) |
| `Reputation` | every score that is computed and saved lies in 0..100000, from any log, and every rank counts no more agents below than are compared (`ScoresAreBounded`) |
| `EventStores` | who opens a connection found one free (`PoolHolds`), no call counts more events than there are (`CountsInBounds`), a reader is given stored rows |
| `Indexer` | rows, and what the polls have got, are events of the chain's ledgers, hashes those it had (`StoredTypes`) |
| `TxSubmission` | what is sent and included is of a call of `invoke`; no loop goes on after its last attempt; the pool counts the failures of the endpoints it was given and no others (`PoolKeepsTypes`) |
| `Paywall`, `PaymentFetch` | the handler runs for a proof only, an answer has a status, and a call that awaits an answer awaits a request's; for every adapter (`X402Typed`) |
| `ContractClients` | a session has the deposit of the ledger's channel, and neither amount nor nonce beyond it (`SessionInv`); jobs and agents as in the invariants above |
| `ChannelHook` | a record in the browser is of its channel, and every voucher of a channel that was made (`ChannelHookInv`) |
| `DashboardLists` | finitely many loads are in flight, each of a page there is (`ListsInv`) |
| `DashboardWallet` | a signer is known from the signature until the lists are loaded anew (`DashWalletInv`) |
| `DashboardStream` | an interval is one the select offers or that of live data |

### Assumptions

Those named in the modules (`HourAssumption`, `BaseAssumption`, `JobAssumption`,
`MilestoneAssumption`, `ChannelAssumption`, `IdentityAssumption` and the one of each
component). They say what kind of values the constants are and that sentinels are
not real values, and that what a model starts with is there: an account, a call, an
endpoint, a provider, the route "/" and the polling interval 0 that the page offers
(app.js). TLC evaluates them in every run. Further hypotheses are in the statement of
the theorem, as above.

### Only model-checked

- `SubmittedIsSettled` and `ChannelIsSettled`: liveness under fairness.
  TLAPS has no rule for the `ENABLED` in fairness.
- That the components finish: the runs `clients` and `services` check safety only. Where
  the code promises an end, it is stated as what is on its way (`NeverStuck`,
  `PlanRunsOut`, `QueueIsTrue`), and so provable.

## 6. Where code and comments disagree

Found by a run:

- `double_pay`: `complete` pays `budget` and ignores `released`. A milestone job
  can be submitted as a whole too (`submit` asks for `Funded` only), so after a
  milestone was released its amount is paid again from other jobs' deposits.
  `cancel` subtracts `released` and says why (lib.rs:1764).
- `high_value`: `create_milestone_job` does not ask for a quorum above the
  threshold that set_multi_eval_threshold's comment announces (lib.rs:1861).
- `fee_snapshot`: `claim_expired` charges the fee rate in force (lib.rs:2511)
  although the rate is "snapshotted at job creation" (lib.rs:102).
- `submitted_at`: `submit` never stores it, so no SLA penalty is ever due
  (lib.rs:110, 667).
- `sequence`: `AccountSequenceManager.next` returns the last used number plus one,
  and `TransactionBuilder.build` counts the account up once more
  (src/sdk/src/baseClient.ts:432-442), so the transaction carries a number the
  ledger refuses, although the manager exists to avoid that (baseClient.ts:211).

Seen while reading, without a run of their own:

- `create_milestone_job` stores the caller's `deliverable` and `approved` as
  given (lib.rs:2655), and neither it nor `open_channel` asks the whitelist.
- `claim_expired` explains that `updated_at` is the submission time (lib.rs:2502),
  but `approve_milestone` moves it (lib.rs:2791).
- A disputed job of an evaluator that never answers can only be cancelled by its
  client; the provider has no claim any more.
- `src/docs/sdk.md` allows `cancel` from `Funded` only; the contract also cancels
  submitted and disputed jobs.
- `fund_job_with_swap` refuses `Funded` jobs and no entry point creates an `Open`
  one, so it can never succeed.
- `src/dashboard/lib/auth.ts:149` compares the challenge the server stored with
  the one the client signed; signing changes the XDR.
- `registered_count` is documented as "total number of agents ever registered
  (append-only)" (`src/contracts/agent-identity/src/lib.rs:726`); `deregister`
  decrements it, and `CountIsLive` shows it is the number of live agents.
- A transfer keeps the old owner's delegates; `PERM_DEREGISTER` and the other
  permissions are described as letting a delegate call entry points that accept
  the owner only; `check_delegate` accepts any common permission bit where its
  comment asks for at least the required ones.
- As committed, both contracts refer to names that are not defined
  (`EVENT_VERSION`, `MAX_AGENT_PAGE_SIZE`); the model takes them as the constants
  their use implies.

In the SDK:

- A submission whose answer is lost is built again with a new sequence number
  (`baseClient.ts:448-456`) although the first may still be included, so one call of
  the client can be executed twice; `TimeoutIsFinal` says what holds nevertheless, for
  clients whose `pollTimeoutMs` is longer than the 30 s a transaction is valid. With a
  shorter one (types.ts:221, baseClient.ts:486) a call can be executed after it was
  reported as timed out. The module has one clock: a client's that runs ahead of the
  ledger's by more than the difference does the same.
- `marcFetch` with its default `maxPaymentAttempts` of 1 never pays; a caller's
  `signal` is overwritten; an abort is not seen within a batch of lines.
- `marcPaywall` releases a claim when the client hangs up although the handler
  goes on (443-460, 493), keeps it when the middleware answers itself, and calls
  `require` in a module without it (165). `ChargedOnce` is stated for proofs whose
  claim was not dropped early.
- `marcPaywallCore` exports no function of that name, which the Hono and Next
  adapters import. `settle` and `release` go by hash, so a request that overran its
  reservation releases the next one's (`HeldAlone` excepts it).
- `ContractCalls!Misfits`: `createJobMultiEval`, `estimateCreateJobFee`,
  `prepareCreateJob`, `submitMilestone`, and `complete` without a hash pass another
  number of arguments than the entry point takes; `getBadges` calls one that does
  not exist; `batchCreateJobs` (commerce.ts:355-368), `closeChannel` (514-521) and
  `createMilestoneJob` (1388-1399) convert their structs with `nativeToScVal` and the
  type `map`, which makes strings of the keys where the contract's types have symbols. `complete`'s comment calls `expectedHash` optional (commerce.ts:751-775).
- `events.ts` imports types that do not exist, and expects the earlier layout of the
  events: names in CamelCase, and who acted in topic 1, where the contracts publish
  their names in snake case and a version there (lib.rs:283-420; docs/EVENTS.md has
  both). So no event published now is decoded, no subscriber of a job is called with
  one, and `DecodedAsEmitted` says so of each; the poller does store them, with their
  actor. The order of fields differs too (`JobSubmitted`), and `BatchJobsCreated` carries
  one of the three the decoder reads.
- `invokeMultiSig` (identity.ts:479) polls without a limit; `checkDelegate` turns a
  network error into "no".

In the indexer: `EventStore` inserts a column its migration does not have
(`contract`), has no table `agent_reputation`, and does not store the watermark,
so every poll starts at the first ledger; `index.ts` calls functions that neither
the store nor the hub has; nothing calls `updateReputation`; nothing uses
`PostgresAdapter`; a poll skips what a failed query, or one cut off at `batchSize`,
did not return (`IndexIsExact` is stated until then). `stop` does not await the poll
under way and `start` after it begins a second one beside it (poller.ts:445-468), and
then the two insert the same events twice; the property is stated until then as well.
An `insertEvent` or `insertMany` whose answer is lost throws although its rows are in
(db-postgres.ts:251, 311-318), so what callers were told can add up to less than the
rows; `CountedOnce` counts what was lost too.

In the hooks: a disconnect does not give up a connect in flight; a failed connect
keeps the stored provider; a background poll of `useJob` gives up the first fetch
and leaves `loading` set beside the job it then shows (`LoadingEnds` is stated
without polling); `useJob`'s cache
takes an older answer over a newer; `useCommerce` reports the last hash of any
call; `usePaymentChannel` hands out one nonce twice when `createVoucher` is called twice
in one render (229-257), ignores errors of the storage (76-83), so that a reload may
go back behind a voucher, signs with a random key after a reload, and forgets the
nonce on `reset` (`NonceIsKept` says what holds besides).

In the agents: namer and researcher write one file for all jobs
(seller-namer/index.ts:175), so a client can find a later client's text, as
`DeliverableIsItsJobs` allows for them; several agents import names `shared.ts` does not
export or call methods their tracker does not have; the task of a request that is
answered after the signal is not awaited, so an exit with 0 can cut it off
(`CleanExitIsDrained` speaks of those before the signal), and an exit with 1 leaves the
database open; `registerGracefulShutdown` is not idempotent as its
comment says (shared.ts:724); a replayed letter that failed is never listed again,
and one resolved twice can end as failed; the buyer takes an empty result for a
timeout and pays a second provider; the watcher's stop and start during a tick make
two chains of timers; `server.ts` of the registry passes `agents` where the monitor
asks for `getAgents`, and the monitor keeps its verdict on an agent that left.

In the dashboard's server: it refers to names that are not defined and to modules
that do not exist; the schemas of `createJob` and `submit` want an address where
`getKeypair` takes a role; a submitted transaction is polled without a limit
(server.ts:2024); a list fetched before an invalidation is cached after it as
fresh (`SentOnce` speaks of what listeners were told); `/api/jobs` filters after
paging; ids are counted by the live agents although they have gaps
(discovery.ts:126); the job event stream asks the hub for a method it does not
have, so it ends after its greeting, and `EventDecoding` models matching and
decoding only. `logout` does nothing.

In the page (`app.js`): the session expects another answer and another route than
the server has; a declaration repeated in one scope (2754, 2762) keeps the script
from parsing; the token of an old account is kept; an older answer of `loadJobs`
overwrites a newer, and a poll reloads without the tab's filter; an invalidation
during a poll is dropped; `renderJobs` shows its page whatever the route is.

The modules model each component as the code reads, taking a missing name or
module as what its use implies; where a caller and a callee cannot work together
at all, the README says so and the component is modelled on its own.

## 7. Not modelled

`upgrade` (it replaces the program), `set_amm_router` and `fund_job_with_swap`
(never effective), identity badges (no entry point issues one). Pure I/O and
conversions: the indexer's own event stream, signing, formatting, error texts,
configuration, prompts, rendering and charts, statistics, metrics and tracing,
read-only routes and the filters of queries. The Hono and Next adapters and the job event stream's transport, which
call what does not exist. The mock seller and the templates, the landing page,
demo, examples and scripts, which keep no state of the protocol.

Within the modelled components nothing crosses from one to another: a composition
of buyer, orchestrator or hooks with the contract would relate what they believe
to what the ledger holds, and is represented by each module's own external ledger,
which takes the calls in any order and may lose their answers. In `WalletHook` TLC has
one disconnect in flight at a time (`MaxDisconnects`); the proof is for any number.
