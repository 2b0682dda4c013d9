----------------------------- MODULE DashboardTx -----------------------------
(***************************************************************************)
(* What the dashboard's server does to the ledger, and shows of it         *)
(* (dashboard/server.ts, lib/discovery.ts): transactions it builds for a   *)
(* wallet to sign and sends once they are signed, calls it signs itself,   *)
(* and the cached lists of jobs that are invalidated after each.           *)
(*                                                                         *)
(* A transaction is a model value that stands for its hash: building the   *)
(* same call twice in one second gives the same one.  The job list is the  *)
(* number of changes it shows.  Agents are cached the same way.            *)
(***************************************************************************)
EXTENDS Naturals, FiniteSets

CONSTANTS
    Txs,            \* transactions that may be built
    SubmitPosts,          \* POST /api/submit requests, each for one signed transaction
    Readers,        \* GET requests that go through getAllJobs
    MaxBuilds, MaxVersion   \* bounds: builds of one transaction, changes of the jobs

ASSUME DashboardTxAssumption == MaxBuilds \in Nat /\ MaxVersion \in Nat

VARIABLES
    pendingTxHashes,
    built,          \* how often each transaction was built
    posts,          \* POST /api/submit: [at, tx]
    sends,          \* how many requests went on to send each transaction
    ledger,         \* the fate of a transaction: "unknown", "sent", "SUCCESS", "FAILED"
    version,        \* changes the job list has seen on the ledger
    jobCache,       \* [data, fresh]: fresh until CACHE_TTL has passed or invalidateJobs
    readers,        \* [at, read]: a list being fetched holds what it read
    told            \* the changes of the last invalidation that /api/stream relayed

dashTxVars == <<pendingTxHashes, built, posts, sends, ledger, version, jobCache, readers, told>>

DashboardTxInit ==
    /\ pendingTxHashes = {} /\ built = [t \in Txs |-> 0] /\ sends = [t \in Txs |-> 0]
    /\ posts \in [SubmitPosts -> [at : {"unsent"}, tx : Txs]]
    /\ ledger = [t \in Txs |-> "unknown"] /\ version = 0 /\ told = 0
    /\ jobCache = [data |-> 0, fresh |-> FALSE]
    /\ readers = [r \in Readers |-> [at |-> "idle", read |-> 0]]

-----------------------------------------------------------------------------
(* Building and sending *)

\* POST /api/build/* and the routes that answer with an xdr (register with a wallet,
\* PUT, dispute, claim-refund): authenticated, the request makes sense (the provider
\* is an agent, the deliverable passed its inspection), the account was found and
\* the simulation went through.  Otherwise nothing is kept.
BuildTx(t) ==
    /\ built[t] < MaxBuilds
    /\ built' = [built EXCEPT ![t] = @ + 1]
    /\ pendingTxHashes' = pendingTxHashes \cup {t}
    /\ UNCHANGED <<posts, sends, ledger, version, jobCache, readers, told>>

\* Mutant: The hash is kept for the next post.
TakeAndKeep(p) ==
    /\ posts[p].at = "unsent" /\ posts[p].tx \in pendingTxHashes
    /\ posts' = [posts EXCEPT ![p].at = "sending"]
    /\ sends' = [sends EXCEPT ![posts[p].tx] = @ + 1]
    /\ UNCHANGED <<pendingTxHashes, built, ledger, version, jobCache, readers, told>>

\* POST /api/submit: only what this server built, and only once per build: nothing is
\* awaited between the look and the removal.  Read under another network's
\* passphrase (X-Bear-Network), the transaction has another hash.
TakePostedTx(p) ==
    /\ posts[p].at = "unsent" /\ posts[p].tx \in pendingTxHashes
    /\ pendingTxHashes' = pendingTxHashes \ {posts[p].tx}
    /\ posts' = [posts EXCEPT ![p].at = "sending"]
    /\ sends' = [sends EXCEPT ![posts[p].tx] = @ + 1]
    /\ UNCHANGED <<built, ledger, version, jobCache, readers, told>>

RefusePostedTx(p) ==
    /\ posts[p].at = "unsent"
    /\ posts' = [posts EXCEPT ![p].at = "400"]
    /\ UNCHANGED <<pendingTxHashes, built, sends, ledger, version, jobCache, readers, told>>

\* sendTransaction, at the first endpoint that answers.  The endpoint may have taken
\* the transaction and its answer be lost: the next one is asked, or 500 is answered.
SendPostedTx(p, accepted, answered) ==
    /\ posts[p].at = "sending"
    /\ posts' = [posts EXCEPT ![p].at = IF accepted /\ answered THEN "polling" ELSE "500"]
    /\ ledger' = IF accepted /\ ledger[posts[p].tx] = "unknown"
                 THEN [ledger EXCEPT ![posts[p].tx] = "sent"] ELSE ledger
    /\ UNCHANGED <<pendingTxHashes, built, sends, version, jobCache, readers, told>>

\* External: the ledger closes with the transaction, or the transaction's time bounds
\* run out and it stays NOT_FOUND: then the loop of PollPostedTx never ends.
LedgerIncludes(t, fate) ==
    /\ ledger[t] = "sent" /\ version < MaxVersion
    /\ ledger' = [ledger EXCEPT ![t] = fate]
    /\ version' = IF fate = "SUCCESS" THEN version + 1 ELSE version
    /\ UNCHANGED <<pendingTxHashes, built, posts, sends, jobCache, readers, told>>

\* invalidateJobs: the cache is out of date, and whoever listens to /api/stream
\* is told.
Invalidated == jobCache' = [jobCache EXCEPT !.fresh = FALSE] /\ told' = version

PollPostedTx(p) ==
    /\ posts[p].at = "polling" /\ ledger[posts[p].tx] \in {"SUCCESS", "FAILED"}
    /\ posts' = [posts EXCEPT ![p].at = IF ledger[posts[p].tx] = "SUCCESS" THEN "200" ELSE "500"]
    /\ IF ledger[posts[p].tx] = "SUCCESS" THEN Invalidated ELSE UNCHANGED <<jobCache, told>>
    /\ UNCHANGED <<pendingTxHashes, built, sends, ledger, version, readers>>

PollFails(p) ==
    /\ posts[p].at = "polling" /\ posts' = [posts EXCEPT ![p].at = "500"]
    /\ UNCHANGED <<pendingTxHashes, built, sends, ledger, version, jobCache, readers, told>>

\* A call the server signs itself, for its own wallets "buyer" and "seller": the
\* registration of an agent and the cancel of PUT /api/jobs/:id.  The other routes
\* (create, submit, approve, complete, cancel) want a Stellar address in `wallet` and
\* then look it up among "buyer" and "seller": they answer 400.
DemoCall ==
    /\ version < MaxVersion /\ version' = version + 1
    /\ jobCache' = [jobCache EXCEPT !.fresh = FALSE] /\ told' = version'
    /\ UNCHANGED <<pendingTxHashes, built, posts, sends, ledger, readers>>

-----------------------------------------------------------------------------
(* discovery.ts: getAllJobs *)

FromCache(r) ==
    /\ readers[r].at = "idle" /\ jobCache.fresh
    /\ readers' = [readers EXCEPT ![r] = [at |-> "done", read |-> jobCache.data]]
    /\ UNCHANGED <<pendingTxHashes, built, posts, sends, ledger, version, jobCache, told>>

Fetch(r) ==
    /\ readers[r].at = "idle" /\ ~jobCache.fresh
    /\ readers' = [readers EXCEPT ![r] = [at |-> "fetching", read |-> version]]
    /\ UNCHANGED <<pendingTxHashes, built, posts, sends, ledger, version, jobCache, told>>

\* The answer is cached as fresh, also when an invalidation came in between.
Fetched(r) ==
    /\ readers[r].at = "fetching"
    /\ readers' = [readers EXCEPT ![r].at = "done"]
    /\ jobCache' = [data |-> readers[r].read, fresh |-> TRUE]
    /\ UNCHANGED <<pendingTxHashes, built, posts, sends, ledger, version, told>>

CacheExpires ==
    /\ jobCache.fresh /\ jobCache' = [jobCache EXCEPT !.fresh = FALSE]
    /\ UNCHANGED <<pendingTxHashes, built, posts, sends, ledger, version, readers, told>>

DashboardTxNext ==
    \/ \E t \in Txs : BuildTx(t) \/ \E fate \in {"SUCCESS", "FAILED"} : LedgerIncludes(t, fate)
    \/ \E p \in SubmitPosts :
         \/ TakePostedTx(p) \/ RefusePostedTx(p) \/ PollPostedTx(p) \/ PollFails(p)
         \/ \E accepted, answered \in BOOLEAN : SendPostedTx(p, accepted, answered)
    \/ DemoCall \/ CacheExpires
    \/ \E r \in Readers : FromCache(r) \/ Fetch(r) \/ Fetched(r)

DashboardTxTypeOK ==
    /\ pendingTxHashes \subseteq {t \in Txs : built[t] > 0}
    /\ posts \in [SubmitPosts ->
         [at : {"unsent", "sending", "polling", "200", "400", "500"}, tx : Txs]]
    /\ ledger \in [Txs -> {"unknown", "sent", "SUCCESS", "FAILED"}]
    /\ version \in 0 .. MaxVersion /\ told \in 0 .. version /\ jobCache.data \in 0 .. version
    /\ \A r \in Readers : readers[r].at \in {"idle", "fetching", "done"}

\* Several requests may carry one signed transaction (a double click, a retry after
\* a lost answer): no build is sent more than once (server.ts, pendingTxHashes), and
\* a request is answered 200 only for a transaction the ledger executed, with the
\* listeners told of a list that shows it.
SentOnce ==
    /\ \A t \in Txs : sends[t] <= built[t]
    /\ \A p \in SubmitPosts : posts[p].at = "200" => ledger[posts[p].tx] = "SUCCESS" /\ told > 0

-----------------------------------------------------------------------------
(***************************************************************************)
(* How the dashboard finds the agents and the jobs there are                *)
(* (dashboard/lib/discovery.ts).  The contracts hand out ids 1, 2, ...; a   *)
(* deregistered agent leaves a gap, and IdentityClient.registeredCount      *)
(* counts the agents that are left.                                         *)
(***************************************************************************)
CONSTANTS
    MaxId,                      \* bounds the ids handed out
    MAX_DISCOVERY_PROBE_ID,
    PageSizes

ASSUME DiscoveryAssumption ==
    /\ MaxId \in Nat /\ MAX_DISCOVERY_PROBE_ID \in Nat \ {0} /\ PageSizes \subseteq Nat \ {0}

VARIABLES
    nextId, live,       \* the identity contract: the last id given, the agents there
    vectorIndex,        \* agents whose embedding is kept
    shown               \* the last answer: [items, total, hasNext]

discoveryVars == <<nextId, live, vectorIndex, shown>>

Nothing == [items |-> {}, total |-> 0, hasNext |-> FALSE]
DiscoveryInit == nextId = 0 /\ live = {} /\ vectorIndex = {} /\ shown = Nothing

Lesser(a, b) == IF a < b THEN a ELSE b

\* findMaxId.  Doubling finds an id that is not there, halving the last one before it;
\* what it returns has an agent, and one that follows a gap is missed.
FirstProbeMissing ==
    LET climb[probe \in Nat] ==
          IF probe > MAX_DISCOVERY_PROBE_ID \/ probe \notin live THEN probe
          ELSE climb[Lesser(2 * probe, MAX_DISCOVERY_PROBE_ID + 1)]
    IN  climb[1]

findMaxId ==
    LET search[lo, hi \in Nat] ==
          IF lo >= hi THEN lo
          ELSE LET mid == (lo + hi + 1) \div 2
               IN  IF mid \in live THEN search[mid, hi] ELSE search[lo, mid - 1]
        found == search[FirstProbeMissing \div 2,
                        Lesser(FirstProbeMissing, MAX_DISCOVERY_PROBE_ID)]
    IN  IF found \in live THEN found ELSE 0

\* getRegisteredAgentCount: the contract's count, or the search when it fails.
AgentCount(answers) == IF answers THEN Cardinality(live) ELSE findMaxId

\* getAllAgents: ids 1 up to the count; those that are gone answer null.
ListAgents(answers) ==
    /\ shown' = [items |-> live \cap 1 .. AgentCount(answers),
                 total |-> AgentCount(answers), hasNext |-> FALSE]
    /\ UNCHANGED <<nextId, live, vectorIndex>>

\* getAgentsPage
PageOfAgents(page, pageSize, answers) ==
    /\ LET start == (page - 1) * pageSize + 1
           end == Lesser(start + pageSize - 1, AgentCount(answers))
       IN  shown' = [items |-> live \cap start .. end,
                     total |-> AgentCount(answers), hasNext |-> end < AgentCount(answers)]
    /\ UNCHANGED <<nextId, live, vectorIndex>>

\* getJobsPage, newest first.  Jobs never go, so their count is their last id: the
\* ids of agents stand for them here as long as none was deregistered.
PageOfJobs(page, pageSize) ==
    /\ live = 1 .. nextId
    /\ LET before == (page - 1) * pageSize
           endId == nextId - before            \* 0 when the page is beyond the first job
           startId == IF endId > pageSize THEN endId - pageSize + 1 ELSE 1
       IN  shown' = [items |-> startId .. endId, total |-> nextId, hasNext |-> startId > 1]
    /\ UNCHANGED <<nextId, live, vectorIndex>>

\* matchAgents with embeddings: what is found is indexed, and stays indexed until
\* the agents are invalidated.
MatchAgents(answers) ==
    /\ vectorIndex' = vectorIndex \cup (live \cap 1 .. AgentCount(answers))
    /\ UNCHANGED <<nextId, live, shown>>

\* A registration through the dashboard; invalidateAgents clears the index.
RegisterAgent ==
    /\ nextId < MaxId /\ nextId' = nextId + 1 /\ live' = live \cup {nextId + 1}
    /\ vectorIndex' = {} /\ UNCHANGED shown

\* External: an owner deregisters, past the dashboard.
AgentLeaves(a) ==
    /\ a \in live /\ live' = live \ {a} /\ UNCHANGED <<nextId, vectorIndex, shown>>

DiscoveryNext ==
    \/ RegisterAgent \/ \E a \in live : AgentLeaves(a)
    \/ \E answers \in BOOLEAN :
         \/ ListAgents(answers) \/ MatchAgents(answers)
         \/ \E page \in 1 .. MaxId, pageSize \in PageSizes : PageOfAgents(page, pageSize, answers)
    \/ \E page \in 1 .. MaxId, pageSize \in PageSizes :
         nextId >= (page - 1) * pageSize /\ PageOfJobs(page, pageSize)

\* Nothing is listed that is not there or was not there when it was listed; types.
DiscoveryTypeOK ==
    /\ nextId \in 0 .. MaxId /\ live \subseteq 1 .. nextId /\ vectorIndex \subseteq 1 .. nextId
    /\ shown.items \subseteq 1 .. nextId /\ shown.total \in 0 .. nextId /\ shown.hasNext \in BOOLEAN
=============================================================================
