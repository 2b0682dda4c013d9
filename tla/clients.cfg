SPECIFICATION Spec
CONSTANTS
    Focuses = {"x402", "tx", "stream", "storage", "decoding", "jobCalls", "session", "identity", "calls", "dedup",
               "lists", "wallet", "job", "commerce", "channel", "dashWallet", "page"}
    Calls = {c1}
    MaxPay = 2
    Reqs = {r1, r2}
    MaxForget = 1
    MaxTransient = 1
    maxPaymentAttempts = 3
    retries = 1
    Invokes = {i1}
    Reads = {q}
    Endpoints <- TwoEndpoints
    maxSeqRetries = 1
    maxConsecutiveFailures = 1
    MaxRpcFailures = 2
    MaxExternal = 1
    timeBound = 1
    PollTimeouts = {1, 2}
    MaxNow = 3
    maxChunks = 2
    MaxLines = 3
    Providers <- TwoProviders
    Gateways = 2
    Apps = {a1, a2}
    MaxBudget = 2
    MaxJobs = 2
    MaxPolls = 1
    LargestAmount = 2
    MAX_BATCH_JOBS = 2
    MAX_EVALUATORS = 2
    MAX_MILESTONES = 2
    Hashes = {"h1"}
    Bearers = {"b1", "b2", "b3"}
    dedupTtl = 2
    MaxDedupClock = 4
    JobTabs = {"All", "Active"}
    JobPages = 2
    MaxLoads = 2
    WalletProvider = {"freighter", "xbull"}
    MaxRuns = 2
    MaxDisconnects = 1
    Mounts = {m1}
    MaxVersion = 2
    MaxReads = 2
    MaxFetches = 2
    HookCalls = {"a", "b"}
    MaxDeposit = 1
    MaxChannels = 2
    MaxNonce = 3
    MaxReloads = 1
    Accounts = {"a", "b"}
    MaxChanges = 3
    maxRetryDelay = 2
    Intervals = {0, 1}
    Routes = {"/", "/jobs"}
    MaxEvents = 3
SYMMETRY Symmetry
INVARIANTS TypeOK ChargedOnce DecodedAsEmitted CallsReachContract AddressIsShownWallets NeverStuck HeldAlone 
PROPERTIES TimeoutIsFinal
CHECK_DEADLOCK FALSE
