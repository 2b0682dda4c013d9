SPECIFICATION Spec
CONSTANTS
    Focuses = {"indexer", "migrations", "rows", "postgres", "webhook", "reputation",
               "orchestrator", "shutdown", "registry", "seller", "watcher", "letters",
               "buyer", "auth", "dashboardTx", "discovery", "deliverable"}
    Contracts = {"commerce", "identity"}
    batchSize = 3
    maxReorgDepth = 2
    MaxLedger = 4
    MaxReorgs = 2
    MaxRpcErrors = 1
    MaxStops = 2
    MigrationFiles = {1, 2}
    MaxRows = 4
    MaxRowLedger = 2
    pageLimit = 2
    Adapters = {"a1", "a2"}
    PgCalls = {"p1", "p2"}
    PgEvents = {1, 2}
    poolMax = 1
    MAX_ATTEMPTS = 3
    RatedAgents = {"a", "b"}
    MaxJobEvents = 2
    MaxComputations = 1
    Requests = {r1, r2}
    Registrations = {h1, h2}
    Agents = {s1}
    MISSED_BEATS_LIMIT = 2
    failureThreshold = 2
    MaxTime = 4
    MaxForgets = 1
    Posts = {p1, p2, p3}
    JobIds = {j1, j2}
    maxAttempts = 2
    rateLimit = 2
    WatchedJobs = {w1, w2}
    MaxTicks = 2
    DlqJobs = {"d1"}
    Replayers = {"y1", "y2"}
    maxRetries = 1
    Sellers = {1, 2}
    maxCreateAttempts = 2
    Accounts = {"a"}
    limit = 2
    windowMs = 1
    ttlMs = 1
    JWT_EXPIRY = 2
    MAX_AUDIT_ENTRIES = 1
    AuditFileSize = 1
    MaxChallenges = 2
    MaxClock = 2
    Txs = {t1}
    SubmitPosts = {q1, q2}
    Readers = {g1, g2}
    MaxBuilds = 2
    MaxVersion = 2
    MaxId = 4
    MAX_DISCOVERY_PROBE_ID = 3
    PageSizes = {2}
    safeBrowsingApiKey = TRUE
    virusTotalApiKey = TRUE
INVARIANTS TypeOK IndexIsExact StoreKeeps OfflineIsNotListed DeliverableIsItsJobs PlanRunsOut WorkIsKept SentOnce
CONSTRAINT StillClean
CHECK_DEADLOCK FALSE
