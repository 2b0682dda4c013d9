SPECIFICATION Spec
CONSTANTS
    c = c  d = d  p = p  e = e  f = f  usdc = usdc  eurc = eurc
    h = h  g = g  uri = uri
    SECS_PER_HOUR = 1
    Addr = {c, p, e, f}
    Admins = {c}
    Treasuries = {f}
    ZeroAddr = ZeroAddr
    NotSet = NotSet
    Tokens = {usdc}
    FeeRates = {500, 600}
    EvalThresholds = {15}
    TokenDecimals = {1}
    DefaultDecimals = 1
    AdminOps = {"pause", "fee", "threshold"}
    MaxTime = 2
    Clients = {c}
    Providers = {c, p}
    Evaluators = {e}
    Budgets = {50}
    SlaTerms <- NoSlas
    Quorums <- SomeQuorums
    Batches <- SomeBatches
    Hashes = {h, g}
    ZeroHash = ZeroHash
    Uris = {uri}
    Blank = Blank
    REFUND_TIMEOUT_SECS = 1
    MaxJobs = 2
    MilestonePlans <- NoRequests
    MilestoneAmounts = {10, 20, 30}
    Payers = {}
    Payees = {}
    Deposits = {}
    Payments = {}
    ForeignVouchers <- NoRequests
    VoucherAmounts = {}
    VoucherNonces = {}
    CHANNEL_DISPUTE_WINDOW_SECS = 1
    MaxChannels = 0
INVARIANTS TypeOK Solvent SettledOnce FeeIsCapped PaidForDelivery EachCountedOnce QuorumDecides
PROPERTIES TerminalIsFinal HashIsImmutable PauseFreezes KeepsPromise
CHECK_DEADLOCK FALSE
