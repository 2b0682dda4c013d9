SPECIFICATION Spec
CONSTANTS
    c = c  d = d  p = p  e = e  f = f  usdc = usdc  eurc = eurc
    h = h  g = g  uri = uri
    SECS_PER_HOUR = 1
    Addr = {c, p, e}
    Admins = {c}
    Treasuries = {c}
    ZeroAddr = ZeroAddr
    NotSet = NotSet
    Tokens = {usdc}
    FeeRates = {500}
    EvalThresholds = {15}
    TokenDecimals = {1}
    DefaultDecimals = 1
    AdminOps = {"pause"}
    MaxTime = 2
    Clients = {c}
    Providers = {p, e}
    Evaluators = {e}
    Budgets = {30}
    SlaTerms <- NoSlas
    Quorums <- NoRequests
    Batches <- NoRequests
    Hashes = {h}
    ZeroHash = ZeroHash
    Uris = {uri}
    Blank = Blank
    REFUND_TIMEOUT_SECS = 1
    MaxJobs = 2
    MilestonePlans <- FreshPlans
    MilestoneAmounts = {10, 20, 30}
    Payers = {}
    Payees = {}
    Deposits = {}
    Payments = {}
    ForeignVouchers <- NoRequests
    VoucherAmounts = {}
    VoucherNonces = {}
    CHANNEL_DISPUTE_WINDOW_SECS = 1
    MaxChannels = 0
INVARIANT NeverOverpaid
CHECK_DEADLOCK FALSE
