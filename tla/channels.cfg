SPECIFICATION Spec
CONSTANTS
    c = c  d = d  p = p  e = e  f = f  usdc = usdc  eurc = eurc
    h = h  g = g  uri = uri
    SECS_PER_HOUR = 1
    Addr = {c, p}
    Admins = {c}
    Treasuries = {c, ZeroAddr}
    ZeroAddr = ZeroAddr
    NotSet = NotSet
    Tokens = {usdc}
    FeeRates = {500}
    EvalThresholds = {15}
    TokenDecimals = {1, 39}
    DefaultDecimals = 1
    AdminOps = {"re_init", "pause", "channels", "treasury", "tokens"}
    MaxTime = 4
    Clients = {}
    Providers = {}
    Evaluators = {}
    Budgets = {20}
    SlaTerms <- NoSlas
    Quorums <- NoRequests
    Batches <- NoRequests
    Hashes = {h}
    ZeroHash = ZeroHash
    Uris = {uri}
    Blank = Blank
    REFUND_TIMEOUT_SECS = 1
    MaxJobs = 0
    MilestonePlans <- NoRequests
    MilestoneAmounts = {10, 20, 30}
    Payers = {c}
    Payees = {p, c}
    Deposits = {0, 2}
    Payments = {1}
    ForeignVouchers <- Overdrawn
    VoucherAmounts = {0, 1, 2, 3}
    VoucherNonces = {1, 2}
    CHANNEL_DISPUTE_WINDOW_SECS = 2
    MaxChannels = 2
INVARIANTS Solvent SettledBySignature
PROPERTIES WindowIsHonoured
CHECK_DEADLOCK FALSE
