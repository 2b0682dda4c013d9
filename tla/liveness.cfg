SPECIFICATION FairSpec
CONSTANTS
    c = c  d = d  p = p  e = e  f = f  usdc = usdc  eurc = eurc
    h = h  g = g  uri = uri
    SECS_PER_HOUR = 1
    Addr = {c, p}
    Admins = {c}
    Treasuries = {c}
    ZeroAddr = ZeroAddr
    NotSet = NotSet
    Tokens = {usdc}
    FeeRates = {500}
    EvalThresholds = {15}
    TokenDecimals = {1, 39}
    DefaultDecimals = 1
    AdminOps = {"channels"}
    MaxTime = 3
    Clients = {c}
    Providers = {p}
    Evaluators = {c}
    Budgets = {20}
    SlaTerms <- NoSlas
    Quorums <- NoRequests
    Batches <- NoRequests
    Hashes = {h}
    ZeroHash = ZeroHash
    Uris = {uri}
    Blank = Blank
    REFUND_TIMEOUT_SECS = 1
    MaxJobs = 1
    MilestonePlans <- NoRequests
    MilestoneAmounts = {10, 20, 30}
    Payers = {c}
    Payees = {p}
    Deposits = {2}
    Payments = {1}
    ForeignVouchers <- NoRequests
    VoucherAmounts = {1, 2}
    VoucherNonces = {1, 2}
    CHANNEL_DISPUTE_WINDOW_SECS = 1
    MaxChannels = 1
INVARIANTS HigherVoucherAccepted
PROPERTIES SubmittedIsSettled ChannelIsSettled
CHECK_DEADLOCK FALSE
