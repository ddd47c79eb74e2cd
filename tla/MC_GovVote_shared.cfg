\* A getoffchainproposals caller shares g_governance; the service may lose requests, which hangs the spinning thread, so the model may stop.
CONSTANTS
    a1 = a1  a2 = a2  a3 = a3  a4 = a4  v1 = v1  v2 = v2  f1 = f1
    VoteIds = {v1}
    Addrs = {a1, a2, a3, a4}
    Outputs <- MCOutputs
    Weight <- MCWeight
    KeyOK <- MCKeyMissing
    Fetchers = {f1}
    NoHolder = NoHolder
    LossyService = TRUE
    MaxCasts = 2
    MaxFetches = 2
SPECIFICATION Spec
PROPERTY NoCastOverLedgerEntry
CHECK_DEADLOCK FALSE
