\* One cast racing one getoffchainproposals call on the shared client.
CONSTANTS
    a1 = a1  a2 = a2  a3 = a3  a4 = a4  v1 = v1  v2 = v2  f1 = f1
    VoteIds = {v1}
    Addrs = {a1, a2, a3, a4}
    Outputs <- MCOutputs
    Weight <- MCWeight
    KeyOK <- MCAllKeys
    Fetchers = {f1}
    NoHolder = NoHolder
    LossyService = FALSE
    MaxCasts = 1
    MaxFetches = 1
SPECIFICATION Spec
INVARIANT ResultIsOwnReply
