\* Two casts on the same vote id.
CONSTANTS
    a1 = a1  a2 = a2  a3 = a3  a4 = a4  v1 = v1  v2 = v2  f1 = f1
    VoteIds = {v1}
    Addrs = {a1, a2, a3, a4}
    Outputs <- MCOutputs
    Weight <- MCWeight
    KeyOK <- MCAllKeys
    Fetchers = {}
    NoHolder = NoHolder
    LossyService = FALSE
    MaxCasts = 2
    MaxFetches = 0
SPECIFICATION Spec
PROPERTY RepeatCastBlocked
