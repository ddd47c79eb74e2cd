CONSTANTS
    q1 = q1
    q2 = q2
    q3 = q3
    v1 = v1
    v2 = v2
    v3 = v3
    empty = empty
    noprop = noprop
    Props <- ThreeProps
    Name <- UniqueNames
    NoName <- EmptyText
    Vid <- VoteIdsOf
    NoVid = empty
    Rank <- NameOrder
    Filters <- TwoFilters
    NoFilter <- EmptyText
    Matches <- FilterMatch
    NoProp = noprop
    MaxGets = 3
    Growing = FALSE
SPECIFICATION Spec
INVARIANT DetailsNeverThrow
