SPECIFICATION FairSpec
CONSTANTS
    old = old
    new = new
    Id = {old, new}
    Proto = proto
    Sample = {old}
    Start = {3}
    Thread = {t1, t2}
    MaxLikes = 2
    Thousand = 2
    Amount <- Amounts
    Most = 2
    Enough = 4
    Hash <- Addresses
    Run = {r1, r2}
    MaxActs = 4
INVARIANTS
    BlogInv
    LimitKept
    ShowsOwnPost
PROPERTIES
    LikesAddUp
    RendersEnd
CHECK_DEADLOCK FALSE
