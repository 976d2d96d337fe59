\* Two approvals, one of them of a URL list; two confirms; a crash and an abandoned request.
SPECIFICATION FairSpec
CONSTANTS
    Tokens = {t1, t2}
    ListTokens = {t1}
    Confirms = {c1, c2}
    MaxCrashes = 1
    MaxAbandoned = 1
CHECK_DEADLOCK FALSE
INVARIANT OneJobPerApproval
INVARIANT UploadedHasBundle
PROPERTY ImplementsCrawlOrders
PROPERTY ClaimedJobSettles
