\* One job, two requests racing to stop it, one crash.
SPECIFICATION Spec
CONSTANTS
    r1 = r1
    r2 = r2
    MaxJobId = 1
    MaxConcurrent = 1
    Facets = {"page_classifier"}
    SFFacets = {}
    DefaultFacet = "page_classifier"
    FacetMax <- MCFacetMax
    Attachments = {"performance"}
    Requests = {r1, r2}
    Operations = {"create", "cancel", "delete"}
    NewJobLocks = {"none", "password"}
    Sinks = {"checkpoint", "homepage", "delete_lockout"}
    Keys = {}
    WritesFail = TRUE
    EarlyRequests = TRUE
    MaxCrashes = 1
SYMMETRY RequestSymmetry
CHECK_DEADLOCK FALSE
INVARIANT TypeOK
INVARIANT AdvertisedIsOnDisk
INVARIANT OpenJobHasAWriter
INVARIANT BudgetCountsRunningCrawls
PROPERTY DeletedStaysDeleted
PROPERTY SettledJobKeepsItsStatus
