\* Every job ends and every slot comes back: a job and the job
\* a reparse makes of it, a delete, and one crash.
SPECIFICATION FairSpec
CONSTANTS
    r1 = r1
    r2 = r2
    MaxJobId = 2
    MaxConcurrent = 1
    Facets = {"page_classifier"}
    SFFacets = {}
    DefaultFacet = "page_classifier"
    FacetMax <- MCFacetMax
    Attachments = {}
    Requests = {r1}
    Operations = {"create", "delete", "reparse"}
    NewJobLocks = {"password"}
    Sinks = {}
    Keys = {}
    WritesFail = TRUE
    EarlyRequests = TRUE
    MaxCrashes = 1
CHECK_DEADLOCK FALSE
PROPERTY EveryJobEnds
PROPERTY EverySlotComesBack
