\* A job started while the recovery of this process runs.
SPECIFICATION Spec
CONSTANTS
    r1 = r1
    r2 = r2
    MaxJobId = 1
    MaxConcurrent = 1
    Facets = {"page_classifier"}
    SFFacets = {}
    DefaultFacet = "page_classifier"
    FacetMax <- MCFacetMax
    Attachments = {}
    Requests = {r1}
    Operations = {"create"}
    NewJobLocks = {"none"}
    Sinks = {}
    Keys = {}
    WritesFail = FALSE
    EarlyRequests = TRUE
    MaxCrashes = 0
CHECK_DEADLOCK FALSE
PROPERTY RecoveryFailsOnlyOrphans
