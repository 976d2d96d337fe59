\* Two requests with one key, each waiting for its password to be hashed.
SPECIFICATION Spec
CONSTANTS
    r1 = r1
    r2 = r2
    MaxJobId = 2
    MaxConcurrent = 2
    Facets = {"page_classifier"}
    SFFacets = {}
    DefaultFacet = "page_classifier"
    FacetMax <- MCFacetMax
    Attachments = {}
    Requests = {r1, r2}
    Operations = {"create"}
    NewJobLocks = {"password"}
    Sinks = {}
    Keys = {"k"}
    WritesFail = FALSE
    EarlyRequests = TRUE
    MaxCrashes = 0
CHECK_DEADLOCK FALSE
PROPERTY KeyKeepsItsJob
