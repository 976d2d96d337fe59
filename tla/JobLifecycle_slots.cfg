\* Two jobs under two facets share the slots.
SPECIFICATION Spec
CONSTANTS
    r1 = r1
    r2 = r2
    MaxJobId = 2
    MaxConcurrent = 2
    Facets = {"page_classifier", "screaming_frog"}
    SFFacets = {"screaming_frog"}
    DefaultFacet = "page_classifier"
    FacetMax <- MCFacetMax
    Attachments = {}
    Requests = {r1}
    Operations = {"create", "sf", "cancel", "delete", "retry", "resume"}
    NewJobLocks = {"password"}
    Sinks = {"checkpoint"}
    Keys = {}
    WritesFail = FALSE
    EarlyRequests = FALSE
    MaxCrashes = 0
CHECK_DEADLOCK FALSE
INVARIANT SlotBookkeeping
INVARIANT EverySlotHasADispatch
INVARIANT EvictedCrawlIsCancelled
