\* The links of a page cannot be read.
SPECIFICATION MCSpec
CONSTANTS
    Foci = {"crawls"}
    c1 = c1
    c2 = c2
    c3 = c3
    Crawls = {c1}
    BudgetBytes = 12
    FairShareSlots = 1
    Ceiling <- MCCeiling
    MaxUrls <- MCMaxUrls
    BodySizes = {4}
    LinkSizes = {1}
    PageOverheads = {1}
    ReleaseBodies = TRUE
    Supervisors = {daemon, server}
    Patient = {daemon}
    Pids = {1, 2, 3}
    MaxStarts = 4
CHECK_DEADLOCK FALSE
INVARIANT AbortedCrawlKeepsItsPages
