\* Three crawls under a budget of two shares: a cancelled one drains beside two others.
\* Two supervisors and the crawler of one, of which one starts again after a stop; or strangers
\* that take the pids of those that are gone.
SPECIFICATION MCSpec
CONSTANTS
    Foci = {"crawls", "ledger"}
    c1 = c1
    c2 = c2
    c3 = c3
    Crawls = {c1, c2, c3}
    BudgetBytes = 12
    FairShareSlots = 2
    Ceiling <- MCCeiling
    MaxUrls <- MCMaxUrls
    BodySizes = {4}
    LinkSizes = {1}
    PageOverheads = {1}
    ReleaseBodies = TRUE
    Supervisors = {daemon, server}
    Patient = {daemon}
    Pids = {1, 2, 3}
    MaxStarts = 4
SYMMETRY CrawlSymmetry
CHECK_DEADLOCK FALSE
INVARIANT TypeOK
INVARIANT ChargeCoversWhatIsHeld
INVARIANT UnstoppedFitTheBudget
PROPERTY StopReachesQueuedFetches
INVARIANT MemoryStopIsPartial
INVARIANT RunningChildHasSupervisor
INVARIANT EnrolledOrphanIsRecorded
PROPERTY ReapsOnlyOrphans
