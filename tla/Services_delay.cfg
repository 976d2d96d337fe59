SPECIFICATION FairSpec
CONSTANTS
    Foci = {"fetch"}
    Builds = {b1, b2, b3}
    FrogBuilds = {b1, b2}
    MaxDeliverables = 2
    MaxStops = 1
    root = root
    a = a
    l1 = l1
    l2 = l2
    Root = root
    Urls = {root, a, l1, l2}
    Refusable = {}
    Faceted = {l2}
    Looping = {l1, l2}
    PathDepth <- MCPathDepth
    MaxPages = 3
    DomReserve = 2
    MaxDepth = 1
    MinLoopUrls = 2
    MinDepthSpread = 2
    MaxLinks = 2
    MaxResumes = 1
    Lines <- MCLines
    TokenLength <- MCTokenLength
    Paths <- MCPaths
    MaxLines = 4
    Chars = {"a", "b", "*"}
    MaxPattern = 3
    MaxText = 3
    t1 = t1
    t2 = t2
    Takers = {t1, t2}
    Timeout <- MCTimeout
    Capacity = 2
    TokenTicks = 2
    MaxTime = 4
    h1 = h1
    h2 = h2
    home = home
    secret = secret
    local = local
    Tasks = {t1, t2}
    Hosts = {h1, h2}
    HostOf <- MCHostOf
    Start <- MCStart
    Unsafe = {local}
    Forbidden = {secret}
    Declaring = {h1}
    MaxRedirects = 1
    MaxAttempts = 2
CHECK_DEADLOCK FALSE
INVARIANT CrawlDelayIsAFloor
