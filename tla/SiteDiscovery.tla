--------------------------- MODULE SiteDiscovery ---------------------------
(* The serial crawl: discover_site, its three discovery paths, the graph     *)
(* they fill (SiteGraph) and its report, and resume_job's second crawl       *)
(* (src/src/modules/seo/page_classifier/discovery.py, relative_loops.py,     *)
(* src/src/api/server.py).  What a site lists and links is chosen as it is   *)
(* read.                                                                     *)
EXTENDS Integers, SequencesExt

CONSTANTS
    Root,           \* base_url
    Urls,           \* addresses, normalised, Root among them
    Refusable,      \* media, traps, malformed or filtered addresses
    Faceted,        \* filter permutations
    Looping,        \* addresses with one repeated tail
    PathDepth,      \* of each looping address
    MaxPages,       \* max_pages
    DomReserve,        \* dom_reserve
    MaxDepth,       \* max_depth
    MinLoopUrls, MinDepthSpread,
    MaxLinks,       \* bound on what a page links, and a sitemap or CMS lists
    MaxResumes      \* bound on resumed crawls

ASSUME SiteAssumption ==
    /\ Root \in Urls \ (Refusable \cup Looping \cup Faceted)
    /\ Refusable \cup Looping \cup Faceted \subseteq Urls
    /\ {MaxPages, MinLoopUrls} \subseteq Nat \ {0}
    /\ Refusable \cap Looping = {}
    /\ {DomReserve, MaxDepth, MinDepthSpread, MaxLinks, MaxResumes} \subseteq Nat
    /\ PathDepth \in [Looping -> Nat]

VARIABLES
    graph,       \* the SiteGraph
    phase,       \* "sitemap", "cms", "listed", "seeds", "crawl", "done" or "aborted"
    frontier,    \* the queue of [url, depth]
    visited,     \* _crawl_dom's `seen`
    requests,    \* how often each page was requested in this crawl
    seeds,       \* seed_urls still to queue
    resumed,     \* the checkpoint that this crawl resumes
    checkpoint,  \* the last one written: what it holds and what it had not fetched
    resumes

siteVars == <<graph, phase, frontier, visited, requests, seeds, resumed, checkpoint, resumes>>

PreCrawlBudget == IF MaxPages > DomReserve THEN MaxPages - DomReserve ELSE 1

EmptyGraph ==
    [nodes |-> <<>>, source |-> [u \in Urls |-> {}], depth |-> [u \in Urls |-> MaxDepth + 2],
     members |-> {}, copies |-> 0, confirmed |-> FALSE,
     fetched |-> {}, refused |-> FALSE,
     pages_fetched |-> 0, pages_not_retrieved |-> 0, faceted_skipped |-> 0,
     resume_excluded |-> 0, depth_capped |-> 0]

NoCheckpoint == [held |-> {}, unfetched |-> <<>>]

\* An earlier crawl's checkpoint is one this module writes.
SiteInit ==
    /\ graph = EmptyGraph /\ phase = "sitemap" /\ frontier = <<>> /\ visited = {}
    /\ requests = [u \in Urls |-> 0] /\ seeds = <<>> /\ resumed = NoCheckpoint
    /\ checkpoint = NoCheckpoint /\ resumes = 0

Holds(g, u) == u \in ToSet(g.nodes)

\* What a sequence holds outside of a set, in its order.
Without(s, cut) ==
    FoldLeft(LAMBDA kept, u : IF u \in cut THEN kept ELSE Append(kept, u), <<>>, s)

-----------------------------------------------------------------------------
(* SiteGraph.                                                                *)

\* LoopWatcher.observe: the calls under a tail are counted, and the depths they are at.
Observed(g, u) ==
    [g EXCEPT !.members = @ \cup {u}, !.copies = IF @ < MinLoopUrls THEN @ + 1 ELSE @]

ConfirmsLoop(g) ==
    /\ g.copies >= MinLoopUrls
    /\ Cardinality({PathDepth[u] : u \in g.members}) >= MinDepthSpread

Evict(g) ==
    [g EXCEPT !.nodes = Without(@, g.members),
              !.fetched = @ \ g.members, !.confirmed = TRUE]

Watched(g, u) ==
    IF u \notin Looping \/ g.confirmed THEN g
    ELSE IF ConfirmsLoop(Observed(g, u)) THEN Evict(Observed(g, u)) ELSE Observed(g, u)

Refuses(g, u) == u \in Refusable \/ (u \in Looping /\ g.confirmed)

\* The paths that do not follow links leave the reserve alone.
Full(g, source) == Len(g.nodes) >= IF source = "dom" THEN MaxPages ELSE PreCrawlBudget

\* SiteGraph.add: the graph afterwards; `u` was refused unless it is in it.
Add(g, u, source, depth) ==
    LET w == IF u \in Refusable THEN g ELSE Watched(g, u) IN
    IF Refuses(w, u) THEN w
    ELSE IF ~Holds(w, u) /\ Full(w, source) THEN [w EXCEPT !.refused = TRUE]
    ELSE [w EXCEPT !.nodes = IF Holds(w, u) THEN @ ELSE Append(@, u),
                   !.source[u] = @ \cup {source},
                   !.depth[u] = IF depth < @ THEN depth ELSE @]

\* add's answer is a node: what it refused is not in the graph.
Accepts(g, u, source, depth) == Holds(Add(g, u, source, depth), u)

\* Mistake: only the targets that are new to the graph are returned.
RecordNewLinks(g, links, depth) ==
    FoldLeft(LAMBDA r, u :
               [graph |-> Add(r.graph, u, "dom", depth + 1),
                recorded |-> IF ~Holds(r.graph, u) /\ Accepts(r.graph, u, "dom", depth + 1)
                             THEN Append(r.recorded, u) ELSE r.recorded],
             [graph |-> g, recorded |-> <<>>], links)

\* record_links: the graph, and the targets that it accepted.
RecordLinks(g, links, depth) ==
    FoldLeft(LAMBDA r, u :
               [graph |-> Add(r.graph, u, "dom", depth + 1),
                recorded |-> IF Accepts(r.graph, u, "dom", depth + 1)
                             THEN Append(r.recorded, u) ELSE r.recorded],
             [graph |-> g, recorded |-> <<>>], links)

Unfetched(g) == Without(g.nodes, g.fetched)

\* The counters of the report.
TotalUrls(g) == Len(g.nodes)
SitemapOnly(g) ==
    Cardinality({u \in ToSet(g.nodes) : "sitemap" \in g.source[u] /\ "dom" \notin g.source[u]})
CmsOnlyUnlinked(g) ==
    Cardinality({u \in ToSet(g.nodes) : g.source[u] = {"cms"}})
Unaccounted(g) ==
    TotalUrls(g) - g.pages_fetched - g.pages_not_retrieved - SitemapOnly(g)
    - CmsOnlyUnlinked(g) - g.faceted_skipped - g.resume_excluded - g.depth_capped

-----------------------------------------------------------------------------
(* discover_site.                                                            *)

\* What is listed or linked, in its order.
Listings == {s \in SeqOf(Urls, MaxLinks) : IsInjective(s)}

AddAll(g, urls, source) == FoldLeft(LAMBDA h, u : Add(h, u, source, MaxDepth + 2), g, urls)

\* _homepage_sitemap_links requests the root for the sitemaps that it names, before any list is
\* read and whatever exclude_urls holds; the sitemap files themselves are not counted.
ReadSitemaps ==
    /\ phase = "sitemap" /\ phase' = "cms"
    /\ requests' = [requests EXCEPT ![Root] = @ + 1]
    /\ \E urls \in Listings : graph' = AddAll(graph, urls, "sitemap")
    /\ UNCHANGED <<frontier, visited, seeds, resumed, checkpoint, resumes>>

ReadCms ==
    /\ phase = "cms" /\ phase' = "listed"
    /\ \E urls \in Listings : graph' = AddAll(graph, urls, "cms")
    /\ UNCHANGED <<frontier, visited, requests, seeds, resumed, checkpoint, resumes>>

Saved(g) == [held |-> ToSet(g.nodes), unfetched |-> Unfetched(g)]

\* A checkpoint is offered first; it may be too early for one.  The root enters the frontier
\* whether or not the graph takes it.
StartCrawl ==
    /\ phase = "listed" /\ phase' = "seeds"
    /\ graph' = Add(graph, Root, "dom", 0)
    /\ frontier' = <<[url |-> Root, depth |-> 0]>> /\ visited' = {Root}
    /\ checkpoint' \in {checkpoint, Saved(graph)}
    /\ UNCHANGED <<requests, seeds, resumed, resumes>>

\* Mistake: a seed that is already queued is queued again.
QueueAnySeed ==
    /\ phase = "seeds" /\ seeds # <<>>
    /\ seeds' = Tail(seeds)
    /\ graph' = Add(graph, Head(seeds), "dom", 0)
    /\ visited' = visited \cup {Head(seeds)}
    /\ frontier' = IF Holds(graph', Head(seeds))
                   THEN Append(frontier, [url |-> Head(seeds), depth |-> 0]) ELSE frontier
    /\ UNCHANGED <<phase, requests, resumed, checkpoint, resumes>>

QueueSeed ==
    /\ phase = "seeds" /\ seeds # <<>>
    /\ seeds' = Tail(seeds)
    /\ IF Head(seeds) \in visited THEN UNCHANGED <<graph, visited, frontier>>
       ELSE /\ graph' = Add(graph, Head(seeds), "dom", 0)
            /\ visited' = visited \cup {Head(seeds)}
            /\ frontier' = IF Holds(graph', Head(seeds))
                           THEN Append(frontier, [url |-> Head(seeds), depth |-> 0])
                           ELSE frontier
    /\ UNCHANGED <<phase, requests, resumed, checkpoint, resumes>>

SeedsQueued ==
    /\ phase = "seeds" /\ seeds = <<>> /\ phase' = "crawl"
    /\ UNCHANGED <<graph, frontier, visited, requests, seeds, resumed, checkpoint, resumes>>

Popped == Head(frontier)

\* Mistake: everything that was discovered.
AllExcluded == resumed.held

\* exclude_urls: what the checkpoint holds and does not name as outstanding.
Excluded == resumed.held \ ToSet(resumed.unfetched)

\* Why the next page is not requested, in the order of the checks.
SkipReason ==
    IF Popped.depth > MaxDepth THEN "depth_capped"
    ELSE IF Popped.url \in Faceted THEN "faceted_skipped"
    ELSE IF Popped.url \in Excluded THEN "resume_excluded"
    ELSE "none"

Skip ==
    /\ phase = "crawl" /\ frontier # <<>> /\ SkipReason # "none"
    /\ graph' = [graph EXCEPT ![SkipReason] = @ + 1]
    /\ frontier' = Tail(frontier)
    /\ UNCHANGED <<phase, visited, requests, seeds, resumed, checkpoint, resumes>>

Request ==
    /\ phase = "crawl" /\ frontier # <<>> /\ SkipReason = "none"
    /\ requests' = [requests EXCEPT ![Popped.url] = @ + 1]

\* No answer, a refusal, another status or another kind of document.
PageFails ==
    /\ Request
    /\ graph' = [graph EXCEPT !.pages_not_retrieved = @ + 1]
    /\ frontier' = Tail(frontier)
    /\ UNCHANGED <<phase, visited, seeds, resumed, checkpoint, resumes>>

Enqueue(queue, targets, depth) ==
    queue \o [i \in DOMAIN targets |-> [url |-> targets[i], depth |-> depth]]

\* The page is stored, a checkpoint may be due, and its links are followed.
PageLands ==
    /\ Request
    /\ LET stored == [graph EXCEPT !.fetched = @ \cup {Popped.url}, !.pages_fetched = @ + 1] IN
       \E links \in Listings :
         LET read == RecordLinks(stored, links, Popped.depth)
             fresh == Without(read.recorded, visited)
         IN /\ graph' = read.graph
            /\ frontier' = Enqueue(Tail(frontier), fresh, Popped.depth + 1)
            /\ visited' = visited \cup ToSet(fresh)
            /\ checkpoint' \in {checkpoint, Saved(stored)}
    /\ UNCHANGED <<phase, seeds, resumed, resumes>>

CrawlEnds ==
    /\ phase = "crawl" /\ frontier = <<>> /\ phase' = "done"
    /\ UNCHANGED <<graph, frontier, visited, requests, seeds, resumed, checkpoint, resumes>>

\* An exception out of _crawl_dom, which alone returns the number of fetched pages; or the
\* process is gone.
CrawlAborts ==
    /\ phase = "crawl" /\ phase' = "aborted"
    /\ graph' = [graph EXCEPT !.pages_fetched = 0]
    /\ UNCHANGED <<frontier, visited, requests, seeds, resumed, checkpoint, resumes>>

-----------------------------------------------------------------------------
(* resume_job: a second crawl, told what the checkpoint had and had not.     *)

Resume ==
    /\ phase \in {"done", "aborted"} /\ resumes < MaxResumes /\ resumes' = resumes + 1
    /\ checkpoint.unfetched # <<>>
    /\ seeds' = checkpoint.unfetched /\ resumed' = checkpoint
    /\ graph' = EmptyGraph /\ phase' = "sitemap" /\ frontier' = <<>> /\ visited' = {}
    /\ requests' = [u \in Urls |-> 0]
    /\ UNCHANGED checkpoint

SiteNext ==
    \/ ReadSitemaps \/ ReadCms \/ StartCrawl \/ QueueSeed \/ SeedsQueued
    \/ Skip \/ PageFails \/ PageLands \/ CrawlEnds \/ CrawlAborts \/ Resume

SiteSpec == SiteInit /\ [][SiteNext]_siteVars

-----------------------------------------------------------------------------
(* Properties.                                                               *)

\* The report's counters name a reason for every URL that was discovered and not fetched, and
\* none twice.  Not so when a loop was confirmed, or the graph had no room for the root.
EveryUrlIsExplained ==
    phase = "done" /\ ~graph.confirmed /\ Holds(graph, Root) => Unaccounted(graph) = 0

\* The request that the sitemaps' phase makes for the root.
Probes(u) == IF u = Root THEN 1 ELSE 0

\* The crawl requests a page once, whether the root, a seed or a link brings it, and never one
\* that the interrupted crawl had saved as fetched.  The root is requested once more by each
\* crawl, a resume that excludes it too: the probe for its sitemaps is neither the crawl's nor
\* kept for it.
NoPageIsRequestedAgain ==
    \A u \in Urls :
        /\ requests[u] <= 1 + Probes(u)
        /\ u \in resumed.held \ ToSet(resumed.unfetched) => requests[u] <= Probes(u)

\* A resumed crawl requests all that was left (the root for its links too), unless the site's own answers have filled the graph.
ResumeReachesWhatWasLeft ==
    phase = "done" /\ ~graph.refused /\ ~graph.confirmed
        => \A u \in ToSet(resumed.unfetched) : u \in Faceted \/ requests[u] = 1 + Probes(u)
=============================================================================
