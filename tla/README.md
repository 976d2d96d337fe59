# Verification of the Rankuno engine

TLA+ models of the parts of the Rankuno engine (`src/src/`, Python) whose
correctness depends on interleavings, crashes and limits, the TLC runs that
check them on small instances, and TLAPS proofs of the main invariants for
instances of any size.

## 1. Inventory

The engine is a FastAPI process that runs SEO crawls as background jobs, a
governed tool layer, integrations with Search Console, GA4 and LLMs, and a
second program, the worker daemon, that runs Screaming Frog on an operator's
machine for a cloud deployment.

| component | state | operations | hard because |
|---|---|---|---|
| API job lifecycle (`api/server.py`) | slots (`_active`, `_facet_active`, `_cancel_flags`), idempotency registry, in-flight tasks | create, Screaming Frog create, cancel, delete, retry, resume, reparse, dispatch, startup recovery | handlers act on records read before an await; worker and recovery threads share the store with the event loop; crashes |
| Disk job store (`core/state_store.py`) | one record file and up to seven sidecars per job | create, `_transition`, finish, write_checkpoint, sidecar writes, lockout, delete, recover_orphans, import_terminal | two lock regions per publication, crash between files, no guard on status transitions |
| Facet router (`core/facet_router.py`) | none | limits and access per facet | – |
| Job password gate (`api/job_password_gate.py`) | lockout sidecar, principal rate limit | check, count a failure, clear | a check takes a quarter second on a thread, and others finish meanwhile |
| PostgreSQL store, circuit breaker, fallback recovery (`core/postgres_store.py`, `circuit_breaker.py`, `fallback_recovery.py`) | breaker state and counter, rows, fallback files | every job-store operation, probe, replay | an outage in the middle of a method; the breaker is shared by threads without a lock |
| Worker dispatch, cloud side (`core/worker_dispatch_store.py`, `api/worker_routes.py`, `api/worker_dashboard_routes.py`) | dispatch jobs, tokens, sequence numbers | confirm, claim, expire, upload, fail | lost answers, late uploads, check then act |
| Worker daemon (`modules/seo/screaming_frog_control/worker_daemon.py`, `core/worker_consumed_ledger.py`) | consumed ledger, running process | poll, verify, consume, run, upload | crash between consuming and running, retries |
| Preview tokens (`preview_tokens.py`) | tokens with an expiry | mint, peek, consume | peek on the loop, consume on a thread |
| Memory budget (`core/memory_budget.py`) | accounts with byte counters | open, charge, credit, close, choose a victim | several threads, clamped credits |
| Crawl engine (`async_discovery.py`, `discovery.py`, `tool.py`) | frontier, visited set, graph | sitemap, CMS and page phases, fetch a level, record, evict, checkpoint, stop, resume | page budget, cancellation and stall while fetches are in flight; a resumed crawl meets the seeds of the first |
| Rate limiter, retry (`core/rate_limiter.py`, `core/retry.py`) | tokens, penalty | acquire, pause, backoff | boundary arithmetic |
| Process supervisor (`core/process_supervisor.py`, `_process_ledger.py`, `_process_orphans.py`) | PID ledger | spawn, reap, reconcile | crash between spawn and ledger write, PID reuse |
| Deliverable builds (`api/deliverables_routes.py`) | build slots, build records | start, finish, evict | the same provisional-id protocol as jobs |
| Job import (`api/job_import_routes.py`) | – (writes the store) | import_terminal | duplicate imports |
| Robots rules (`core/robots.py`) | a parsed file | parse, choose a group and a rule, match a pattern | groups, tokens and wildcards tie; index backtracking |
| HTTP fetcher (`integrations/http_fetcher.py`) | robots cache, buckets per host | fetch, follow a redirect, read robots.txt, retry | redirects inside retries, several tasks reading one file |
| GSC/GA4 clients, authentication, tool governance, classification, parsers and reports, URL rules, configuration, UI | tokens, sessions, none | – | mostly I/O or pure data; see section 7 |

What makes these components correct: a record never advertises a file that is
not there; a deleted job stays deleted; every slot is released exactly by
whoever should, and no limit is exceeded; a crawl that lost its slot is told to
stop; every accepted job, build and fetch ends; the memory a crawl is charged
covers what it holds; the crawls that were not told to stop fit the budget; an
approved order starts at most one Screaming Frog crawl, and what was delivered
stays delivered; what a client was told is saved survives an outage and a
redeploy, and no job is split between two stores; an orphan sweep is after
orphans only and loses none; a page is requested once, the homepage's probe aside, and the
report accounts for every URL; no page request leaves unchecked.

## 2. Modules

| module | models | composed into |
|---|---|---|
| `FacetRouter` | the facets and their limits, as constants | all below |
| `ApiState` | `ApiState.try_reserve`, `release`, `rekey` as operators on the value of the three registries | `JobLifecycle` |
| `DiskJobStore` | the files of the job store; one action per lock region | `JobLifecycle` |
| `JobLifecycle` | handlers, worker threads, recovery thread, crashes | – |
| `MCJobLifecycle` | model values for the runs | – |
| `JobLifecycleProofs` | theorems about `JobLifecycle` | – |
| `MemoryBudget` | the accounts of `MemoryBudget`; one operation per locked region | `CrawlLevels` |
| `CrawlLevels` | the crawl threads: the level loop of `_acrawl`, `_gather_bounded` with its governor, the landing of a page in `_ahtml`, cancels, and the opening and closing of accounts by `_run_job` | – |
| `MCCrawlLevels` | model values for its runs, and the instance of `ProcessLedger` (one of the two per behaviour, `focus`) | – |
| `CrawlOrders` | abstract: an order starts at most one crawl, is given up or delivered | refined by `WorkerDispatch` |
| `WorkerDispatch` | preview, confirm, the cloud's job table, the daemon, its consumed ledger, and the network between them | – |
| `CircuitBreaker` | the breaker's writes, without a lock | `PostgresJobStore` |
| `PostgresJobStore` | a store method's transaction, lost COMMIT, fallback to the disk, import, redeploys | – |
| `DeliverableBuilds` | the build handlers, the build thread, the slot's release, stops of the server | `MCServices` |
| `ProcessLedger` | launching, terminating and reconciling supervised children, the sweep's check, snapshot and kills one by one, deaths and reused pids | `MCCrawlLevels` |
| `SiteDiscovery` | the serial crawl, its graph and report, and a resumed crawl | `MCServices` |
| `RobotsRules` | parser, group and rule choice, glob loop, each beside a reference definition | `MCServices` |
| `TokenBuckets` | the token bucket and its racing takers | `MCServices` |
| `PoliteFetcher` | the fetches of one crawl between two awaits | `MCServices` |
| `MCServices` | one of the five modules above per behaviour (`focus`): they share nothing, so their product would show nothing more | – |
| `MCPostgresJobStore` | model values for its runs | – |
| `CrawlLevelsProofs`, `SiteDiscoveryProofs`, `WorkerDispatchProofs`, `PostgresJobStoreProofs`, `RobotsRulesProofs` | theorems about the module they are named for | – |
| `ServicesProofs` | theorems about `TokenBuckets`, `PoliteFetcher`, `DeliverableBuilds` and `ProcessLedger` | – |
| `FoldFacts` | induction over finite sets, and what the folds of the community modules compute | the proofs about `CrawlLevels`, `SiteDiscovery` and `RobotsRules` |

`JobLifecycle` and `CrawlLevels` meet at the account: `JobLifecycle` shows that it is open
exactly while a crawl thread runs (`BudgetCountsRunningCrawls`) and abstracts
the crawl to the moments it touches the store; `CrawlLevels` starts where the
account is opened and says what the crawl does with it.

### How the state corresponds to the code

* `records[j]` is `<id>.json`: `status`, the advertised sidecars `has`
  (`has_result`, `has_checkpoint`), `facet_id`, `tool_name`, and whether there is a
  `password_hash` (`lock`). `sidecars[j]` is the set of `<id>.<kind>.json`
  files present. Ids are uuids in the code; here they are numbered in the order
  they are minted, which is also the `created_at` order that `list_jobs` sorts
  by. `MaxJobId` bounds how many are minted.
* `slots` holds `_active`, `_facet_active` and the keys of `_cancel_flags`;
  `cancelled` is the set of jobs whose `Event` is set (the thread keeps a
  reference to the event after the registry dropped it).
* `thread[j]` is the program counter of the job's worker thread from the
  hand-over in `_start` to the release in `_dispatch`: `submitted`, `opened`
  (memory account open), `crawling` (inside `tool.run`), `flagging` (between the
  two regions of `write_checkpoint`), `finishing` and `publishing` (the two
  regions of `finish`), `failing` (the tool's error), `crashing` (the except
  clause), `closing`/`raising` (the finally clause), `ended`/`raised` (back in
  `_dispatch`).
* `req[r]` is a handler in flight: what it read (`status`, `facet`, `lock`) and
  where it waits: `hash` (PBKDF2 of a new password), `gate` (the password check
  on a thread), `admitted` (back on the event loop), and the three store calls
  of `reparse_job`, which hold the event loop (`LoopFree`).
* `registry` is `_idempotency_registry`, `recovery` the thread of
  `_recover_in_bg`, `accounts` the open memory accounts, `classifiers` the jobs whose
  task runs `_run_job` and not `_run_sf_job`: a create under the Screaming Frog facet
  still runs the page classifier, because `facet_id` is the caller's.
* `abandoned` is read by no code: the open jobs whose writer raised in this process.
  A restart empties it, since the next recovery is to end them.
* `WritesFail` lets every record, result and checkpoint write raise `OSError` at
  any call (`MayRaise`); a homepage write that fails is swallowed by the store. Unlinks are
  taken to succeed. `EarlyRequests = FALSE` keeps requests until the recovery
  is over, and `Sinks` names the sidecars the crawl and the gate write: both only make
  an instance smaller, and the theorems hold for every value.

The code between two awaits of a handler is one action; each store call of a
thread is one action, because the store's lock is all that serialises threads.
`Restart` loses everything but the files; `CrashInDelete` dies between the
unlinks of `delete`.

* `accounts[c]` in `MemoryBudget` has the fields of `MemoryAccount`, with `open`
  for membership in `_accounts`. A closed account is reset: nothing reads it.
* `crawl[c]` is the state of one `_acrawl`: `frontier` counts the URLs of the
  next level and `left` those the graph still admits; a task of
  `_gather_bounded` is `fresh` (not run yet), `waiting` (on the governor) or
  `flying` (fetching); `results` are the link bytes of the landed pages in the
  order they will be recorded, or `Unread`. `phase` is `levels` at an await or
  at the level boundary; `landed` and `credit` are the points between the
  budget calls of one page, where the thread does not await but other crawls'
  threads may take the budget's lock.
* Pages and URLs are counted, not named. `BeginLevel` drops any number of them
  (faceted filters, resume exclusions); a level beyond `max_depth` is a level
  without URLs. The governor's narrowing and recovery are abstracted to a limit
  of at most the ceiling, which is all the budget's reserve relies on.

In the other modules:

* `WorkerDispatch`: `token` is a row of `worker_dispatch_previews`, `jobs` the
  job table in the order of `created_at` (`status`, whether a bundle is stored),
  `confirm` a confirm handler past `find_active_job`, `daemon` the program
  counter of the daemon's one thread with the job it holds, `ledger` its
  `ConsumedJobLedger` file, `requests` what the daemon sent and the cloud has
  not answered (a request it has given up on stays there and may be handled
  late), `reply` the answer it has not looked at. `launches` counts starts of
  Screaming Frog; no code reads it. Each store method is one transaction.
* `PostgresJobStore`: `rows` and `disk` are the two stores, `caller[c]` is where
  a thread is inside one store method (asking the breaker, in its transaction,
  after a COMMIT whose answer may be lost, falling back), `promised` is what
  clients were told is saved. The columns a method writes are one payload.
* `DeliverableBuilds`: `build[b]` is where the build's thread is, its record's
  status and which of its two files are written; `bundles` are uploaded
  Screaming Frog archives, `active` is `_deliverable_active`.
* `ProcessLedger`: `holder` is the operating system's process table (a pid and
  the start time of who has it), `kids` the children alive with what was done to
  them (`enrolled`, `jobbed`, `resumed`), `ledger` the file's entries, `sup` the
  supervisors with the launch or sweep they are in. `parent` is the parent pid that the
  system keeps of each process, also when the parent is gone and its pid has
  another holder. A sweep identifies an orphan (`Verdict`), takes one snapshot of
  what the recorded parents put below its pid (`TakeSnapshot`) and terminates
  pid by pid whatever has it by then (`KillTree`): strangers, the other supervisor or
  itself, whose death closes its job objects (`WithJobs`). A pid whose parents lead back
  to itself is walked for ever by `_descendant_pids`, so there is no snapshot then.
  Reopening the job object cannot succeed: its last handle was the dead supervisor's. A
  handle on a child keeps its pid from being given away (`Reserved`). `torn` records that
  a write replaced entries its writer had not read, `missed` the orphans that were
  not killed when others of their tree were, whose entries the code drops.
* `SiteDiscovery`: `graph` is `SiteGraph` with its counters, `frontier` and
  `visited` the locals of `_crawl_dom`, `requests` a count no code reads, to which
  the sitemap phase adds its probe of the homepage, `checkpoint` what a resume starts from.
* `RobotsRules`: `file` is what was read so far, `parser` the variables of
  `parse_robots_txt`, `glob` those of `_glob_full_match`.
* `TokenBuckets`: time and levels are in ticks, a token being `TokenTicks` of
  them, so no fraction is rounded. `grants` is when tokens were granted.
* `PoliteFetcher`: `robots` is the cache of rules, `pace` the rate each host's
  bucket was created with, `fetch[t]` where task `t` awaits, `hops` and `jumps`
  its redirects of the page and of robots.txt.

Left out of `JobLifecycle`: authentication, SSRF and Search Console admission
checks (a request that fails them changes nothing), telemetry writes (they
change no field a property reads), the principal rate limit (a refusal of the
gate), error texts. The lockout's arithmetic is abstracted to whether its file is there.

## 3. Runs

`CHECK_DEADLOCK FALSE` where the bounded ids, crawls or requests can be used up:
the process then idles for good. `stores` and `stuck` check for deadlock.

| run | module | instance | shows |
|---|---|---|---|
| `stop` | `MCJobLifecycle` | 1 job, 2 requests (symmetric), cancel and delete, password or none, checkpoint and homepage sinks, one attachment, writes that fail, 1 crash | advertisement, budget accounts, deleted stays deleted, an open job has somebody to end it, settled status |
| `slots` | `MCJobLifecycle` | 2 jobs, 2 facets, either tool under the Screaming Frog one, global limit 2, cancel, delete, retry and resume | registries agree, limits hold, no slot leaks, evicted jobs are cancelled |
| `ends` | `MCJobLifecycle` | 2 jobs, delete and reparse, writes that fail, requests during the recovery, 1 crash, fair threads | every job ends unless what was to end it raised, every slot comes back |
| `budget` | `MCCrawlLevels` | 3 crawls (two of them symmetric) under a budget of 12 shared by 2, bodies of 4 bytes, links and overhead of 1; the first crawl has two pages and one slot, the others one page and two slots. Apart from them 2 supervisors, 3 pids, 4 processes started | the charge covers what is held, one victim per charge is enough, a stop reaches the queued fetches, a memory stop is a partial result; no crawler outlives its supervisor, orphans stay recorded, a sweep is after orphans |
| `dispatch` | `WorkerDispatch` | 2 approvals, one of a URL list; 2 confirms; 1 daemon crash, 1 abandoned request | one job per approval, an uploaded order has its bundle, a claimed order settles, and the whole implements `CrawlOrders` |
| `stores` | `MCPostgresJobStore` | 2 callers, threshold 2, 1 source, 2 ids, 1 outage, 1 restart | one job per imported source, nothing promised is lost, no job is in two stores, a database that is back is used again, unless the breaker lost its failure time (`stuck`) |
| `services` | `MCServices` | see below | the properties of the five smaller modules |
| `boot`, `repeat`, `blocked`, `stuck`, `delay` | | minimal | statements of the repository that the code does not keep, section 5 |

The instances inside `services`: 3 builds, two of them of a Screaming Frog
bundle, 2 slots, 1 stop of the server; 4 URLs with two that loop, 3 pages of which 2 are reserved for the DOM,
depth 1, 2 links per page, 1 resume; every robots.txt of up to 4 lines out of 12
(two tokens of which one is longer, the wildcard, an empty one, ties between
allow and disallow, a delay beyond the cap) and 3 paths; every pattern and text
of up to 3 characters over two letters and `*`; 2 takers of one bucket with 2
tokens, one of them with a deadline, 4 ticks; 2 tasks that fetch one page, 3
URLs on 2 hosts of which one is disallowed and one refused, 1 redirect, 2
attempts.

In `budget` the fair share is 6 and a landed page projects to 9 or 13 bytes, so
one crawl alone may reach the budget, two always do, and either may be the
largest; a third crawl starts only when a cancelled one has given its slot back
and still drains, the one way more accounts than shares are open. Two pages are
what it takes for a stop to find a fetch queued behind one in flight, a second
level, and a page recorded after an unread one. `ReleaseBodies` is `TRUE` in the
runs, the case with credits; the proofs hold for both values. The four processes of
the ledger are an owner and its child, a second owner that sweeps, and one
that takes a pid again, between the sweep's check and its kill for instance. A sweep that kills
a descendant and misses the orphan, and a circle of recorded parents, take five:
the actions are there, but only the theorems reach these cases.

`ends` leaves out cancel, retry and resume. A cancel never leaves a job open (its
`mark_failed` ends the job or raises, and the thread goes on either way), a retry or a
resume starts a job just as a create does, and with them the instance
has over two million states, too many for its liveness check.

Why the bounds of the other runs are enough. The handlers of `JobLifecycle` never
relate more than two jobs (a job and the one derived from it, or two jobs at a
limit), two requests are needed for one to act on what the other made stale, and
one crash reaches every combination of files, since recovery runs in between. In
`dispatch` two approvals are what it takes for two confirms to race on one and to
queue two jobs, for one job to expire while the next is claimed; a URL list has
the one extra request of the protocol. In `stores` two callers interleave the
breaker's writes, a COMMIT whose answer is lost needs one outage, and the
redeploy wipes the disk in between. The largest run, `budget`, has 2.3 million
states. The theorems of section 4 hold for instances of any size.

**Fairness.**

* `ends`: a worker thread that was handed work and a recovery thread run (the OS
  schedules them); `tool.run` comes back although the crawl may checkpoint first
  (strong fairness, because the page budget and each request's deadline are
  finite while the checkpoint action keeps interrupting); a handler that holds
  the event loop goes on. No request is ever assumed to arrive, no gate to
  answer, no crash to happen.
* `dispatch`: somebody looks at the dashboard's list now and then. That is what
  sweeps stale orders in the code: nothing sweeps them by itself, and without
  this assumption a claimed order whose daemon died stays dispatched.
* `stores`: threads run, the recovery timeout elapses, and somebody polls a job
  now and then. Outages and restarts are never assumed; the property speaks of
  runs whose last outage ends.
* `services`: a build's thread and the event loop run; the glob loop goes
  on; tokens come and servers answer or time out (each request has a timeout in
  the code). A crawl's deadline is never assumed to pass.

## 4. Proofs

`JobLifecycleProofs` proves, for every number of jobs, requests, facets, limits
and crashes, from the assumptions on the constants alone:

* `TypeCorrect`: `Spec => []TypeOK`
* `AdvertisedAlwaysOnDisk`: `Spec => []AdvertisedIsOnDisk`
* `SlotsAlwaysConsistent`: `Spec => []SlotBookkeeping`
* `NoSlotLeaks`: `Spec => []EverySlotHasADispatch`
* `EvictedAlwaysCancelled`: `Spec => []EvictedCrawlIsCancelled`
* `DeletedJobsStayDeleted`: `Spec => DeletedStaysDeleted`
* `BudgetAlwaysCounts`: `Spec => []BudgetCountsRunningCrawls`
* `OpenJobsHaveAWriter`: `Spec => []OpenJobHasAWriter`
* `SettledJobsKeepTheirStatus`: `Spec => SettledJobKeepsItsStatus`
* `KeysMoveOnlyAcrossAHash`: a key is taken from a job that exists only by a
  create that checked the key before it awaited a password's hash

The inductive invariant is `Inv == TypeOK /\ StoreInv /\ SlotInv /\ EndInv`.

* `StoreInv` adds to the advertisement: handlers name minted ids
  (`HandlersNameJobs`), unminted ids have no record and no thread
  (`FreshIds`), and between the two lock regions of `finish` and
  `write_checkpoint` the blob is there unless the job is gone
  (`BlobBeforeRecord`). Without the last one the second region could not be
  shown to advertise a file that exists: the lock was free in between.
* `SlotInv` adds `FacetsAgree`: the record, the dispatch task and every handler
  that read the record know a job by the same facet. `release` takes the facet
  from its caller, so without it a release could drop the global claim and keep
  the facet's.
* `EndInv` has the account (`BudgetCountsRunningCrawls`), the writer of an open job
  (`OpenJobHasAWriter`) and that a handler in the middle of a reparse is one
  (`ReparseOps`).

`OpenJobHasAWriter` is what `_run_job` promises ("every path ends in a terminal
status") as far as the code keeps it: an open job has a thread before its closing code, a
reparse that is writing it, a recovery that has it on its list or has not made
the list yet, or it is `abandoned`. `WriterStays` says that what a step leaves alone keeps its
writer, `NextHasWriter` goes through the steps that end a thread, a handler
or the recovery: each has made the job terminal, found it deleted, or raised and
abandoned it. `EveryJobEnds` is the same promise over time.

`SettledJobKeepsItsStatus` excludes exactly the four writers of `Unsettled`; the proof
shows that there is no fifth. It excludes the stale cancel of section 5, so it is no
evidence against that one. `KeysMoveOnlyAcrossAHash` shows that the await which
run `repeat` goes through is the only window in which a key changes hands.

The argument is layered: `StoreStep`/`KeepsFiles` says what any step does to the
files (`NextIsStoreStep`, `StoreStepKeepsFiles`), `ThreadMoves`/`HandlerMoves`
and `DispatchMoves`/`HandlerFacet`/`SlotStep` say how any step moves threads,
handlers and slots (`NextMoves`, `NextSlotMoves`, one case per action), and the
invariants follow from those alone. `RekeyedReservation` shows that reserving
under a provisional id and re-keying it is reserving under the real id;
`ReserveKeepsSlots` and `ReleaseKeepsSlots` carry the cardinality arguments.

`CrawlLevelsProofs` proves, for any number of crawls, any budget, shares,
ceilings, page limits and sizes, with and without the release of bodies:

* `BudgetTypeCorrect`: `Spec => []TypeOK`, with at most `Ceiling` fetches in flight
* `AccountsBalance`: what is charged is exactly what landed and was not credited
* `MemoryStopsArePartial`: `Spec => []MemoryStopIsPartial`
* `StopsReachQueuedFetches`: `Spec => StopReachesQueuedFetches`

The inductive invariant is `IInv == AccountsInv /\ CrawlsInv /\ ReasonsInv`.
`AccountsInv` has the books of each account (`Balanced`) and that only accounts
with a page are stopped and only stopped accounts skip fetches (`StopEarned`):
this is what makes a memory stop partial, and it depends on the `pages > 0`
condition of `_choose_victim_locked`. `ReasonsInv` relates the reason a crawl
ended to what it missed. Any crawl's charge may stop any other, so each
operation is first shown to change nothing of the other accounts but their stop
(`AfterChargeStops`, `StopsKeepBooks`, `LeavesOthers`), and one lemma per action
then only speaks of its own crawl (`OneCrawlSteps`, `OtherStep`). The same module proves:

* `ChargesCoverWhatIsHeld`: `Spec => []ChargeCoversWhatIsHeld`
* `UnstoppedCrawlsFit`: `Spec => []UnstoppedFitTheBudget`

These two need sums, over the links of the pages that wait to be recorded and
over the projections of the crawls, and the invariant
`HeldInv == HoldInv /\ InOrder /\ Fit` beside `IInv`. `HoldInv` says for each account
what its charge and its link charge cover, the page between two budget calls
included; `InOrder` that the registered accounts are finitely many and were
numbered one after another, so that `_choose_victim_locked` has one victim when
it has a candidate; `Fit` is the property itself. A charge raises one
summand only, and the victim is at least as large as the crawl that grew: what is
left without the victim is no more than what fitted before. If instead every crawl
was within its fair share before, only the one that grew can be above it, and it
is the victim. `FoldFacts` proves what this takes by induction over
finite sets (from `WFMin`, which takes a set and not an operator): a fold is the one function
that adds its members in any order, a sum changes by what one member changes, and
a part of a set of naturals sums to no more than the whole.

`SiteDiscoveryProofs`, for any site (any addresses, any of them refusable,
faceted or looping), any listings and links, any budgets and number of resumes:

* `PagesAreRequestedOnce`: `SiteSpec => []NoPageIsRequestedAgain`
* `ResumesReachWhatWasLeft`: `SiteSpec => []ResumeReachesWhatWasLeft`
* `ReportsExplainEveryUrl`: `SiteSpec => []EveryUrlIsExplained`

The inductive invariant `SiteInv` (theorem `SiteInvariant`) has four parts.
`RequestsInv`: an address has at most one place in the frontier, what waits was
visited and not requested by the crawl proper, what that requested was visited and not
excluded; the root may have one request more, the probe of the sitemap phase (`Probes`).
`ResumeInv`: what the checkpoint left is a seed, then waits at the root's depth
(so `max_depth` cannot drop it), then is requested, as long as the graph refused
and evicted nothing; no refusable address is ever in a graph or a checkpoint.
`ReportInv`: the pages counted under some reason and those that wait are together
as many as the visited addresses of the graph, and the graph explains each of
its addresses (`Explained`): it has a source, the source is `dom` exactly
when it was visited, and a visited address that is not there is refusable or
found the graph full. That the graph never shrinks below that without a
confirmed loop is what makes the counts add up; the theorem about the report is
then a partition of the graph into visited, sitemap-only and CMS-only addresses.
A listing or a page's links go through one `FoldLeft`; `AddAllReaches`,
`RecordLinksReaches` and `WithoutReaches` say that what holds of the start and
passes from one place to the next holds of the result (`FoldReaches` of
`FoldFacts`), so each step is about one call of `add`. `Evict` and the unfetched
pages use `Without`, a fold, because `SelectSeq` is recursive and opaque to the prover.

`WorkerDispatchProofs`, for any number of approvals, confirms, crashes and lost
requests: `ApprovalsHaveOneJob`, `UploadsHaveBundles`, and
`DispatchImplementsOrders`: `Spec => ImplementsCrawlOrders`. The invariant
`DispatchInv` has the types, that the consumed approvals are exactly those with a
job (`Approvals`), that the daemon awaits one answer at a time (`Quiet`), that
what counts as uploaded has its bundle and was launched once, and what is queued
never was (`Settled`), that the job the daemon holds or is being handed has not
been delivered and is launched exactly when the daemon is past that point
(`Held`), and that a final request in flight is the only one of its job, which
nobody holds any more (`Reported`). The refinement maps a job to an order
and a launch to its start; one lemma per group of actions shows it is a step of
`CrawlOrders` or a stutter. That a crawl is launched at most once turns out to
rest on the claim (`queued` to `dispatched` in one transaction) and on the
daemon's one thread; the consumed ledger is not needed for it, it only guards
against a cloud that would hand an order out twice.

`PostgresJobStoreProofs`, for any number of callers, ids, outages and redeploys:
`ImportsAreSingle`, `JobsStayWhole`, `PromisesAreKept`. `StoreInv` says that an
id is minted once and is in one store (`Stored`), that what a caller is about to
answer as saved is in the database, and that a strict method never reaches the
disk (`CallersKnow`): the answer is computed from a commit other callers could
have undone by a delete, which is why deletes are remembered in `gone`.

`ServicesProofs`, about `DeliverableBuilds`: `WorkbooksAreBehindRecords`, `BundlesLiveWithBuilds`,
`SlotsBelongToBuilds`, from `BuildsInv`, one clause per place a build can be at.

About `ProcessLedger`: `CrawlersDoNotOutliveSupervisors`, `OrphansStayRecorded`,
`SweepsKillOnlyOrphans`. `LedgerInv` says that an identity (pid and start time)
is a child's or a supervisor's and never both (`Identities`), that no two
supervisors are one process (`Distinct`) and an owner that lives is one of them
(`Owned`), what each step of a launch has already done (`Launching`), that an entry
names a child and the supervisor that launched it (`Truthful`), and that a recorded
child that lives is in the file unless a write was torn or it was `missed` (`Noted`).
`Sweeping` is about what a sweep may rely on when it kills, long after its check: what it
has dropped is dead (`Keeps`), and what it hunts was an orphan when it was identified,
so that its pid is free, still the orphan's, or taken by a process younger than the
check (`Held`, `Hunts`). That is all `ReapsOnlyOrphans` can say, since the kill goes by the
pid: start times only grow, which is what makes "younger than the check" stable. The steps
fall into three groups: those that start or end no process (`QuietKeeps`), the deaths
(`BurialKeeps`; a sweep's kill may bury a supervisor and with it its children, `ProcessDies`) and
the starts (`BirthKeeps`); the last is where a pid is used again.

Also in `ServicesProofs`, about `TokenBuckets`: `BucketsNeverOverdraw`. The invariant relates the level to
every suffix of the grants: what was granted since any moment plus the level is
at most the burst plus what accrued since. About `PoliteFetcher`:
`EveryRequestIsChecked`, from what is known of the host's file at each await.

`RobotsRulesProofs`, for any lines in any order: `RobotsAnswersStand`,
`RobotsSpec => []RobotsAnswersTheFile`. The invariant `RobotsInv` says that the groups
read so far carry, in the order of the file, the blocks that are closed (`Stand`), each
group the tokens, the rules and the last valid delay of its block (`Carries`), that a
block left out of the groups names nobody, and that the last block is what is pending.
`flush` then makes the same true of every block (`FlushStands`): it is run when a block
opens and when the file ends, so one lemma serves both. A line of any kind is
brought to one form (`AfterAdds`): it opens a block with a fresh group or not, and is then
added to what is pending. The answer takes three folds: over the tokens
of a group (`BetterHeeds`), over the groups (`GroupForIsFirst`: the first with the longest
token, or the first wildcard) and over the rules (`DecidingDecides`: one of the longest
that match, and it allows if one of these does). What it needs of the constants is
that lines are typed and that `*` is no prefix of the crawler's name
(`RobotsAssumption`). Whether a pattern matches a path is `RuleMatches` on both sides;
that the matcher's loop computes it is `GlobDecides`, which TLC checks.

Only model-checked: the liveness properties `EveryJobEnds`, `EverySlotComesBack`,
`ClaimedJobSettles`, `DatabaseIsUsedAgain`, `AcceptedBuildEnds`, `FetchEnds` and
`GlobDecides`: fairness and ENABLED are outside this prover's reach. Every
invariant and every other action property of the passing runs is a theorem.

## 5. Where the code disagrees with what it says

Five are runs whose property is violated; `PROJECT.json` quotes the line.

* `boot`: the recovery runs while requests are served and fails a job that this
  process has just started.
* `repeat`: `create_job` checks the Idempotency-Key, awaits the hash of a password
  and stores the key afterwards (`server.py:2107`, `2129`, `2143`). Two requests with
  one key that overlap both start a crawl, and the second takes the key.
* `blocked`: `pages_fetched` is assigned only when `_acrawl` returns. A crawl
  that raises at a page whose links cannot be read reports no page fetched,
  and on a site without sitemap or CMS the job fails as blocked although its
  pages were retrieved and "a partial graph beats no graph".
* `stuck`: a success and a failure that interleave leave the breaker open
  without a failure time; it then lets no probe through until a restart.
* `delay`: whoever asks first fixes the rate of a host's bucket, and that is the
  request for the robots.txt that declares a slower one.

The rest was met while modelling. The models have these steps where the module
is named in section 2; no property forbids them.

Jobs (`api/server.py`, `core/state_store.py`):

* `cancel_job` acts on the status it read before the password check, and
  `mark_failed` has no guard: a job that ended meanwhile goes from succeeded to
  failed, while `TERMINAL_STATUSES` is documented as statuses that never move
  again (`state_store.py:109`). `SettledJobKeepsItsStatus` says what does hold.
* A delete during the recovery makes `mark_failed` raise; the loop ends, and the
  orphans not reached stay open until the next boot (`state_store.py:1139`). So does
  a record that cannot be written.
* A cancelled job reads as failed while its crawl still checkpoints, and can be
  resumed from the moving checkpoint (`server.py:4129`). `resume_job` does not
  look at `truncated` or `stopped_reason`, so a succeeded crawl can be resumed.
* Cancelling a Screaming Frog job frees its only slot while the process runs
  (`facet_router.py:113`).
* `reparse_job` creates its record and may then fail to write the result: the job
  stays queued until the next boot (`server.py:2632`).
* The docstrings of `_run_job` and `_run_sf_job` say "Never raises" and "Every path
  ends in a terminal status" (`server.py:1243`, `1354`). On a full disk the record write
  raises, the except clause calls `mark_failed`, which writes the same file and raises
  too (`server.py:1318`), and the job reads as running until the next boot; `_run_job` also
  raises `JobNotFoundError` there when the job was deleted while it ran. The account is
  closed and the slot released all the same.
* A cancel whose `mark_failed` raises has told the crawl to stop and given its slot back
  before it answers with an error (`server.py:3967`).
* `POST /jobs` takes any facet of the router: under `seo.screaming_frog` it runs the page
  classifier in Screaming Frog's only slot (`server.py:2031`).
* A delete that read the job as queued does not signal the crawl that
  started meanwhile; a wrong password still being checked when a job is deleted
  writes the lockout file afterwards (the exception in `DeletedStaysDeleted`).
* A cancel in the middle of a level is not seen by the fetches already queued on
  the governor: `_gather_bounded` says so, the docstrings of `cancel_job` and
  `_acrawl` say that queued fetches are not made.
* A deliverable left queued or running by a crash is never failed at startup:
  nothing recovers `deliverable_store`. `run_build` says "Never raises"
  (`build_runner.py:63`), but `mark_failed` in its handlers is a write too: when it
  raises, the record stays running for ever, which `AcceptedBuildEnds` allows
  (`abandoned`) and restricts to that; its slot comes back.

Stores (`core/postgres_store.py`, `circuit_breaker.py`, `fallback_recovery.py`):

* The breaker counts failures since the last probe that succeeded, not
  consecutive ones (`circuit_breaker.py:63`); after the first half-open answer
  any number of requests pass, not one.
* A COMMIT whose answer is lost leaves a charged, queued row in the database
  beside the job that went to the disk; a job in the store that is not in use
  reads as not found; the docstring of `create` speaks of verifying the budget
  where only the credit limit is looked at.
* The second attempt of `_import_once` is outside the except clauses of the first.
* `recover_orphaned_jobs` deletes fallback files without inserting what they hold.

Dispatch (`worker_dashboard_routes.py`, `worker_daemon.py`, `base_client.py`):

* Two confirms of two previews of one site both find no active job and queue two.
* The daemon's loop ends with an `IntegrationError` of a report or an upload,
  while its docstring says that it stays up; the client's docstrings promise
  retries, but transport errors are not among the transient ones.
* A progress report that is handled late overwrites the final page count, and a
  job that was expired and then uploaded keeps its old `error`.
* The docstring of `BaseAPIClient.call` puts the rate limiter before the retries;
  it is asked in each attempt.

Processes (`process_supervisor.py`, `_process_ledger.py`, `_process_orphans.py`):

* The sweep checks an orphan's start time (`_process_orphans.py:248`) and kills by the bare pid
  (`:268`, `:187`): the child may exit in between and another process take its pid,
  which the module's docstring (`:17`) says the check rules out.
* With the orphan go all whose recorded parents lead to its pid. A recorded
  parent may be long gone and its pid used again, so a process this engine never launched,
  the other supervisor or the sweeping one may be below it. A circle of such parents
  keeps `_descendant_pids` in its loop: it has no set of the pids it has seen.
* When something of the tree was killed and the orphan itself could not be opened, its
  entry is dropped all the same (`:269`, `missed`).
* The job object of an orphan is gone with its supervisor's last handle, so the first of
  the two paths of the docstring never applies.

* Two processes read, change and replace the ledger file without a lock between
  them, and an unreadable file is taken for an empty one: entries are lost then
  (`torn` excludes these runs from `EnrolledOrphanIsRecorded`).
* If the first `upsert` of a launch fails, or the supervisor dies before it, the
  suspended child is neither recorded nor terminated; if the second fails, the
  entry stays. A suspended child runs no code of its own, which is why
  `RunningChildHasSupervisor` holds nevertheless.

Crawling (`discovery.py`, `relative_loops.py`, `robots.py`, `http_fetcher.py`,
`rate_limiter.py`):

* The homepage is requested twice: by the probe for sitemap links
  (`discovery.py:1430`, called at `:1461`) and by `_crawl_dom`; no response is cached, though
  the docstring of `_homepage_sitemap_links` says that "both are cached per host". On a
  resume the probe requests a homepage that is excluded, while `discover_site` says of
  excluded URLs that they "are never requested" (`:1331`).
* A resume of a resumed job requests again what the first run fetched
  (`discovery.py:1134`, `server.py:4173`): its exclusions are the last run's only.
* `LoopWatcher` counts calls of `add`, not URLs; evicted URLs that are in the
  frontier are still fetched; a seed refused for room is never fetched later; a
  root the full graph refused is fetched, and the report's gap is then −1
  (`EveryUrlIsExplained` speaks of the other crawls).
* `pages_fetched` is lost when the serial `_crawl_dom` raises; the load governor
  is rebuilt at each level and forgets that it had narrowed.
* `*` in a robots pattern that faces a literal `*` of the path is taken for that
  character only (`robots.py:285`; `GlobDecides` excludes such texts), and groups
  of the same token are not merged.
* Two tasks that read one robots.txt: a later read that fails overwrites known
  rules with none, while the docstring speaks of fetching once; one failed read
  drops a host's rules for the rest of the crawl. A `RateLimitExceededError`
  during that read is not caught there.
* The shortest sleep of a bucket may pass its deadline; the Redis bucket uses each
  worker's own clock.

Elsewhere: the Search Console token manager stores the token before it validates
it; an import spends the hour's token before it is refused as already in flight;
`RulebookStore` replaces or unlinks a file before its metadata.

## 6. What could come next

Nothing of the original plan is open. What would add most:

1. The account protocol of the resumed crawl across processes: `SiteDiscovery` is
   the serial crawl, `CrawlLevels` the asynchronous one; one frontier module with
   both would show that they fetch the same pages.
2. The safety half of `GlobDecides` as a theorem: the loop's one backtrack position
   stands for every earlier one, by induction over pattern and text.
3. The lockout's counters over a clock, and the principal rate limit, as a module
   of their own under the gate.
4. Recovery of the PostgreSQL store after a restart beside a second instance of
   the server; the code assumes one.

## 7. Not modelled, and why

* Authentication, sign-in, and the Search Console, GA4 and LLM clients:
  cryptography or calls to external services; what state they keep is a cache
  behind one lock.
* Tool governance: a sequential wrapper around one call.
* Crawl activity: reads the job stores only.
* Classification, parsers, URL rules, reports and deliverable sheets, about a
  third of the code: each transforms one document or table. A model of them would be a
  transliteration, and TLC has nothing to interleave.
* Configuration and logging: I/O. The web UI: a client that polls.
* Of modelled components: progress reports and enrolment of workers, the Redis
  bucket, `TaskBudget`, the synchronous fetcher, bodies and connection pools,
  telemetry, the arithmetic of the lockout, the validation of an imported bundle,
  the content of workbooks.

They are listed in `PROJECT.json` with their sources.
