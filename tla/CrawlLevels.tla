---------------------------- MODULE CrawlLevels -----------------------------
(* The breadth-first crawls that share the memory budget                     *)
(* (src/src/modules/seo/page_classifier/async_discovery.py).  Each crawl is  *)
(* an event loop on a thread of its own: between two awaits its tasks do not *)
(* interleave with each other, but every call on the budget is a step other  *)
(* crawls may come between.  A URL is only counted; a page is the bytes of   *)
(* its body and of its links.  A level beyond max_depth is a level without   *)
(* URLs.                                                                     *)
EXTENDS MemoryBudget, SequencesExt

CONSTANTS
    MaxUrls,          \* `max_pages` of each crawl: the URLs its graph admits
    BodySizes,        \* `getsizeof` of a page body
    LinkSizes,        \* `getsizeof` of a page's links
    PageOverheads,    \* LEAN_PAGE_BYTES and what a page keeps
    ReleaseBodies     \* `crawl_release_page_html`

ASSUME CrawlAssumption ==
    /\ MaxUrls \in [Crawls -> Nat \ {0}]
    /\ BodySizes \subseteq Nat \ {0}
    /\ LinkSizes \subseteq Nat \ {0}
    /\ PageOverheads \subseteq Nat
    /\ ReleaseBodies \in BOOLEAN

VARIABLES
    crawl,            \* the state of each crawl's thread
    cancelled         \* the crawls whose cancel event is set

vars == <<accounts, nextSequence, crawl, cancelled>>

\* What is charged beside the body, which is nothing when bodies are kept.
Overheads == IF ReleaseBodies THEN PageOverheads ELSE {0}

\* The result of a page whose links could not be read (`_LandedPage.error`).
Unread == -1

Phases == {"idle", "levels", "landed", "credit", "ended", "closed"}

Reasons == {"none", "memory", "cancelled", "stalled", "error"}

Crawl ==
    [phase : Phases,
     frontier : Nat,            \* `level`, the URLs of the next level
     left : Nat,                \* URLs the graph still admits
     fresh : Nat,               \* tasks that did not run yet
     waiting : Nat,             \* tasks queued on the governor
     flying : Nat,              \* fetches in flight
     home : BOOLEAN,            \* the homepage landed
     kept : Nat,                \* bytes of the bodies the graph keeps
     body : Nat,                \* bytes of a body being read, to be released
     results : Seq(LinkSizes \cup {Unread}),
     reason : Reasons]          \* `stopped_reason`

Idle ==
    [phase |-> "idle", frontier |-> 0, left |-> 0, fresh |-> 0, waiting |-> 0,
     flying |-> 0, home |-> FALSE, kept |-> 0, body |-> 0, results |-> <<>>,
     reason |-> "none"]

Init ==
    /\ BudgetInit
    /\ crawl = [c \in Crawls |-> Idle]
    /\ cancelled = {}

In(c, phase) == crawl[c].phase = phase

\* Every task of the level is done, so that its pages are recorded; then the
\* next level begins.
LevelFetched(c) ==
    /\ In(c, "levels")
    /\ crawl[c].fresh = 0 /\ crawl[c].waiting = 0 /\ crawl[c].flying = 0

LevelRecorded(c) == LevelFetched(c) /\ crawl[c].results = <<>>

HoldsSlot(c) == crawl[c].phase \notin {"idle", "closed"} /\ c \notin cancelled

-----------------------------------------------------------------------------
\* `_run_job` opens the account; the crawl starts with the homepage and the
\* URLs a resumed crawl is seeded with.  A cancelled crawl gave its slot back.
StartCrawl(c) ==
    /\ In(c, "idle")
    /\ Cardinality({d \in Crawls : HoldsSlot(d)}) < FairShareSlots
    /\ OpenAccount(c)
    /\ \E n \in 1..MaxUrls[c] :
          crawl' = [crawl EXCEPT ![c] = [Idle EXCEPT !.phase = "levels",
                                                     !.frontier = n,
                                                     !.left = MaxUrls[c] - n]]
    /\ UNCHANGED cancelled

Cancel(c) ==
    /\ HoldsSlot(c)
    /\ cancelled' = cancelled \cup {c}
    /\ UNCHANGED <<accounts, nextSequence, crawl>>

\* The top of the level loop: the operator's cancel before the budget's stop.
\* The URLs of faceted filters and the excluded ones are dropped from the level.
BeginLevel(c) ==
    /\ LevelRecorded(c)
    /\ crawl[c].frontier > 0
    /\ \/ /\ c \in cancelled
          /\ crawl' = [crawl EXCEPT ![c].phase = "ended", ![c].reason = "cancelled"]
       \/ /\ c \notin cancelled /\ accounts[c].stop
          /\ crawl' = [crawl EXCEPT ![c].phase = "ended", ![c].reason = "memory"]
       \/ /\ c \notin cancelled /\ ~accounts[c].stop
          /\ \E n \in 0..crawl[c].frontier :
                crawl' = [crawl EXCEPT ![c].frontier = 0, ![c].fresh = n]
    /\ UNCHANGED <<accounts, nextSequence, cancelled>>

\* Mistake: the stop is reported whether or not it cost a fetch.
FinishCrawlOnStop(c) ==
    /\ LevelRecorded(c)
    /\ crawl[c].frontier = 0
    /\ crawl' = [crawl EXCEPT ![c].phase = "ended",
                              ![c].reason = IF accounts[c].stop /\ c \notin cancelled
                                            THEN "memory" ELSE @]
    /\ UNCHANGED <<accounts, nextSequence, cancelled>>

\* No level is left.  A stop that skipped fetches of the last one is reported.
FinishCrawl(c) ==
    /\ LevelRecorded(c)
    /\ crawl[c].frontier = 0
    /\ crawl' = [crawl EXCEPT ![c].phase = "ended",
                              ![c].reason = IF accounts[c].skipped > 0 /\ c \notin cancelled
                                            THEN "memory" ELSE @]
    /\ UNCHANGED <<accounts, nextSequence, cancelled>>

\* The first check of each task, made as the level's tasks first run.
AdmitTask(c) ==
    /\ In(c, "levels")
    /\ crawl[c].fresh > 0
    /\ \/ /\ c \in cancelled
          /\ crawl' = [crawl EXCEPT ![c].fresh = @ - 1]
          /\ UNCHANGED <<accounts, nextSequence>>
       \/ /\ c \notin cancelled /\ accounts[c].stop
          /\ RecordSkip(c)
          /\ crawl' = [crawl EXCEPT ![c].fresh = @ - 1]
       \/ /\ c \notin cancelled /\ ~accounts[c].stop
          /\ crawl' = [crawl EXCEPT ![c].fresh = @ - 1, ![c].waiting = @ + 1]
          /\ UNCHANGED <<accounts, nextSequence>>
    /\ UNCHANGED cancelled

\* Mistake: a stop is checked only when the task first runs.
ClaimSlotUnchecked(c) ==
    /\ In(c, "levels")
    /\ crawl[c].waiting > 0
    /\ crawl[c].flying < Ceiling[c]
    /\ crawl' = [crawl EXCEPT ![c].waiting = @ - 1, ![c].flying = @ + 1]
    /\ UNCHANGED <<accounts, nextSequence, cancelled>>

\* Mistake: the limit of the governor is off by one.
ClaimSlotOverLimit(c) ==
    /\ In(c, "levels")
    /\ crawl[c].waiting > 0
    /\ crawl[c].flying <= Ceiling[c]
    /\ ~accounts[c].stop
    /\ crawl' = [crawl EXCEPT ![c].waiting = @ - 1, ![c].flying = @ + 1]
    /\ UNCHANGED <<accounts, nextSequence, cancelled>>

\* A task gets a slot of the governor, whose limit is at most the ceiling, and
\* makes the second check: the budget's stop is seen, the cancel is not.
ClaimSlot(c) ==
    /\ In(c, "levels")
    /\ crawl[c].waiting > 0
    /\ crawl[c].flying < Ceiling[c]
    /\ \/ /\ accounts[c].stop
          /\ RecordSkip(c)
          /\ crawl' = [crawl EXCEPT ![c].waiting = @ - 1]
       \/ /\ ~accounts[c].stop
          /\ crawl' = [crawl EXCEPT ![c].waiting = @ - 1, ![c].flying = @ + 1]
          /\ UNCHANGED <<accounts, nextSequence>>
    /\ UNCHANGED cancelled

-----------------------------------------------------------------------------
\* Every task ran before the first fetch is answered.
Answering(c) == In(c, "levels") /\ crawl[c].fresh = 0 /\ crawl[c].flying > 0

\* A fetch fails, times out or answers with something that is not a page.
FetchFails(c) ==
    /\ Answering(c)
    /\ crawl' = [crawl EXCEPT ![c].flying = @ - 1]
    /\ UNCHANGED <<accounts, nextSequence, cancelled>>

\* Mistake: the body is credited although the graph keeps it.
PageLandsToCredit(c, size, extra, released) ==
    /\ Answering(c)
    /\ released => ReleaseBodies
    /\ ReleaseBodies => released \/ ~crawl[c].home
    /\ Charge(c, size, extra)
    /\ crawl' = [crawl EXCEPT ![c].phase = "landed",
                              ![c].flying = @ - 1,
                              ![c].home = @ \/ ~released,
                              ![c].kept = IF released THEN @ ELSE @ + size,
                              ![c].body = size]
    /\ UNCHANGED cancelled

\* A page lands: `store_html` keeps the homepage's body, or every body when
\* they are not released, and the body is charged.
PageLands(c, size, extra, released) ==
    /\ Answering(c)
    /\ released => ReleaseBodies
    /\ ReleaseBodies => released \/ ~crawl[c].home
    /\ Charge(c, size, extra)
    /\ crawl' = [crawl EXCEPT ![c].phase = "landed",
                              ![c].flying = @ - 1,
                              ![c].home = @ \/ ~released,
                              ![c].kept = IF released THEN @ ELSE @ + size,
                              ![c].body = IF released THEN size ELSE 0]
    /\ UNCHANGED cancelled

\* Its links are read and charged; they are held until the level is recorded.
LinksRead(c, n) ==
    /\ In(c, "landed")
    /\ ChargeLinks(c, n)
    /\ crawl' = [crawl EXCEPT ![c].phase = IF crawl[c].body > 0 THEN "credit" ELSE "levels",
                              ![c].results = Append(@, n)]
    /\ UNCHANGED cancelled

\* Reading them fails: the body is dropped and never credited.
LinksUnread(c) ==
    /\ In(c, "landed")
    /\ crawl' = [crawl EXCEPT ![c].phase = "levels", ![c].body = 0,
                              ![c].results = Append(@, Unread)]
    /\ UNCHANGED <<accounts, nextSequence, cancelled>>

BodyReleased(c) ==
    /\ In(c, "credit")
    /\ Credit(c, crawl[c].body)
    /\ crawl' = [crawl EXCEPT ![c].phase = "levels", ![c].body = 0]
    /\ UNCHANGED cancelled

\* Nothing completed within the stall timeout: the level is abandoned.
Stall(c) ==
    /\ Answering(c)
    /\ crawl' = [crawl EXCEPT ![c].phase = "ended", ![c].reason = "stalled",
                              ![c].waiting = 0, ![c].flying = 0,
                              ![c].results = <<>>]
    /\ UNCHANGED <<accounts, nextSequence, cancelled>>

-----------------------------------------------------------------------------
\* The links of a page are recorded, at most as many new URLs as the graph
\* still admits enter the next level, and the links are credited.
RecordPage(c, new) ==
    /\ LevelFetched(c)
    /\ crawl[c].results # <<>>
    /\ Head(crawl[c].results) # Unread
    /\ new <= crawl[c].left
    /\ crawl' = [crawl EXCEPT ![c].results = Tail(@),
                              ![c].frontier = @ + new, ![c].left = @ - new]
    /\ CreditLinks(c, Head(crawl[c].results))
    /\ UNCHANGED cancelled

\* A page whose links could not be read ends the crawl where it is recorded.
RecordFails(c) ==
    /\ LevelFetched(c)
    /\ crawl[c].results # <<>>
    /\ Head(crawl[c].results) = Unread
    /\ crawl' = [crawl EXCEPT ![c].phase = "ended", ![c].reason = "error",
                              ![c].results = <<>>]
    /\ UNCHANGED <<accounts, nextSequence, cancelled>>

\* The job is classified and its thread ends; only now is the account closed.
EndCrawl(c) ==
    /\ In(c, "ended")
    /\ CloseAccount(c)
    /\ crawl' = [crawl EXCEPT ![c] = [Idle EXCEPT !.phase = "closed"]]
    /\ UNCHANGED cancelled

\* The thread runs on, whatever the fetches answer.
CrawlStep(c) ==
    \/ BeginLevel(c) \/ FinishCrawl(c)
    \/ AdmitTask(c) \/ ClaimSlot(c)
    \/ FetchFails(c)
    \/ \E size \in BodySizes, extra \in Overheads, released \in BOOLEAN :
          PageLands(c, size, extra, released)
    \/ \E n \in LinkSizes : LinksRead(c, n)
    \/ LinksUnread(c) \/ BodyReleased(c) \/ Stall(c)
    \/ \E new \in 0..MaxUrls[c] : RecordPage(c, new)
    \/ RecordFails(c)
    \/ EndCrawl(c)

Next == \E c \in Crawls : StartCrawl(c) \/ Cancel(c) \/ CrawlStep(c)

Spec == Init /\ [][Next]_vars

-----------------------------------------------------------------------------
\* Every field of an account and of a crawl keeps its type, and the governor
\* never has more fetches in flight than the ceiling the reserve is made for.
TypeOK ==
    /\ accounts \in [Crawls -> Account]
    /\ nextSequence \in Nat
    /\ crawl \in [Crawls -> Crawl]
    /\ \A c \in Crawls : crawl[c].flying <= Ceiling[c]
    /\ cancelled \subseteq Crawls

LinksHeld(c) ==
    FoldSeq(LAMBDA n, sum : sum + (IF n = Unread THEN 0 ELSE n), 0, crawl[c].results)

\* What a crawl holds is never more than it is counted as holding: the bodies
\* its graph keeps, the body being read, the links of the pages not recorded
\* yet and the per-page overhead, whatever charges, credits, unreadable pages
\* and abandoned levels came before (`credit`, `credit_links`, `_ahtml`).
ChargeCoversWhatIsHeld ==
    \A c \in Registered(accounts) :
        accounts[c].charged
          >= crawl[c].kept + crawl[c].body + LinksHeld(c) + accounts[c].overhead

\* The crawls that were not told to stop fit the budget together, or none of
\* them is over its fair share and there is nobody `_choose_victim_locked` may
\* take: one victim per charge is enough.
UnstoppedFitTheBudget ==
    LET unstopped == {c \in Registered(accounts) : ~accounts[c].stop}
    IN  \/ SumProjected(accounts, unstopped) < BudgetBytes
        \/ \A c \in unstopped : Projected(accounts, c) <= FairShareBytes

\* Once a crawl is told to stop it makes no fetch any more, those queued on the
\* governor in the middle of a level included ("no fetch not yet dispatched is
\* made"): at most its ceiling of pages still land, the reserve it was charged.
StopReachesQueuedFetches ==
    [][\A c \in Crawls : accounts[c].stop => crawl'[c].flying <= crawl[c].flying]_vars

\* `pages_fetched` as the report has it: lost when the crawl raises.
PagesFetched(c) == IF crawl[c].reason = "error" THEN 0 ELSE accounts[c].pages

\* URLs that a finished crawl was stopped from fetching.
Missed(c) == accounts[c].skipped + crawl[c].frontier

\* "memory budget reached" is said of a crawl exactly when the stop cost it
\* fetches and nothing else ended it, and such a crawl has fetched a page, so
\* that its job ends partial and never fails as blocked (`retrieved_nothing`).
MemoryStopIsPartial ==
    \A c \in Crawls : In(c, "ended") =>
        /\ crawl[c].reason = "memory" => PagesFetched(c) > 0 /\ Missed(c) > 0
        /\ crawl[c].reason = "none" /\ c \notin cancelled => Missed(c) = 0

\* What async_discovery says of a crawl that raises: "Everything discovered
\* before the failure is real data an operator can act on".  A crawl that fetched
\* pages is not reported as one that retrieved none.
AbortedCrawlKeepsItsPages ==
    \A c \in Crawls : In(c, "ended") /\ accounts[c].pages > 0 => PagesFetched(c) > 0
=============================================================================
