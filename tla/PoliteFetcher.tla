--------------------------- MODULE PoliteFetcher ---------------------------
(* src/src/integrations/http_fetcher.py: HttpFetcher.afetch as the tasks of  *)
(* one crawl run it on their event loop.  A step lies between two awaits: of *)
(* a token, of an answer, of a pause before the next attempt.  fetch does    *)
(* the same on a thread.                                                     *)
EXTENDS Naturals

CONSTANTS
    Tasks,
    Hosts,
    HostOf,           \* the host of each URL
    Start,            \* the URL each task is asked to fetch
    Unsafe,           \* URLs the policy refuses: private addresses, too long
    Forbidden,        \* URLs their host's robots.txt disallows
    Declaring,        \* hosts whose robots.txt declares a slower Crawl-delay
    MaxRedirects,     \* max_redirects
    MaxAttempts       \* default_max_retries and the first attempt

Pages == DOMAIN HostOf

ASSUME FetcherAssumption ==
    /\ HostOf \in [Pages -> Hosts] /\ Start \in [Tasks -> Pages]
    /\ Unsafe \subseteq Pages /\ Forbidden \subseteq Pages /\ Declaring \subseteq Hosts
    /\ MaxRedirects \in Nat /\ MaxAttempts \in Nat \ {0}

VARIABLES
    robots,           \* _robots, the cache: what each host's file was taken for
    pace,             \* _async_host_buckets: the rate each host's bucket has
    fetch,            \* where each task is
    unreadable        \* hosts whose robots.txt could not be read, at least once

fetchVars == <<robots, pace, fetch, unreadable>>

\* "hop" is the loop's head, "robots..." the same loop one call deeper, `via` its host.
Places == {"idle", "hop", "robots_token", "robots_sent", "token", "sent", "done"}
Fetch ==
    [at : Places, url : Pages, hops : 0 .. MaxRedirects, via : Hosts, jumps : 0 .. MaxRedirects,
     tries : 1 .. MaxAttempts]

FetcherInit ==
    /\ robots = [h \in Hosts |-> "unread"] /\ pace = [h \in Hosts |-> "none"]
    /\ fetch = [t \in Tasks |-> [at |-> "idle", url |-> Start[t], hops |-> 0,
                                 via |-> HostOf[Start[t]], jumps |-> 0, tries |-> 1]]
    /\ unreadable = {}

Asks(t) == HostOf[fetch[t].url]
Moves(t, from, to) == fetch[t].at = from /\ fetch' = [fetch EXCEPT ![t].at = to]
Finishes(t) == fetch' = [fetch EXCEPT ![t].at = "done"]

\* The registry's get_or_create: the first rate asked for stays.
Paced(h, rate) == pace' = [pace EXCEPT ![h] = IF @ = "none" THEN rate ELSE @]

\* _host_rpm: the slower of the configured rate and a declared one.
HostRate(h, rules) == IF rules = "rules" /\ h \in Declaring THEN "declared" ELSE "configured"

StartFetch(t) == Moves(t, "idle", "hop") /\ UNCHANGED <<robots, pace, unreadable>>

\* with_async_retries: the whole chain again, or its error.
Retry(t) ==
    IF fetch[t].tries = MaxAttempts THEN Finishes(t)
    ELSE fetch' = [fetch EXCEPT ![t].at = "hop", ![t].url = Start[t], ![t].hops = 0,
                                ![t].tries = @ + 1]

\* _enforce_robots, and the bucket for what is allowed.
Enforce(t, rules) ==
    IF rules = "rules" /\ fetch[t].url \in Forbidden THEN Finishes(t) /\ UNCHANGED pace
    ELSE /\ fetch' = [fetch EXCEPT ![t].at = "token"]
         /\ Paced(Asks(t), HostRate(Asks(t), rules))

Refused(t) ==
    /\ fetch[t].at = "hop" /\ fetch[t].url \in Unsafe
    /\ Finishes(t)
    /\ UNCHANGED <<robots, pace, unreadable>>

UseCachedRobots(t) ==
    /\ fetch[t].at = "hop" /\ fetch[t].url \notin Unsafe
    /\ robots[Asks(t)] # "unread"
    /\ Enforce(t, robots[Asks(t)])
    /\ UNCHANGED <<robots, unreadable>>

\* A hop of the request for robots.txt itself, which knows of no rules.
AskRobots(t, host, jumps) ==
    /\ fetch' = [fetch EXCEPT ![t].at = "robots_token", ![t].via = host, ![t].jumps = jumps]
    /\ Paced(host, HostRate(host, "none"))
    /\ UNCHANGED <<robots, unreadable>>

NeedRobots(t) ==
    /\ fetch[t].at = "hop" /\ fetch[t].url \notin Unsafe
    /\ robots[Asks(t)] = "unread"
    /\ AskRobots(t, Asks(t), 0)

RobotsToken(t) == Moves(t, "robots_token", "robots_sent") /\ UNCHANGED <<robots, pace, unreadable>>

RobotsRedirect(t) ==
    /\ fetch[t].at = "robots_sent" /\ fetch[t].jumps < MaxRedirects
    /\ \E host \in Hosts : AskRobots(t, host, fetch[t].jumps + 1)

\* The file, or for any error, refusal or redirect too many, none.
RobotsRead(t) ==
    /\ fetch[t].at = "robots_sent"
    /\ \E rules \in {"rules", "none"} :
        /\ robots' = [robots EXCEPT ![Asks(t)] = rules]
        /\ unreadable' = IF rules = "none" THEN unreadable \cup {Asks(t)} ELSE unreadable
        /\ Enforce(t, rules)

\* No token within the timeout: RateLimitExceededError, which nobody takes for an answer.
TokenTimesOut(t) ==
    /\ fetch[t].at \in {"robots_token", "token"}
    /\ Retry(t)
    /\ UNCHANGED <<robots, pace, unreadable>>

Token(t) == Moves(t, "token", "sent") /\ UNCHANGED <<robots, pace, unreadable>>

\* Mistake: only the first URL of a chain is checked.
RedirectUnchecked(t) ==
    /\ fetch[t].at = "sent" /\ fetch[t].hops < MaxRedirects
    /\ \E u \in Pages :
        fetch' = [fetch EXCEPT ![t].at = "token", ![t].url = u, ![t].hops = @ + 1]
    /\ UNCHANGED <<robots, pace, unreadable>>

\* Mistake: the hops are not counted.
RedirectUncounted(t) ==
    /\ fetch[t].at = "sent"
    /\ \E u \in Pages : fetch' = [fetch EXCEPT ![t].at = "hop", ![t].url = u]
    /\ UNCHANGED <<robots, pace, unreadable>>

Redirect(t) ==
    /\ fetch[t].at = "sent" /\ fetch[t].hops < MaxRedirects
    /\ \E u \in Pages : fetch' = [fetch EXCEPT ![t].at = "hop", ![t].url = u, ![t].hops = @ + 1]
    /\ UNCHANGED <<robots, pace, unreadable>>

\* A timeout of the connection; "too many redirects" is one IntegrationError more.
RequestFails(t) ==
    /\ fetch[t].at = "sent"
    /\ Retry(t)
    /\ UNCHANGED <<robots, pace, unreadable>>

\* A result; or a refused connection or an unsafe peer, which end it without another attempt.
Answered(t) == Moves(t, "sent", "done") /\ UNCHANGED <<robots, pace, unreadable>>

\* asyncio.wait_for of the crawl gives up on the task, wherever it waits.
DeadlinePasses(t) ==
    /\ fetch[t].at \notin {"idle", "done"}
    /\ Finishes(t)
    /\ UNCHANGED <<robots, pace, unreadable>>

FetchAdvances(t) ==
    \/ Refused(t) \/ UseCachedRobots(t) \/ NeedRobots(t)
    \/ RobotsToken(t) \/ RobotsRedirect(t) \/ RobotsRead(t)
    \/ TokenTimesOut(t) \/ Token(t) \/ Redirect(t) \/ RequestFails(t) \/ Answered(t)

FetcherNext == \E t \in Tasks : StartFetch(t) \/ FetchAdvances(t) \/ DeadlinePasses(t)

\* The loop runs, tokens come, and a server answers or the request times out.  Nothing is
\* assumed of the deadline.
FetcherFairness == \A t \in Tasks : WF_fetchVars(FetchAdvances(t))

FetcherSpec == FetcherInit /\ [][FetcherNext]_fetchVars

-----------------------------------------------------------------------------
(* Properties.                                                               *)

\* Whatever redirects to whatever, and whoever of the tasks reads robots.txt first: no
\* request leaves for an address the policy refuses, for a host whose robots.txt was not
\* asked for, or for a path that a file which could always be read disallows.
EveryHopIsChecked ==
    \A t \in Tasks : fetch[t].at = "sent" =>
        /\ fetch[t].url \notin Unsafe
        /\ robots[Asks(t)] # "unread"
        /\ Asks(t) \notin unreadable => fetch[t].url \notin Forbidden

\* A fetch ends by itself, through redirect loops and retries.
FetchEnds == \A t \in Tasks : fetch[t].at = "hop" ~> fetch[t].at = "done"

\* "A declared `Crawl-delay` is a floor that configuration cannot raise."
CrawlDelayIsAFloor ==
    \A t \in Tasks :
        fetch[t].at = "sent" /\ robots[Asks(t)] = "rules" /\ Asks(t) \in Declaring
            => pace[Asks(t)] = "declared"
=============================================================================
