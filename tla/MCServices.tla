----------------------------- MODULE MCServices ----------------------------
(* Components that share nothing: in each behaviour one of them, the focus,  *)
(* runs.                                                                     *)
EXTENDS DeliverableBuilds, SiteDiscovery, RobotsRules, TokenBuckets,
    PoliteFetcher

CONSTANTS Foci, root, a, l1, l2, t1, t2, h1, h2, home, secret, local

VARIABLE focus

vars == <<focus, buildVars, siteVars, robotsVars, bucketVars, fetchVars>>

IdleGlob == [pattern |-> <<>>, text |-> <<>>, p |-> 1, t |-> 1, starP |-> 0, starT |-> 1,
             verdict |-> "yes"]

Init ==
    /\ focus \in Foci
    /\ BuildsInit /\ SiteInit /\ RobotsInit /\ BucketInit /\ FetcherInit
    /\ IF focus = "glob" THEN GlobInit ELSE glob = IdleGlob

Next ==
    /\ UNCHANGED focus
    /\ \/ /\ focus = "builds" /\ BuildsNext
          /\ UNCHANGED <<siteVars, robotsVars, bucketVars, fetchVars>>
       \/ /\ focus = "site" /\ SiteNext
          /\ UNCHANGED <<buildVars, robotsVars, bucketVars, fetchVars>>
       \/ /\ focus = "robots" /\ ReadLine
          /\ UNCHANGED <<buildVars, siteVars, bucketVars, fetchVars>>
       \/ /\ focus = "glob" /\ GlobStep
          /\ UNCHANGED <<buildVars, siteVars, bucketVars, fetchVars>>
       \/ /\ focus = "bucket" /\ BucketNext
          /\ UNCHANGED <<buildVars, siteVars, robotsVars, fetchVars>>
       \/ /\ focus = "fetch" /\ FetcherNext
          /\ UNCHANGED <<buildVars, siteVars, robotsVars, bucketVars>>

\* Outside their focus no step of these is enabled.
FairSpec == Init /\ [][Next]_vars /\ BuildsFairness /\ WF_glob(GlobStep) /\ FetcherFairness

MCHostOf == (home :> h1) @@ (secret :> h2) @@ (local :> h2)
MCStart == (t1 :> home) @@ (t2 :> home)

MCPathDepth == (l1 :> 3) @@ (l2 :> 4)
MCTokenLength == ("bot" :> 3) @@ ("bot-news" :> 8)
MCTimeout == (t1 :> 2)
MCPaths == {<<"/">>, <<"/", "a">>, <<"/", "a", "b">>}

Line(field, token, pattern, delay) ==
    [field |-> field, token |-> token, pattern |-> pattern, delay |-> delay]
Agent(token) == Line("user-agent", token, <<>>, 0)
Rule(field, pattern) == Line(field, "", pattern, 0)

MCLines ==
    {Agent("bot"), Agent("bot-news"), Agent("*"), Agent(""),
     Rule("allow", <<"/", "a">>), Rule("disallow", <<"/", "*">>),
     Rule("disallow", <<"/", "a", "$">>), Rule("disallow", <<>>),
     Line("sitemap", "", <<>>, 0), Line("host", "", <<>>, 0),
     Line("crawl-delay", "", <<>>, 2), Line("crawl-delay", "", <<>>, 5)}
=============================================================================
