---------------------------- MODULE CrawlOrders -----------------------------
(* What a dispatch promises the operator who approved it, with no word of    *)
(* stores, requests or machines: an approved order starts at most one crawl, *)
(* it may be given up, and only a crawl that was started can be delivered,   *)
(* even after it was given up; what was delivered stays delivered.           *)
EXTENDS Naturals

CONSTANT Orders

VARIABLES
    outcome,          \* "absent", "open", "failed" or "delivered"
    starts            \* how many crawls the order started

orderVars == <<outcome, starts>>

OrdersInit ==
    /\ outcome = [o \in Orders |-> "absent"]
    /\ starts = [o \in Orders |-> 0]

Settle(o, from, to) ==
    /\ outcome[o] \in from
    /\ outcome' = [outcome EXCEPT ![o] = to]

Place(o) == Settle(o, {"absent"}, "open") /\ UNCHANGED starts

\* A crawl the cloud has given up on may still start.
Start(o) ==
    /\ outcome[o] \in {"open", "failed"}
    /\ starts[o] = 0
    /\ starts' = [starts EXCEPT ![o] = 1]
    /\ UNCHANGED outcome

GiveUpOrders(abandoned) ==
    /\ \A o \in abandoned : outcome[o] = "open"
    /\ outcome' = [o \in Orders |->
           IF o \in abandoned THEN "failed" ELSE outcome[o]]
    /\ UNCHANGED starts

Deliver(o) ==
    /\ starts[o] = 1
    /\ Settle(o, {"open", "failed"}, "delivered")
    /\ UNCHANGED starts

OrdersNext ==
    \/ \E o \in Orders : Place(o) \/ Start(o) \/ Deliver(o)
    \/ \E abandoned \in SUBSET Orders : GiveUpOrders(abandoned)

OrdersSpec == OrdersInit /\ [][OrdersNext]_orderVars
=============================================================================
