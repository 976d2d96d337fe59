--------------------------- MODULE MCCrawlLevels ----------------------------
(* A small instance for TLC of CrawlLevels and of ProcessLedger, which share *)
(* nothing: in each behaviour one of them, the focus, runs.                  *)
EXTENDS CrawlLevels, ProcessLedger

CONSTANTS Foci, c1, c2, c3

VARIABLE focus

MCInit == focus \in Foci /\ Init /\ LedgerInit

MCNext ==
    /\ UNCHANGED focus
    /\ \/ focus = "crawls" /\ Next /\ UNCHANGED ledgerVars
       \/ focus = "ledger" /\ LedgerNext /\ UNCHANGED vars

MCSpec == MCInit /\ [][MCNext]_<<focus, vars, ledgerVars>>

\* The first crawl is the long one, fetching one page at a time; the others
\* are short and wide.
MCCeiling == [c \in Crawls |-> IF c = c1 THEN 1 ELSE 2]
MCMaxUrls == [c \in Crawls |-> IF c = c1 THEN 2 ELSE 1]

\* The short crawls are interchangeable.
CrawlSymmetry == Permutations(Crawls \ {c1})
=============================================================================
