---------------------------- MODULE MemoryBudget ----------------------------
(* The process-wide byte budget that every running crawl charges             *)
(* (src/src/core/memory_budget.py).  Each operation runs under the budget's  *)
(* lock, so each is one step; the log lines it writes are left out.          *)
EXTENDS Integers, FiniteSets, FiniteSetsExt

CONSTANTS
    Crawls,           \* the crawls that ever open an account
    BudgetBytes,      \* projected bytes at which a crawl is told to stop
    FairShareSlots,   \* how many crawls the budget is shared between
    Ceiling           \* a crawl's concurrency, its `in_flight_ceiling`

ASSUME BudgetAssumption ==
    /\ BudgetBytes \in Nat \ {0}
    /\ FairShareSlots \in Nat \ {0}
    /\ Ceiling \in [Crawls -> Nat \ {0}]

VARIABLES
    accounts,         \* the account of each crawl, open while registered
    nextSequence      \* the next value of `_sequence`

budgetVars == <<accounts, nextSequence>>

FairShareBytes == BudgetBytes \div FairShareSlots

Account ==
    [open : BOOLEAN, sequence : Nat, charged : Nat, pages : Nat,
     landed : Nat, credited : Nat, overhead : Nat,
     linksCharged : Nat, linksCredited : Nat, skipped : Nat, stop : BOOLEAN]

FreshAccount(registered, n) ==
    [open |-> registered, sequence |-> n, charged |-> 0, pages |-> 0,
     landed |-> 0, credited |-> 0, overhead |-> 0,
     linksCharged |-> 0, linksCredited |-> 0, skipped |-> 0, stop |-> FALSE]

\* What a crawl is counted as holding, with the bodies that may be in flight
\* reserved at the mean size of the bodies that landed.
Projected(accts, c) ==
    accts[c].charged
      + Ceiling[c] * (IF accts[c].pages = 0 THEN 0
                      ELSE accts[c].landed \div accts[c].pages)

SumProjected(accts, cs) == MapThenSumSet(LAMBDA c : Projected(accts, c), cs)

Registered(accts) == {c \in Crawls : accts[c].open}

Candidates(accts) ==
    {c \in Registered(accts) : /\ accts[c].pages > 0
                               /\ ~accts[c].stop
                               /\ Projected(accts, c) > FairShareBytes}

\* Mistake: the newest candidate, whatever its size.
IsVictimNewest(accts, c) ==
    /\ c \in Candidates(accts)
    /\ \A d \in Candidates(accts) \ {c} : accts[c].sequence > accts[d].sequence

\* The largest candidate, the newest on a tie.
IsVictim(accts, c) ==
    /\ c \in Candidates(accts)
    /\ \A d \in Candidates(accts) \ {c} :
          \/ Projected(accts, c) > Projected(accts, d)
          \/ /\ Projected(accts, c) = Projected(accts, d)
             /\ accts[c].sequence > accts[d].sequence

BudgetReached(accts) == SumProjected(accts, Registered(accts)) >= BudgetBytes

\* The accounts once a charge has looked for a crawl to stop.
AfterCharge(accts, c) ==
    IF accts[c].open /\ BudgetReached(accts)
    THEN [d \in Crawls |-> [accts[d] EXCEPT !.stop = @ \/ IsVictim(accts, d)]]
    ELSE accts

Lesser(m, n) == IF m < n THEN m ELSE n

-----------------------------------------------------------------------------
BudgetInit ==
    /\ accounts = [c \in Crawls |-> FreshAccount(FALSE, 0)]
    /\ nextSequence = 0

OpenAccount(c) ==
    /\ accounts' = [accounts EXCEPT ![c] = FreshAccount(TRUE, nextSequence)]
    /\ nextSequence' = nextSequence + 1

\* The account leaves the registry; nothing reads it afterwards.
CloseAccount(c) ==
    /\ accounts' = [accounts EXCEPT ![c] = FreshAccount(FALSE, 0)]
    /\ UNCHANGED nextSequence

Charge(c, body, extra) ==
    /\ accounts' = AfterCharge([accounts EXCEPT ![c].charged = @ + body + extra,
                                                ![c].landed = @ + body,
                                                ![c].overhead = @ + extra,
                                                ![c].pages = @ + 1], c)
    /\ UNCHANGED nextSequence

ChargeLinks(c, n) ==
    /\ accounts' = AfterCharge([accounts EXCEPT ![c].charged = @ + n,
                                                ![c].linksCharged = @ + n], c)
    /\ UNCHANGED nextSequence

\* A credit is clamped to the bodies that landed and were not credited yet.
Credit(c, n) ==
    LET applied == Lesser(n, accounts[c].landed - accounts[c].credited)
    IN  /\ accounts' = [accounts EXCEPT ![c].credited = @ + applied,
                                        ![c].charged = @ - applied]
        /\ UNCHANGED nextSequence

CreditLinks(c, n) ==
    LET applied == Lesser(n, accounts[c].linksCharged - accounts[c].linksCredited)
    IN  /\ accounts' = [accounts EXCEPT ![c].linksCredited = @ + applied,
                                        ![c].charged = @ - applied]
        /\ UNCHANGED nextSequence

RecordSkip(c) ==
    /\ accounts' = [accounts EXCEPT ![c].skipped = @ + 1]
    /\ UNCHANGED nextSequence
=============================================================================
