-------------------------- MODULE CrawlLevelsProofs --------------------------
(* Theorems about CrawlLevels, for any number of crawls, any budget, any     *)
(* shares and any sizes of pages.                                            *)
EXTENDS CrawlLevels, FoldFacts

\* The books of one account: what is charged is what landed and was not
\* credited, and nothing is credited that did not land.
Balanced(a) ==
    /\ a.credited <= a.landed
    /\ a.linksCredited <= a.linksCharged
    /\ a.charged = (a.landed - a.credited) + a.overhead
                      + (a.linksCharged - a.linksCredited)

\* An account stopped has pages, and only a stop makes a crawl skip fetches.
StopEarned(a) ==
    /\ a.stop => a.pages > 0
    /\ a.skipped > 0 => a.stop

AccountsInv ==
    /\ accounts \in [Crawls -> Account]
    /\ nextSequence \in Nat
    /\ \A c \in Crawls : Balanced(accounts[c]) /\ StopEarned(accounts[c])

CrawlsInv ==
    /\ crawl \in [Crawls -> Crawl]
    /\ \A c \in Crawls : crawl[c].flying <= Ceiling[c]
    /\ cancelled \subseteq Crawls

\* Why a crawl ended, next to what it missed: a is its account, k its thread,
\* and gone says whether it was cancelled.
EndsWell(a, k, gone) ==
    /\ k.phase # "ended" => k.reason = "none"
    /\ k.phase = "ended" =>
          /\ k.reason = "memory" => a.stop /\ a.skipped + k.frontier > 0
          /\ k.reason = "none" /\ ~gone => a.skipped + k.frontier = 0

ReasonsInv == \A c \in Crawls : EndsWell(accounts[c], crawl[c], c \in cancelled)

IInv == AccountsInv /\ CrawlsInv /\ ReasonsInv

-----------------------------------------------------------------------------
\* The accounts after an operation are those before it but for the stop of some
\* that have landed a page.
StopsOnly(before, after) ==
    \A d \in Crawls :
        \/ after[d] = before[d]
        \/ /\ after[d] = [before[d] EXCEPT !.stop = TRUE]
           /\ before[d].pages > 0

\* What every operation on an account leaves of the others and of itself.
KeepsHistory(before, after) ==
    \A d \in Crawls : /\ after[d].skipped = before[d].skipped
                      /\ before[d].stop => after[d].stop

\* The types of the fields of an account.
LEMMA AccountFields ==
    ASSUME NEW a \in Account
    PROVE  /\ a.charged \in Nat /\ a.pages \in Nat
           /\ a.landed \in Nat /\ a.credited \in Nat /\ a.overhead \in Nat
           /\ a.linksCharged \in Nat /\ a.linksCredited \in Nat
           /\ a.skipped \in Nat /\ a.stop \in BOOLEAN
  BY DEF Account

\* A charge changes nothing but stops, and stops no crawl without a page.
LEMMA AfterChargeStops ==
    ASSUME NEW accts \in [Crawls -> Account], NEW c \in Crawls
    PROVE  /\ AfterCharge(accts, c) \in [Crawls -> Account]
           /\ StopsOnly(accts, AfterCharge(accts, c))
<1>1. ASSUME NEW d \in Crawls
      PROVE  /\ [accts[d] EXCEPT !.stop = @ \/ IsVictim(accts, d)] \in Account
             /\ \/ [accts[d] EXCEPT !.stop = @ \/ IsVictim(accts, d)] = accts[d]
                \/ /\ [accts[d] EXCEPT !.stop = @ \/ IsVictim(accts, d)]
                        = [accts[d] EXCEPT !.stop = TRUE]
                   /\ accts[d].pages > 0
  <2>1. accts[d] \in Account
    OBVIOUS
  <2>2. CASE IsVictim(accts, d)
    <3>1. accts[d].pages > 0
      BY <2>2 DEF IsVictim, Candidates
    <3>2. (accts[d].stop \/ IsVictim(accts, d)) = TRUE
      BY <2>2
    <3> QED
      BY <2>1, <3>1, <3>2 DEF Account
  <2>3. CASE ~IsVictim(accts, d)
    <3>1. (accts[d].stop \/ IsVictim(accts, d)) = accts[d].stop
      BY <2>1, <2>3 DEF Account
    <3> QED
      BY <2>1, <3>1 DEF Account
  <2> QED
    BY <2>2, <2>3
<1>2. CASE accts[c].open /\ BudgetReached(accts)
  <2>1. AfterCharge(accts, c)
          = [d \in Crawls |-> [accts[d] EXCEPT !.stop = @ \/ IsVictim(accts, d)]]
    BY <1>2 DEF AfterCharge
  <2> QED
    BY <1>1, <2>1 DEF StopsOnly
<1>3. CASE ~(accts[c].open /\ BudgetReached(accts))
  BY <1>3 DEF AfterCharge, StopsOnly
<1> QED
  BY <1>2, <1>3

\* Stopping crawls that have landed a page keeps the books of every account.
LEMMA StopsKeepBooks ==
    ASSUME NEW before \in [Crawls -> Account], NEW after \in [Crawls -> Account],
           StopsOnly(before, after),
           \A d \in Crawls : Balanced(before[d]) /\ StopEarned(before[d])
    PROVE  /\ \A d \in Crawls : Balanced(after[d]) /\ StopEarned(after[d])
           /\ KeepsHistory(before, after)
<1> SUFFICES ASSUME NEW d \in Crawls
             PROVE  /\ Balanced(after[d]) /\ StopEarned(after[d])
                    /\ after[d].skipped = before[d].skipped
                    /\ before[d].stop => after[d].stop
  BY DEF KeepsHistory
<1>1. before[d] \in Account
  OBVIOUS
<1>2. CASE after[d] = before[d]
  BY <1>2
<1>3. CASE after[d] = [before[d] EXCEPT !.stop = TRUE] /\ before[d].pages > 0
  BY <1>1, <1>3 DEF Account, Balanced, StopEarned
<1> QED
  BY <1>2, <1>3 DEF StopsOnly

-----------------------------------------------------------------------------
\* A body is charged once, with its overhead, and counts as a page.
LEMMA ChargeKeepsBooks ==
    ASSUME AccountsInv, NEW c \in Crawls, NEW body \in Nat, NEW extra \in Nat,
           Charge(c, body, extra)
    PROVE  AccountsInv' /\ KeepsHistory(accounts, accounts')
<1> DEFINE charged == [accounts EXCEPT ![c].charged = @ + body + extra,
                                       ![c].landed = @ + body,
                                       ![c].overhead = @ + extra,
                                       ![c].pages = @ + 1]
<1>1. /\ charged \in [Crawls -> Account]
      /\ \A d \in Crawls : Balanced(charged[d]) /\ StopEarned(charged[d])
      /\ KeepsHistory(accounts, charged)
  <2>1. ASSUME NEW d \in Crawls
        PROVE  /\ charged[d] \in Account
               /\ Balanced(charged[d]) /\ StopEarned(charged[d])
               /\ charged[d].skipped = accounts[d].skipped
               /\ charged[d].stop = accounts[d].stop
    <3>1. accounts[d] \in Account /\ Balanced(accounts[d]) /\ StopEarned(accounts[d])
      BY DEF AccountsInv
    <3>2. CASE d = c
      <4>1. charged[d] = [accounts[d] EXCEPT !.charged = @ + body + extra, !.landed = @ + body,
                                            !.overhead = @ + extra, !.pages = @ + 1]
        BY <3>2 DEF AccountsInv
      <4> DEFINE total == accounts[d].charged + body + extra
                 bodies == accounts[d].landed + body
                 over == accounts[d].overhead + extra
                 count == accounts[d].pages + 1
      <4>2. /\ total = accounts[d].charged + body + extra
            /\ bodies = accounts[d].landed + body
            /\ over = accounts[d].overhead + extra
            /\ count = accounts[d].pages + 1
            /\ total \in Nat /\ bodies \in Nat /\ over \in Nat /\ count \in Nat
        BY <3>1, AccountFields
      <4>3. charged[d] = [accounts[d] EXCEPT !.charged = total, !.landed = bodies,
                                             !.overhead = over, !.pages = count]
        BY <4>1
      <4> HIDE DEF total, bodies, over, count, charged
      <4>4. charged[d] \in Account
        BY <3>1, <4>2, <4>3 DEF Account
      <4>7. /\ charged[d].charged = total
            /\ charged[d].landed = bodies
            /\ charged[d].overhead = over
            /\ charged[d].pages = count
        BY <3>1, <4>3 DEF Account
      <4>8. /\ charged[d].linksCharged = accounts[d].linksCharged
            /\ charged[d].skipped = accounts[d].skipped
            /\ charged[d].stop = accounts[d].stop
            /\ charged[d].credited = accounts[d].credited
            /\ charged[d].linksCredited = accounts[d].linksCredited
        BY <3>1, <4>3 DEF Account
      <4>5. Balanced(charged[d])
        BY <3>1, <4>2, <4>7, <4>8, AccountFields DEF Balanced
      <4>6. StopEarned(charged[d])
        BY <3>1, <4>2, <4>7, <4>8, AccountFields DEF StopEarned
      <4> QED
        BY <4>4, <4>5, <4>6, <4>8
    <3>3. CASE d # c
      <4>1. charged[d] = accounts[d]
        BY <3>3 DEF AccountsInv
      <4> HIDE DEF charged
      <4> QED
        BY <3>1, <4>1
    <3> QED
      BY <3>2, <3>3
  <2>2. charged = [d \in Crawls |-> charged[d]]
    BY DEF AccountsInv
  <2> HIDE DEF charged
  <2> QED
    BY <2>1, <2>2 DEF KeepsHistory
<1>2. accounts' = AfterCharge(charged, c) /\ nextSequence' = nextSequence
  BY DEF Charge
<1> HIDE DEF charged
<1>3. /\ accounts' \in [Crawls -> Account]
      /\ StopsOnly(charged, accounts')
  BY <1>1, <1>2, AfterChargeStops
<1>4. /\ \A d \in Crawls : Balanced(accounts'[d]) /\ StopEarned(accounts'[d])
      /\ KeepsHistory(charged, accounts')
  BY <1>1, <1>3, StopsKeepBooks
<1>5. KeepsHistory(accounts, accounts')
  BY <1>1, <1>4 DEF KeepsHistory
<1> QED
  BY <1>2, <1>3, <1>4, <1>5 DEF AccountsInv

\* Links are charged as they are read.
LEMMA ChargeLinksKeepsBooks ==
    ASSUME AccountsInv, NEW c \in Crawls, NEW n \in Nat, ChargeLinks(c, n)
    PROVE  AccountsInv' /\ KeepsHistory(accounts, accounts')
<1> DEFINE charged == [accounts EXCEPT ![c].charged = @ + n,
                                       ![c].linksCharged = @ + n]
<1>1. /\ charged \in [Crawls -> Account]
      /\ \A d \in Crawls : Balanced(charged[d]) /\ StopEarned(charged[d])
      /\ KeepsHistory(accounts, charged)
  <2>1. ASSUME NEW d \in Crawls
        PROVE  /\ charged[d] \in Account
               /\ Balanced(charged[d]) /\ StopEarned(charged[d])
               /\ charged[d].skipped = accounts[d].skipped
               /\ charged[d].stop = accounts[d].stop
    <3>1. accounts[d] \in Account /\ Balanced(accounts[d]) /\ StopEarned(accounts[d])
      BY DEF AccountsInv
    <3>2. CASE d = c
      <4>1. charged[d] = [accounts[d] EXCEPT !.charged = @ + n, !.linksCharged = @ + n]
        BY <3>2 DEF AccountsInv
      <4> DEFINE total == accounts[d].charged + n
                 links == accounts[d].linksCharged + n
      <4>2. /\ total = accounts[d].charged + n
            /\ links = accounts[d].linksCharged + n
            /\ total \in Nat /\ links \in Nat
        BY <3>1, AccountFields
      <4>3. charged[d] = [accounts[d] EXCEPT !.charged = total, !.linksCharged = links]
        BY <4>1
      <4> HIDE DEF total, links, charged
      <4>4. charged[d] \in Account
        BY <3>1, <4>2, <4>3 DEF Account
      <4>7. charged[d].charged = total /\ charged[d].linksCharged = links
        BY <3>1, <4>3 DEF Account
      <4>8. /\ charged[d].landed = accounts[d].landed
            /\ charged[d].overhead = accounts[d].overhead
            /\ charged[d].pages = accounts[d].pages
            /\ charged[d].skipped = accounts[d].skipped
            /\ charged[d].stop = accounts[d].stop
            /\ charged[d].credited = accounts[d].credited
            /\ charged[d].linksCredited = accounts[d].linksCredited
        BY <3>1, <4>3 DEF Account
      <4>5. Balanced(charged[d])
        BY <3>1, <4>2, <4>7, <4>8, AccountFields DEF Balanced
      <4>6. StopEarned(charged[d])
        BY <3>1, <4>2, <4>7, <4>8, AccountFields DEF StopEarned
      <4> QED
        BY <4>4, <4>5, <4>6, <4>8
    <3>3. CASE d # c
      <4>1. charged[d] = accounts[d]
        BY <3>3 DEF AccountsInv
      <4> HIDE DEF charged
      <4> QED
        BY <3>1, <4>1
    <3> QED
      BY <3>2, <3>3
  <2>2. charged = [d \in Crawls |-> charged[d]]
    BY DEF AccountsInv
  <2> HIDE DEF charged
  <2> QED
    BY <2>1, <2>2 DEF KeepsHistory
<1>2. accounts' = AfterCharge(charged, c) /\ nextSequence' = nextSequence
  BY DEF ChargeLinks
<1> HIDE DEF charged
<1>3. /\ accounts' \in [Crawls -> Account]
      /\ StopsOnly(charged, accounts')
  BY <1>1, <1>2, AfterChargeStops
<1>4. /\ \A d \in Crawls : Balanced(accounts'[d]) /\ StopEarned(accounts'[d])
      /\ KeepsHistory(charged, accounts')
  BY <1>1, <1>3, StopsKeepBooks
<1>5. KeepsHistory(accounts, accounts')
  BY <1>1, <1>4 DEF KeepsHistory
<1> QED
  BY <1>2, <1>3, <1>4, <1>5 DEF AccountsInv

\* A credit is clamped, so that no account is counted as holding less than nothing.
LEMMA CreditKeepsBooks ==
    ASSUME AccountsInv, NEW c \in Crawls, NEW n \in Nat,
           Credit(c, n) \/ CreditLinks(c, n)
    PROVE  AccountsInv' /\ KeepsHistory(accounts, accounts')
<1>1. accounts \in [Crawls -> Account] /\ Balanced(accounts[c])
  BY DEF AccountsInv
<1>2. CASE Credit(c, n)
  <2> DEFINE applied == Lesser(n, accounts[c].landed - accounts[c].credited)
  <2>1. applied \in Nat /\ applied <= accounts[c].landed - accounts[c].credited
    BY <1>1, AccountFields DEF Balanced, Lesser
  <2>2. /\ accounts' = [accounts EXCEPT ![c].credited = @ + applied,
                                        ![c].charged = @ - applied]
        /\ nextSequence' = nextSequence
    BY <1>2 DEF Credit
  <2> HIDE DEF applied
  <2>3. ASSUME NEW d \in Crawls
        PROVE  /\ accounts'[d] \in Account
               /\ Balanced(accounts'[d]) /\ StopEarned(accounts'[d])
               /\ accounts'[d].skipped = accounts[d].skipped
               /\ accounts'[d].stop = accounts[d].stop
    <3>1. accounts[d] \in Account /\ Balanced(accounts[d]) /\ StopEarned(accounts[d])
      BY DEF AccountsInv
    <3>2. CASE d = c
      <4>1. accounts'[d] = [accounts[d] EXCEPT !.credited = @ + applied, !.charged = @ - applied]
        BY <2>2, <3>2 DEF AccountsInv
      <4>2. /\ accounts'[d].charged = accounts[d].charged - applied
            /\ accounts'[d].credited = accounts[d].credited + applied
            /\ accounts'[d].linksCredited = accounts[d].linksCredited
            /\ accounts'[d].landed = accounts[d].landed
            /\ accounts'[d].overhead = accounts[d].overhead
            /\ accounts'[d].linksCharged = accounts[d].linksCharged
        BY <3>1, <4>1 DEF Account
      <4>3. /\ accounts'[d].pages = accounts[d].pages
            /\ accounts'[d].skipped = accounts[d].skipped
            /\ accounts'[d].stop = accounts[d].stop
        BY <3>1, <4>1 DEF Account
      <4>4. Balanced(accounts'[d])
        BY <2>1, <3>1, <3>2, <4>2, AccountFields DEF Balanced
      <4>5. accounts[d].charged - applied \in Nat
        BY <2>1, <3>1, <3>2, AccountFields DEF Balanced
      <4>6. accounts'[d] \in Account
        <5> DEFINE total == accounts[d].charged - applied
                   returned == accounts[d].credited + applied
        <5>1. total \in Nat /\ returned \in Nat
          BY <2>1, <3>1, <4>5, AccountFields
        <5>2. accounts'[d] = [accounts[d] EXCEPT !.credited = returned, !.charged = total]
          BY <4>1
        <5> HIDE DEF total, returned
        <5> QED
          BY <3>1, <5>1, <5>2 DEF Account
      <4>7. StopEarned(accounts'[d])
        BY <3>1, <4>3, AccountFields DEF StopEarned
      <4> QED
        BY <4>3, <4>4, <4>6, <4>7
    <3>3. CASE d # c
      <4>1. accounts'[d] = accounts[d]
        BY <2>2, <3>3 DEF AccountsInv
      <4> QED
        BY <3>1, <4>1
    <3> QED
      BY <3>2, <3>3
  <2>4. accounts' = [d \in Crawls |-> accounts'[d]]
    BY <2>2 DEF AccountsInv
  <2> QED
    BY <2>2, <2>3, <2>4 DEF AccountsInv, KeepsHistory
<1>3. CASE CreditLinks(c, n)
  <2> DEFINE applied == Lesser(n, accounts[c].linksCharged - accounts[c].linksCredited)
  <2>1. /\ applied \in Nat
        /\ applied <= accounts[c].linksCharged - accounts[c].linksCredited
    BY <1>1, AccountFields DEF Balanced, Lesser
  <2>2. /\ accounts' = [accounts EXCEPT ![c].linksCredited = @ + applied,
                                        ![c].charged = @ - applied]
        /\ nextSequence' = nextSequence
    BY <1>3 DEF CreditLinks
  <2> HIDE DEF applied
  <2>3. ASSUME NEW d \in Crawls
        PROVE  /\ accounts'[d] \in Account
               /\ Balanced(accounts'[d]) /\ StopEarned(accounts'[d])
               /\ accounts'[d].skipped = accounts[d].skipped
               /\ accounts'[d].stop = accounts[d].stop
    <3>1. accounts[d] \in Account /\ Balanced(accounts[d]) /\ StopEarned(accounts[d])
      BY DEF AccountsInv
    <3>2. CASE d = c
      <4>1. accounts'[d] = [accounts[d] EXCEPT !.linksCredited = @ + applied, !.charged = @ - applied]
        BY <2>2, <3>2 DEF AccountsInv
      <4>2. /\ accounts'[d].charged = accounts[d].charged - applied
            /\ accounts'[d].linksCredited = accounts[d].linksCredited + applied
            /\ accounts'[d].credited = accounts[d].credited
            /\ accounts'[d].landed = accounts[d].landed
            /\ accounts'[d].overhead = accounts[d].overhead
            /\ accounts'[d].linksCharged = accounts[d].linksCharged
        BY <3>1, <4>1 DEF Account
      <4>3. /\ accounts'[d].pages = accounts[d].pages
            /\ accounts'[d].skipped = accounts[d].skipped
            /\ accounts'[d].stop = accounts[d].stop
        BY <3>1, <4>1 DEF Account
      <4>4. Balanced(accounts'[d])
        BY <2>1, <3>1, <3>2, <4>2, AccountFields DEF Balanced
      <4>5. accounts[d].charged - applied \in Nat
        BY <2>1, <3>1, <3>2, AccountFields DEF Balanced
      <4>6. accounts'[d] \in Account
        <5> DEFINE total == accounts[d].charged - applied
                   returned == accounts[d].linksCredited + applied
        <5>1. total \in Nat /\ returned \in Nat
          BY <2>1, <3>1, <4>5, AccountFields
        <5>2. accounts'[d] = [accounts[d] EXCEPT !.linksCredited = returned, !.charged = total]
          BY <4>1
        <5> HIDE DEF total, returned
        <5> QED
          BY <3>1, <5>1, <5>2 DEF Account
      <4>7. StopEarned(accounts'[d])
        BY <3>1, <4>3, AccountFields DEF StopEarned
      <4> QED
        BY <4>3, <4>4, <4>6, <4>7
    <3>3. CASE d # c
      <4>1. accounts'[d] = accounts[d]
        BY <2>2, <3>3 DEF AccountsInv
      <4> QED
        BY <3>1, <4>1
    <3> QED
      BY <3>2, <3>3
  <2>4. accounts' = [d \in Crawls |-> accounts'[d]]
    BY <2>2 DEF AccountsInv
  <2> QED
    BY <2>2, <2>3, <2>4 DEF AccountsInv, KeepsHistory
<1> QED
  BY <1>2, <1>3
-----------------------------------------------------------------------------
\* The step of one crawl leaves the others with the fetches they skipped, and
\* takes no stop back.
LeavesOthers(c) ==
    \A d \in Crawls \ {c} : /\ accounts'[d].skipped = accounts[d].skipped
                            /\ accounts[d].stop => accounts'[d].stop

\* A skip of a stopped crawl, a new account and a closed one keep the books.
LEMMA SkipKeepsBooks ==
    ASSUME AccountsInv, NEW c \in Crawls, accounts[c].stop, RecordSkip(c)
    PROVE  /\ AccountsInv' /\ LeavesOthers(c)
           /\ accounts'[c].skipped = accounts[c].skipped + 1 /\ accounts'[c].stop
<1>1. accounts[c] \in Account /\ Balanced(accounts[c]) /\ StopEarned(accounts[c])
  BY DEF AccountsInv
<1> DEFINE more == accounts[c].skipped + 1
           a == [accounts[c] EXCEPT !.skipped = more]
<1>2. more \in Nat /\ more > 0
  BY <1>1, AccountFields
<1>3. accounts' = [accounts EXCEPT ![c] = a] /\ nextSequence' = nextSequence
  BY DEF RecordSkip
<1> HIDE DEF more
<1>4. a \in Account /\ a.skipped = more
  BY <1>1, <1>2 DEF Account
<1>5. Balanced(a) /\ a.pages = accounts[c].pages /\ a.stop
  BY <1>1 DEF Account, Balanced
<1>6. StopEarned(a)
  BY <1>1, <1>5 DEF StopEarned
<1> HIDE DEF a
<1>7. AccountsInv'
  BY <1>3, <1>4, <1>5, <1>6 DEF AccountsInv
<1>8. accounts'[c] = a /\ LeavesOthers(c)
  BY <1>3 DEF AccountsInv, LeavesOthers
<1> QED
  BY <1>4, <1>5, <1>7, <1>8 DEF more

LEMMA FreshIsEmpty ==
    ASSUME NEW registered \in BOOLEAN, NEW n \in Nat
    PROVE  /\ FreshAccount(registered, n) \in Account
           /\ FreshAccount(registered, n).skipped = 0
           /\ Balanced(FreshAccount(registered, n))
           /\ StopEarned(FreshAccount(registered, n))
  BY DEF Account, FreshAccount, Balanced, StopEarned

LEMMA FreshKeepsBooks ==
    ASSUME AccountsInv, NEW c \in Crawls, OpenAccount(c) \/ CloseAccount(c)
    PROVE  AccountsInv' /\ LeavesOthers(c) /\ accounts'[c].skipped = 0
<1>1. nextSequence \in Nat /\ 0 \in Nat
  BY DEF AccountsInv
<1>2. nextSequence' \in Nat
  <2>1. CASE OpenAccount(c)
    BY <1>1, <2>1 DEF OpenAccount
  <2>2. CASE CloseAccount(c)
    BY <1>1, <2>2 DEF CloseAccount
  <2> QED
    BY <2>1, <2>2
<1>3. PICK registered \in BOOLEAN, n \in Nat :
         accounts' = [accounts EXCEPT ![c] = FreshAccount(registered, n)]
  <2>1. CASE OpenAccount(c)
    BY <1>1, <2>1 DEF OpenAccount
  <2>2. CASE CloseAccount(c)
    BY <1>1, <2>2 DEF CloseAccount
  <2> QED
    BY <2>1, <2>2
<1>4. AccountsInv'
  BY <1>2, <1>3, FreshIsEmpty DEF AccountsInv
<1>5. LeavesOthers(c) /\ accounts'[c].skipped = 0
  BY <1>3, FreshIsEmpty DEF AccountsInv, LeavesOthers
<1> QED
  BY <1>4, <1>5

\* What is left to show of the step of a crawl: the books, and its own record.
LEMMA OneCrawlSteps ==
    ASSUME IInv, NEW c \in Crawls, NEW k \in Crawl,
           crawl' = [crawl EXCEPT ![c] = k], k.flying <= Ceiling[c],
           cancelled' = cancelled, AccountsInv', LeavesOthers(c),
           EndsWell(accounts'[c], k, c \in cancelled)
    PROVE  IInv'
<1>1. CrawlsInv'
  BY DEF IInv, CrawlsInv
<1>2. ASSUME NEW d \in Crawls
      PROVE  EndsWell(accounts'[d], crawl'[d], d \in cancelled')
  <2>1. CASE d = c
    BY <2>1 DEF IInv, CrawlsInv
  <2>2. CASE d # c
    <3>1. crawl'[d] = crawl[d] /\ EndsWell(accounts[d], crawl[d], d \in cancelled)
      BY <2>2 DEF IInv, CrawlsInv, ReasonsInv
    <3>2. /\ accounts'[d].skipped = accounts[d].skipped
          /\ accounts[d].stop => accounts'[d].stop
      BY <2>2 DEF LeavesOthers
    <3> QED
      BY <3>1, <3>2 DEF EndsWell
  <2> QED
    BY <2>1, <2>2
<1>3. ReasonsInv'
  BY <1>2 DEF ReasonsInv
<1> QED
  BY <1>1, <1>3 DEF IInv

\* The types of the fields of a crawl.
LEMMA CrawlFields ==
    ASSUME NEW k \in Crawl
    PROVE  /\ k.frontier \in Nat /\ k.left \in Nat
           /\ k.fresh \in Nat /\ k.waiting \in Nat /\ k.flying \in Nat
           /\ k.home \in BOOLEAN /\ k.kept \in Nat /\ k.body \in Nat
           /\ k.results \in Seq(LinkSizes \cup {Unread})
           /\ k.reason \in Reasons /\ k.phase \in Phases
  BY DEF Crawl

\* An operation on accounts that keeps history leaves the other crawls alone.
LEMMA HistoryLeavesOthers ==
    ASSUME NEW c \in Crawls, KeepsHistory(accounts, accounts')
    PROVE  LeavesOthers(c)
  BY DEF KeepsHistory, LeavesOthers

LEMMA SameAccounts ==
    ASSUME AccountsInv, NEW c \in Crawls, UNCHANGED <<accounts, nextSequence>>
    PROVE  AccountsInv' /\ LeavesOthers(c)
  BY DEF AccountsInv, LeavesOthers

\* A crawl that has not ended has no reason yet.
LEMMA RunningCrawl ==
    ASSUME IInv, NEW c \in Crawls, crawl[c].phase # "ended"
    PROVE  /\ crawl[c] \in Crawl /\ crawl[c].flying <= Ceiling[c]
           /\ crawl[c].reason = "none" /\ Ceiling[c] \in Nat
  BY BudgetAssumption DEF IInv, CrawlsInv, ReasonsInv, EndsWell

\* A step after which the crawl runs on, or ends for another reason than the
\* budget, needs no more than the types and the books.
LEMMA OtherStep ==
    ASSUME IInv, NEW c \in Crawls, NEW k \in Crawl,
           crawl' = [crawl EXCEPT ![c] = k], k.flying <= Ceiling[c],
           cancelled' = cancelled, AccountsInv', LeavesOthers(c),
           \/ k.phase # "ended" /\ k.reason = "none"
           \/ k.phase = "ended" /\ k.reason \in {"stalled", "error"}
    PROVE  IInv'
<1>1. EndsWell(accounts'[c], k, c \in cancelled)
  BY DEF EndsWell
<1> QED
  BY <1>1, OneCrawlSteps

-----------------------------------------------------------------------------
LEMMA StartCrawlKeeps ==
    ASSUME IInv, NEW c \in Crawls, StartCrawl(c)
    PROVE  IInv'
<1>1. PICK n \in 1..MaxUrls[c] :
         crawl' = [crawl EXCEPT ![c] = [Idle EXCEPT !.phase = "levels", !.frontier = n,
                                                    !.left = MaxUrls[c] - n]]
  BY DEF StartCrawl
<1> DEFINE rest == MaxUrls[c] - n
           k == [Idle EXCEPT !.phase = "levels", !.frontier = n, !.left = rest]
<1>2. n \in Nat /\ rest \in Nat
  BY CrawlAssumption
<1>3. crawl' = [crawl EXCEPT ![c] = k] /\ cancelled' = cancelled
  BY <1>1 DEF StartCrawl
<1> HIDE DEF rest
<1>4. <<>> \in Seq(LinkSizes \cup {Unread})
  OBVIOUS
<1>5. k \in Crawl /\ k.phase = "levels" /\ k.reason = "none" /\ k.flying = 0
  BY <1>2, <1>4 DEF Idle, Crawl, Phases, Reasons
<1> HIDE DEF k
<1>6. AccountsInv' /\ LeavesOthers(c)
  BY FreshKeepsBooks DEF IInv, StartCrawl
<1>7. k.flying <= Ceiling[c]
  BY <1>5, BudgetAssumption
<1>8. EndsWell(accounts'[c], k, c \in cancelled)
  BY <1>5 DEF EndsWell
<1> QED
  BY <1>3, <1>5, <1>6, <1>7, <1>8, OneCrawlSteps

LEMMA CancelKeeps ==
    ASSUME IInv, NEW c \in Crawls, Cancel(c)
    PROVE  IInv'
<1>1. AccountsInv' /\ CrawlsInv'
  BY DEF IInv, AccountsInv, CrawlsInv, Cancel
<1>2. ReasonsInv'
  BY DEF IInv, ReasonsInv, EndsWell, Cancel
<1> QED
  BY <1>1, <1>2 DEF IInv

LEMMA BeginLevelKeeps ==
    ASSUME IInv, NEW c \in Crawls, BeginLevel(c)
    PROVE  IInv'
<1>1. /\ crawl[c] \in Crawl /\ crawl[c].flying <= Ceiling[c]
      /\ crawl[c].phase = "levels" /\ crawl[c].reason = "none"
      /\ crawl[c].frontier > 0 /\ accounts[c] \in Account
  BY DEF IInv, CrawlsInv, AccountsInv, ReasonsInv, EndsWell, BeginLevel, LevelRecorded,
         LevelFetched, In
<1>2. AccountsInv' /\ LeavesOthers(c) /\ cancelled' = cancelled /\ accounts' = accounts
  BY SameAccounts DEF IInv, BeginLevel
<1>3. CASE c \in cancelled
  <2> DEFINE k == [crawl[c] EXCEPT !.phase = "ended", !.reason = "cancelled"]
  <2>1. crawl' = [crawl EXCEPT ![c] = k]
    BY <1>3 DEF BeginLevel, IInv, CrawlsInv
  <2>2. k \in Crawl /\ k.reason = "cancelled" /\ k.flying = crawl[c].flying
    BY <1>1 DEF Crawl, Phases, Reasons
  <2>3. EndsWell(accounts'[c], k, c \in cancelled)
    BY <1>1 DEF EndsWell, Crawl
  <2> HIDE DEF k
  <2> QED
    BY <1>1, <1>2, <2>1, <2>2, <2>3, OneCrawlSteps
<1>4. CASE c \notin cancelled /\ accounts[c].stop
  <2> DEFINE k == [crawl[c] EXCEPT !.phase = "ended", !.reason = "memory"]
  <2>1. crawl' = [crawl EXCEPT ![c] = k]
    BY <1>4 DEF BeginLevel, IInv, CrawlsInv
  <2>2. /\ k \in Crawl /\ k.reason = "memory" /\ k.flying = crawl[c].flying
        /\ k.frontier = crawl[c].frontier /\ k.phase = "ended"
    BY <1>1 DEF Crawl, Phases, Reasons
  <2> HIDE DEF k
  <2>3. EndsWell(accounts'[c], k, c \in cancelled)
    BY <1>1, <1>2, <1>4, <2>2, AccountFields, CrawlFields DEF EndsWell
  <2> QED
    BY <1>1, <1>2, <2>1, <2>2, <2>3, OneCrawlSteps
<1>5. CASE c \notin cancelled /\ ~accounts[c].stop
  <2>1. PICK n \in 0..crawl[c].frontier :
           crawl' = [crawl EXCEPT ![c].frontier = 0, ![c].fresh = n]
    BY <1>5 DEF BeginLevel
  <2>2. n \in Nat
    BY <1>1, CrawlFields
  <2> DEFINE k == [crawl[c] EXCEPT !.frontier = 0, !.fresh = n]
  <2>3. crawl' = [crawl EXCEPT ![c] = k]
    BY <2>1 DEF IInv, CrawlsInv
  <2>4. k \in Crawl /\ k.flying = crawl[c].flying
    BY <1>1, <2>2 DEF Crawl
  <2>5. k.phase = "levels" /\ k.reason = "none"
    BY <1>1 DEF Crawl
  <2> HIDE DEF k
  <2>6. EndsWell(accounts'[c], k, c \in cancelled)
    BY <2>5 DEF EndsWell
  <2> QED
    BY <1>1, <1>2, <2>3, <2>4, <2>6, OneCrawlSteps
<1> QED
  BY <1>3, <1>4, <1>5

LEMMA FinishCrawlKeeps ==
    ASSUME IInv, NEW c \in Crawls, FinishCrawl(c)
    PROVE  IInv'
<1>1. crawl[c].phase # "ended"
  BY DEF FinishCrawl, LevelRecorded, LevelFetched, In
<1>2. /\ crawl[c] \in Crawl /\ crawl[c].flying <= Ceiling[c]
      /\ crawl[c].reason = "none"
  BY <1>1, RunningCrawl
<1>3. AccountsInv' /\ LeavesOthers(c) /\ cancelled' = cancelled /\ accounts' = accounts
  BY SameAccounts DEF IInv, FinishCrawl
<1> DEFINE why == IF accounts[c].skipped > 0 /\ c \notin cancelled
                  THEN "memory" ELSE "none"
           k == [crawl[c] EXCEPT !.phase = "ended", !.reason = why]
<1>4. crawl' = [crawl EXCEPT ![c] = k]
  BY <1>2 DEF FinishCrawl, IInv, CrawlsInv
<1>5. why \in Reasons
  BY DEF Reasons
<1> HIDE DEF why
<1>6. /\ k \in Crawl /\ k.phase = "ended" /\ k.reason = why
      /\ k.flying = crawl[c].flying /\ k.frontier = 0
  BY <1>2, <1>5 DEF Crawl, Phases, FinishCrawl
<1> HIDE DEF k
<1>7. /\ accounts[c].skipped \in Nat
      /\ accounts[c].skipped > 0 => accounts[c].stop
  BY AccountFields DEF IInv, AccountsInv, StopEarned
<1>8. EndsWell(accounts'[c], k, c \in cancelled)
  BY <1>3, <1>6, <1>7 DEF EndsWell, why
<1> QED
  BY <1>2, <1>3, <1>4, <1>6, <1>8, OneCrawlSteps

LEMMA AdmitTaskKeeps ==
    ASSUME IInv, NEW c \in Crawls, AdmitTask(c)
    PROVE  IInv'
<1>1. crawl[c].phase = "levels"
  BY DEF AdmitTask, In
<1>2. /\ crawl[c] \in Crawl /\ crawl[c].flying <= Ceiling[c]
      /\ crawl[c].reason = "none" /\ cancelled' = cancelled
  BY <1>1, RunningCrawl DEF AdmitTask
<1> DEFINE fewer == crawl[c].fresh - 1
           more == crawl[c].waiting + 1
<1>3. fewer \in Nat /\ more \in Nat
  BY <1>2, CrawlFields DEF AdmitTask
<1>4. CASE crawl' = [crawl EXCEPT ![c].fresh = @ - 1]
  <2> DEFINE k == [crawl[c] EXCEPT !.fresh = fewer]
  <2>1. crawl' = [crawl EXCEPT ![c] = k]
    BY <1>4 DEF IInv, CrawlsInv
  <2>2. AccountsInv' /\ LeavesOthers(c)
    <3>1. CASE accounts[c].stop /\ RecordSkip(c)
      BY <3>1, SkipKeepsBooks DEF IInv
    <3>2. CASE UNCHANGED <<accounts, nextSequence>>
      BY <3>2, SameAccounts DEF IInv
    <3> QED
      BY <3>1, <3>2 DEF AdmitTask
  <2> HIDE DEF fewer
  <2>3. /\ k \in Crawl /\ k.flying = crawl[c].flying /\ k.phase = "levels"
        /\ k.reason = "none"
    BY <1>1, <1>2, <1>3 DEF Crawl
  <2> HIDE DEF k
  <2> QED
    BY <1>2, <2>1, <2>2, <2>3, OtherStep
<1>5. CASE /\ crawl' = [crawl EXCEPT ![c].fresh = @ - 1, ![c].waiting = @ + 1]
           /\ UNCHANGED <<accounts, nextSequence>>
  <2> DEFINE k == [crawl[c] EXCEPT !.fresh = fewer, !.waiting = more]
  <2>1. crawl' = [crawl EXCEPT ![c] = k]
    BY <1>5 DEF IInv, CrawlsInv
  <2>2. AccountsInv' /\ LeavesOthers(c)
    BY <1>5, SameAccounts DEF IInv
  <2> HIDE DEF fewer, more
  <2>3. /\ k \in Crawl /\ k.flying = crawl[c].flying /\ k.phase = "levels"
        /\ k.reason = "none"
    BY <1>1, <1>2, <1>3 DEF Crawl
  <2> HIDE DEF k
  <2> QED
    BY <1>2, <2>1, <2>2, <2>3, OtherStep
<1> QED
  BY <1>4, <1>5 DEF AdmitTask

LEMMA ClaimSlotKeeps ==
    ASSUME IInv, NEW c \in Crawls, ClaimSlot(c)
    PROVE  IInv'
<1>1. crawl[c].phase = "levels"
  BY DEF ClaimSlot, In
<1>2. /\ crawl[c] \in Crawl /\ crawl[c].flying <= Ceiling[c] /\ Ceiling[c] \in Nat
      /\ crawl[c].reason = "none" /\ cancelled' = cancelled
  BY <1>1, RunningCrawl DEF ClaimSlot
<1> DEFINE fewer == crawl[c].waiting - 1
           more == crawl[c].flying + 1
<1>3. fewer \in Nat /\ more \in Nat /\ more <= Ceiling[c]
  BY <1>2, CrawlFields DEF ClaimSlot
<1>4. CASE /\ accounts[c].stop /\ RecordSkip(c)
           /\ crawl' = [crawl EXCEPT ![c].waiting = @ - 1]
  <2> DEFINE k == [crawl[c] EXCEPT !.waiting = fewer]
  <2>1. crawl' = [crawl EXCEPT ![c] = k]
    BY <1>4 DEF IInv, CrawlsInv
  <2>2. AccountsInv' /\ LeavesOthers(c)
    BY <1>4, SkipKeepsBooks DEF IInv
  <2> HIDE DEF fewer
  <2>3. /\ k \in Crawl /\ k.flying = crawl[c].flying /\ k.phase = "levels"
        /\ k.reason = "none"
    BY <1>1, <1>2, <1>3 DEF Crawl
  <2> HIDE DEF k
  <2> QED
    BY <1>2, <2>1, <2>2, <2>3, OtherStep
<1>5. CASE /\ crawl' = [crawl EXCEPT ![c].waiting = @ - 1, ![c].flying = @ + 1]
           /\ UNCHANGED <<accounts, nextSequence>>
  <2> DEFINE k == [crawl[c] EXCEPT !.waiting = fewer, !.flying = more]
  <2>1. crawl' = [crawl EXCEPT ![c] = k]
    BY <1>5 DEF IInv, CrawlsInv
  <2>2. AccountsInv' /\ LeavesOthers(c)
    BY <1>5, SameAccounts DEF IInv
  <2> HIDE DEF fewer, more
  <2>3. k \in Crawl /\ k.flying = more /\ k.phase = "levels" /\ k.reason = "none"
    BY <1>1, <1>2, <1>3 DEF Crawl
  <2> HIDE DEF k
  <2> QED
    BY <1>2, <1>3, <2>1, <2>2, <2>3, OtherStep
<1> QED
  BY <1>4, <1>5 DEF ClaimSlot

LEMMA FetchFailsKeeps ==
    ASSUME IInv, NEW c \in Crawls, FetchFails(c)
    PROVE  IInv'
<1>1. crawl[c].phase = "levels"
  BY DEF FetchFails, Answering, In
<1>2. /\ crawl[c] \in Crawl /\ crawl[c].flying <= Ceiling[c] /\ Ceiling[c] \in Nat
      /\ crawl[c].reason = "none"
  BY <1>1, RunningCrawl
<1> DEFINE fewer == crawl[c].flying - 1
           k == [crawl[c] EXCEPT !.flying = fewer]
<1>3. fewer \in Nat /\ fewer <= Ceiling[c]
  BY <1>2, CrawlFields DEF FetchFails, Answering
<1>4. crawl' = [crawl EXCEPT ![c] = k] /\ cancelled' = cancelled
  BY DEF FetchFails, IInv, CrawlsInv
<1>5. AccountsInv' /\ LeavesOthers(c)
  BY SameAccounts DEF IInv, FetchFails
<1> HIDE DEF fewer
<1>6. k \in Crawl /\ k.flying = fewer /\ k.phase = "levels" /\ k.reason = "none"
  BY <1>1, <1>2, <1>3 DEF Crawl
<1> HIDE DEF k
<1> QED
  BY <1>3, <1>4, <1>5, <1>6, OtherStep
LEMMA PageLandsKeeps ==
    ASSUME IInv, NEW c \in Crawls, NEW size \in BodySizes, NEW extra \in Overheads,
           NEW released \in BOOLEAN, PageLands(c, size, extra, released)
    PROVE  IInv'
<1>1. crawl[c].phase = "levels"
  BY DEF PageLands, Answering, In
<1>2. /\ crawl[c] \in Crawl /\ crawl[c].flying <= Ceiling[c] /\ Ceiling[c] \in Nat
      /\ crawl[c].reason = "none"
  BY <1>1, RunningCrawl
<1>3. size \in Nat /\ extra \in Nat
  BY CrawlAssumption DEF Overheads
<1> DEFINE fewer == crawl[c].flying - 1
           home == crawl[c].home \/ ~released
           kept == IF released THEN crawl[c].kept ELSE crawl[c].kept + size
           body == IF released THEN size ELSE 0
           k == [crawl[c] EXCEPT !.phase = "landed", !.flying = fewer, !.home = home,
                                 !.kept = kept, !.body = body]
<1>4. /\ fewer \in Nat /\ fewer <= Ceiling[c]
      /\ kept \in Nat /\ body \in Nat
  BY <1>2, <1>3, CrawlFields DEF PageLands, Answering
<1>5. home \in BOOLEAN
  OBVIOUS
<1>6. crawl' = [crawl EXCEPT ![c] = k] /\ cancelled' = cancelled
  BY DEF PageLands, IInv, CrawlsInv
<1>7. AccountsInv' /\ LeavesOthers(c)
  BY <1>3, ChargeKeepsBooks, HistoryLeavesOthers DEF IInv, PageLands
<1> HIDE DEF fewer, home, kept, body
<1>8. k \in Crawl /\ k.flying = fewer /\ k.phase = "landed" /\ k.reason = "none"
  BY <1>2, <1>4, <1>5 DEF Crawl, Phases
<1> HIDE DEF k
<1> QED
  BY <1>4, <1>6, <1>7, <1>8, OtherStep

LEMMA LinksReadKeeps ==
    ASSUME IInv, NEW c \in Crawls, NEW n \in LinkSizes, LinksRead(c, n)
    PROVE  IInv'
<1>1. crawl[c].phase = "landed"
  BY DEF LinksRead, In
<1>2. /\ crawl[c] \in Crawl /\ crawl[c].flying <= Ceiling[c]
      /\ crawl[c].reason = "none"
  BY <1>1, RunningCrawl
<1> DEFINE phase == IF crawl[c].body > 0 THEN "credit" ELSE "levels"
           results == Append(crawl[c].results, n)
           k == [crawl[c] EXCEPT !.phase = phase, !.results = results]
<1>3. phase \in Phases /\ phase # "ended"
  BY DEF Phases
<1>4. results \in Seq(LinkSizes \cup {Unread})
  BY <1>2, CrawlFields
<1>5. crawl' = [crawl EXCEPT ![c] = k] /\ cancelled' = cancelled
  BY DEF LinksRead, IInv, CrawlsInv
<1>6. n \in Nat
  BY CrawlAssumption
<1>7. AccountsInv' /\ LeavesOthers(c)
  BY <1>6, ChargeLinksKeepsBooks, HistoryLeavesOthers DEF IInv, LinksRead
<1> HIDE DEF phase, results
<1>8. /\ k \in Crawl /\ k.flying = crawl[c].flying /\ k.phase = phase
      /\ k.reason = "none"
  BY <1>2, <1>3, <1>4 DEF Crawl
<1> HIDE DEF k
<1> QED
  BY <1>2, <1>3, <1>5, <1>7, <1>8, OtherStep

LEMMA LinksUnreadKeeps ==
    ASSUME IInv, NEW c \in Crawls, LinksUnread(c)
    PROVE  IInv'
<1>1. crawl[c].phase = "landed"
  BY DEF LinksUnread, In
<1>2. /\ crawl[c] \in Crawl /\ crawl[c].flying <= Ceiling[c]
      /\ crawl[c].reason = "none"
  BY <1>1, RunningCrawl
<1> DEFINE results == Append(crawl[c].results, Unread)
           k == [crawl[c] EXCEPT !.phase = "levels", !.body = 0, !.results = results]
<1>3. results \in Seq(LinkSizes \cup {Unread})
  BY <1>2, CrawlFields
<1>4. crawl' = [crawl EXCEPT ![c] = k] /\ cancelled' = cancelled
  BY DEF LinksUnread, IInv, CrawlsInv
<1>5. AccountsInv' /\ LeavesOthers(c)
  BY SameAccounts DEF IInv, LinksUnread
<1> HIDE DEF results
<1>6. /\ k \in Crawl /\ k.flying = crawl[c].flying /\ k.phase = "levels"
      /\ k.reason = "none"
  BY <1>2, <1>3 DEF Crawl, Phases
<1> HIDE DEF k
<1> QED
  BY <1>2, <1>4, <1>5, <1>6, OtherStep

LEMMA BodyReleasedKeeps ==
    ASSUME IInv, NEW c \in Crawls, BodyReleased(c)
    PROVE  IInv'
<1>1. crawl[c].phase = "credit"
  BY DEF BodyReleased, In
<1>2. /\ crawl[c] \in Crawl /\ crawl[c].flying <= Ceiling[c]
      /\ crawl[c].reason = "none" /\ crawl[c].body \in Nat
  BY <1>1, RunningCrawl, CrawlFields
<1> DEFINE k == [crawl[c] EXCEPT !.phase = "levels", !.body = 0]
<1>3. crawl' = [crawl EXCEPT ![c] = k] /\ cancelled' = cancelled
  BY DEF BodyReleased, IInv, CrawlsInv
<1>4. AccountsInv' /\ LeavesOthers(c)
  BY <1>2, CreditKeepsBooks, HistoryLeavesOthers DEF IInv, BodyReleased
<1>5. /\ k \in Crawl /\ k.flying = crawl[c].flying /\ k.phase = "levels"
      /\ k.reason = "none"
  BY <1>2 DEF Crawl, Phases
<1> HIDE DEF k
<1> QED
  BY <1>2, <1>3, <1>4, <1>5, OtherStep

LEMMA StallKeeps ==
    ASSUME IInv, NEW c \in Crawls, Stall(c)
    PROVE  IInv'
<1>1. crawl[c].phase = "levels"
  BY DEF Stall, Answering, In
<1>2. crawl[c] \in Crawl /\ Ceiling[c] \in Nat
  BY <1>1, RunningCrawl
<1> DEFINE k == [crawl[c] EXCEPT !.phase = "ended", !.reason = "stalled",
                                 !.waiting = 0, !.flying = 0, !.results = <<>>]
<1>3. crawl' = [crawl EXCEPT ![c] = k] /\ cancelled' = cancelled
  BY DEF Stall, IInv, CrawlsInv
<1>4. AccountsInv' /\ LeavesOthers(c)
  BY SameAccounts DEF IInv, Stall
<1>5. <<>> \in Seq(LinkSizes \cup {Unread})
  OBVIOUS
<1>6. k \in Crawl /\ k.flying = 0 /\ k.phase = "ended" /\ k.reason = "stalled"
  BY <1>2, <1>5 DEF Crawl, Phases, Reasons
<1>7. k.flying <= Ceiling[c]
  BY <1>2, <1>6
<1> HIDE DEF k
<1> QED
  BY <1>3, <1>4, <1>6, <1>7, OtherStep

LEMMA RecordPageKeeps ==
    ASSUME IInv, NEW c \in Crawls, NEW new \in 0..MaxUrls[c], RecordPage(c, new)
    PROVE  IInv'
<1>1. crawl[c].phase = "levels"
  BY DEF RecordPage, LevelFetched, In
<1>2. /\ crawl[c] \in Crawl /\ crawl[c].flying <= Ceiling[c]
      /\ crawl[c].reason = "none"
  BY <1>1, RunningCrawl
<1> DEFINE results == Tail(crawl[c].results)
           frontier == crawl[c].frontier + new
           left == crawl[c].left - new
           k == [crawl[c] EXCEPT !.results = results, !.frontier = frontier,
                                 !.left = left]
<1>3. /\ results \in Seq(LinkSizes \cup {Unread})
      /\ Head(crawl[c].results) \in LinkSizes \cup {Unread}
  BY <1>2, CrawlFields DEF RecordPage
<1>4. frontier \in Nat /\ left \in Nat
  BY <1>2, CrawlFields DEF RecordPage
<1>5. Head(crawl[c].results) \in Nat
  BY <1>3, CrawlAssumption DEF RecordPage
<1>6. crawl' = [crawl EXCEPT ![c] = k] /\ cancelled' = cancelled
  BY DEF RecordPage, IInv, CrawlsInv
<1>7. AccountsInv' /\ LeavesOthers(c)
  BY <1>5, CreditKeepsBooks, HistoryLeavesOthers DEF IInv, RecordPage
<1> HIDE DEF results, frontier, left
<1>8. /\ k \in Crawl /\ k.flying = crawl[c].flying /\ k.phase = "levels"
      /\ k.reason = "none"
  BY <1>1, <1>2, <1>3, <1>4 DEF Crawl
<1> HIDE DEF k
<1> QED
  BY <1>2, <1>6, <1>7, <1>8, OtherStep

LEMMA RecordFailsKeeps ==
    ASSUME IInv, NEW c \in Crawls, RecordFails(c)
    PROVE  IInv'
<1>1. crawl[c].phase = "levels"
  BY DEF RecordFails, LevelFetched, In
<1>2. crawl[c] \in Crawl /\ crawl[c].flying <= Ceiling[c]
  BY <1>1, RunningCrawl
<1> DEFINE k == [crawl[c] EXCEPT !.phase = "ended", !.reason = "error", !.results = <<>>]
<1>3. crawl' = [crawl EXCEPT ![c] = k] /\ cancelled' = cancelled
  BY DEF RecordFails, IInv, CrawlsInv
<1>4. AccountsInv' /\ LeavesOthers(c)
  BY SameAccounts DEF IInv, RecordFails
<1>5. <<>> \in Seq(LinkSizes \cup {Unread})
  OBVIOUS
<1>6. /\ k \in Crawl /\ k.flying = crawl[c].flying /\ k.phase = "ended"
      /\ k.reason = "error"
  BY <1>2, <1>5 DEF Crawl, Phases, Reasons
<1> HIDE DEF k
<1> QED
  BY <1>2, <1>3, <1>4, <1>6, OtherStep

\* What a thread that waits or is gone looks like.
LEMMA IdleIsCrawl == /\ Idle \in Crawl /\ Idle.reason = "none" /\ Idle.flying = 0
                     /\ [Idle EXCEPT !.phase = "closed"] \in Crawl
<1>1. <<>> \in Seq(LinkSizes \cup {Unread})
  OBVIOUS
<1> QED
  BY <1>1 DEF Idle, Crawl, Phases, Reasons

LEMMA EndCrawlKeeps ==
    ASSUME IInv, NEW c \in Crawls, EndCrawl(c)
    PROVE  IInv'
<1> DEFINE k == [Idle EXCEPT !.phase = "closed"]
<1>1. /\ k \in Crawl /\ k.flying = 0 /\ k.phase = "closed" /\ k.reason = "none"
  BY IdleIsCrawl DEF Idle
<1>2. crawl' = [crawl EXCEPT ![c] = k] /\ cancelled' = cancelled
  BY DEF EndCrawl
<1>3. AccountsInv' /\ LeavesOthers(c)
  BY FreshKeepsBooks DEF IInv, EndCrawl
<1>4. k.flying <= Ceiling[c]
  BY <1>1, BudgetAssumption
<1> HIDE DEF k
<1> QED
  BY <1>1, <1>2, <1>3, <1>4, OtherStep

-----------------------------------------------------------------------------
LEMMA InitIInv == Init => IInv
<1> SUFFICES ASSUME Init PROVE IInv
  OBVIOUS
<1>1. AccountsInv
  BY FreshIsEmpty DEF Init, BudgetInit, AccountsInv
<1>2. CrawlsInv
  BY IdleIsCrawl, BudgetAssumption DEF Init, CrawlsInv
<1>3. ReasonsInv
  BY DEF Init, ReasonsInv, EndsWell, Idle
<1> QED
  BY <1>1, <1>2, <1>3 DEF IInv

LEMMA NextIInv == IInv /\ [Next]_vars => IInv'
<1> SUFFICES ASSUME IInv, [Next]_vars PROVE IInv'
  OBVIOUS
<1>1. ASSUME NEW c \in Crawls, CrawlStep(c) PROVE IInv'
  BY <1>1, BeginLevelKeeps, FinishCrawlKeeps, AdmitTaskKeeps, ClaimSlotKeeps,
     FetchFailsKeeps, PageLandsKeeps, LinksReadKeeps, LinksUnreadKeeps,
     BodyReleasedKeeps, StallKeeps, RecordPageKeeps, RecordFailsKeeps, EndCrawlKeeps
     DEF CrawlStep
<1>2. CASE UNCHANGED vars
  BY <1>2 DEF vars, IInv, AccountsInv, CrawlsInv, ReasonsInv
<1> QED
  BY <1>1, <1>2, StartCrawlKeeps, CancelKeeps DEF Next

\* Every account, crawl and counter keeps its type, and no crawl has more
\* fetches in flight than the ceiling its reserve is made for.
THEOREM BudgetTypeCorrect == Spec => []TypeOK
<1>1. IInv => TypeOK
  BY DEF IInv, AccountsInv, CrawlsInv, TypeOK
<1> QED
  BY <1>1, InitIInv, NextIInv, PTL DEF Spec

\* The books of every account balance: nothing is credited that did not land,
\* and what is charged is exactly what landed and was not credited.
THEOREM AccountsBalance == Spec => [](\A c \in Crawls : Balanced(accounts[c]))
<1>1. IInv => \A c \in Crawls : Balanced(accounts[c])
  BY DEF IInv, AccountsInv
<1> QED
  BY <1>1, InitIInv, NextIInv, PTL DEF Spec

\* A crawl that ends for the budget has fetched a page and missed one, and one
\* that ends for no reason has missed none.
THEOREM MemoryStopsArePartial == Spec => []MemoryStopIsPartial
<1>1. IInv => MemoryStopIsPartial
  <2> SUFFICES ASSUME IInv, NEW c \in Crawls, In(c, "ended")
               PROVE  /\ crawl[c].reason = "memory" => PagesFetched(c) > 0 /\ Missed(c) > 0
                      /\ crawl[c].reason = "none" /\ c \notin cancelled => Missed(c) = 0
    BY DEF MemoryStopIsPartial
  <2>1. EndsWell(accounts[c], crawl[c], c \in cancelled) /\ StopEarned(accounts[c])
    BY DEF IInv, ReasonsInv, AccountsInv
  <2> QED
    BY <2>1 DEF EndsWell, StopEarned, In, PagesFetched, Missed
<1> QED
  BY <1>1, InitIInv, NextIInv, PTL DEF Spec

\* A crawl told to stop starts no fetch any more.
THEOREM StopsReachQueuedFetches == Spec => StopReachesQueuedFetches
<1>1. IInv /\ [Next]_vars =>
        [\A c \in Crawls : accounts[c].stop => crawl'[c].flying <= crawl[c].flying]_vars
  <2> SUFFICES ASSUME IInv, Next, NEW d \in Crawls, accounts[d].stop
               PROVE  crawl'[d].flying <= crawl[d].flying
    OBVIOUS
  <2>1. PICK c \in Crawls : StartCrawl(c) \/ Cancel(c) \/ CrawlStep(c)
    BY DEF Next
  <2>2. crawl[d] \in Crawl /\ crawl[c] \in Crawl
    BY DEF IInv, CrawlsInv
  <2>3. crawl[d].flying \in Nat /\ crawl[c].flying \in Nat
    BY <2>2, CrawlFields
  <2>4. CASE crawl' = crawl
    BY <2>3, <2>4
  <2>5. CASE StartCrawl(c)
    BY <2>3, <2>5 DEF StartCrawl, Idle, IInv, CrawlsInv
  <2>6. CASE CrawlStep(c)
    <3>1. CASE ClaimSlot(c)
      <4>1. CASE d = c
        <5>1. crawl' = [crawl EXCEPT ![c].waiting = @ - 1]
          BY <3>1, <4>1 DEF ClaimSlot
        <5> QED
          BY <2>2, <2>3, <4>1, <5>1 DEF IInv, CrawlsInv, Crawl
      <4>2. CASE d # c
        <5>1. crawl'[d] = crawl[d]
          BY <3>1, <4>2 DEF ClaimSlot, IInv, CrawlsInv
        <5> QED
          BY <2>3, <5>1
      <4> QED
        BY <4>1, <4>2
    <3>2. CASE FetchFails(c)
      <4>1. CASE d = c
        <5>1. crawl' = [crawl EXCEPT ![c].flying = @ - 1]
          BY <3>2 DEF FetchFails
        <5>2. crawl'[d].flying = crawl[d].flying - 1
          BY <2>2, <4>1, <5>1 DEF IInv, CrawlsInv, Crawl
        <5> QED
          BY <2>3, <5>2
      <4>2. CASE d # c
        <5>1. crawl'[d] = crawl[d]
          BY <3>2, <4>2 DEF FetchFails, IInv, CrawlsInv
        <5> QED
          BY <2>3, <5>1
      <4> QED
        BY <4>1, <4>2
    <3>3. ASSUME NEW size, NEW extra, NEW released, PageLands(c, size, extra, released)
          PROVE  crawl'[d].flying <= crawl[d].flying
      <4>1. CASE d = c
        <5> DEFINE f == crawl[c].flying - 1
                   home == crawl[c].home \/ ~released
                   kept == IF released THEN crawl[c].kept ELSE crawl[c].kept + size
                   body == IF released THEN size ELSE 0
        <5>1. crawl' = [crawl EXCEPT ![c].phase = "landed", ![c].flying = f, ![c].home = home,
                                     ![c].kept = kept, ![c].body = body]
          BY <3>3 DEF PageLands
        <5>2. crawl \in [Crawls -> Crawl] /\ f = crawl[d].flying - 1
          BY <4>1 DEF IInv, CrawlsInv
        <5> HIDE DEF f, home, kept, body
        <5>3. crawl'[d].flying = f
          BY <4>1, <5>1, <5>2 DEF Crawl
        <5> QED
          BY <2>3, <5>2, <5>3
      <4>2. CASE d # c
        <5>1. crawl'[d] = crawl[d]
          BY <3>3, <4>2 DEF PageLands, IInv, CrawlsInv
        <5> QED
          BY <2>3, <5>1
      <4> QED
        BY <4>1, <4>2
    <3>4. CASE Stall(c)
      BY <2>2, <2>3, <3>4 DEF Stall, IInv, CrawlsInv, Crawl
    <3>5. CASE EndCrawl(c)
      BY <2>2, <2>3, <3>5 DEF EndCrawl, Idle, IInv, CrawlsInv
    <3>6. CASE BeginLevel(c) \/ FinishCrawl(c) \/ AdmitTask(c)
      <4>1. CASE d = c
        <5>1. crawl'[c].flying = crawl[c].flying
          BY <2>2, <3>6 DEF BeginLevel, FinishCrawl, AdmitTask, IInv, CrawlsInv, Crawl
        <5> QED
          BY <2>3, <4>1, <5>1
      <4>2. CASE d # c
        <5>1. crawl'[d] = crawl[d]
          BY <3>6, <4>2 DEF BeginLevel, FinishCrawl, AdmitTask, IInv, CrawlsInv
        <5> QED
          BY <2>3, <5>1
      <4> QED
        BY <4>1, <4>2
    <3>7. ASSUME NEW n, LinksRead(c, n)
          PROVE  crawl'[d].flying <= crawl[d].flying
      <4>1. CASE d = c
        <5>1. crawl'[c].flying = crawl[c].flying
          BY <2>2, <3>7 DEF LinksRead, IInv, CrawlsInv, Crawl
        <5> QED
          BY <2>3, <4>1, <5>1
      <4>2. CASE d # c
        <5>1. crawl'[d] = crawl[d]
          BY <3>7, <4>2 DEF LinksRead, IInv, CrawlsInv
        <5> QED
          BY <2>3, <5>1
      <4> QED
        BY <4>1, <4>2
    <3>8. CASE LinksUnread(c) \/ BodyReleased(c) \/ RecordFails(c)
      <4>1. CASE d = c
        <5>1. crawl'[c].flying = crawl[c].flying
          BY <2>2, <3>8 DEF LinksUnread, BodyReleased, RecordFails, IInv, CrawlsInv, Crawl
        <5> QED
          BY <2>3, <4>1, <5>1
      <4>2. CASE d # c
        <5>1. crawl'[d] = crawl[d]
          BY <3>8, <4>2 DEF LinksUnread, BodyReleased, RecordFails, IInv, CrawlsInv
        <5> QED
          BY <2>3, <5>1
      <4> QED
        BY <4>1, <4>2
    <3>9. ASSUME NEW new, RecordPage(c, new)
          PROVE  crawl'[d].flying <= crawl[d].flying
      <4>1. CASE d = c
        <5>1. crawl'[c].flying = crawl[c].flying
          BY <2>2, <3>9 DEF RecordPage, IInv, CrawlsInv, Crawl
        <5> QED
          BY <2>3, <4>1, <5>1
      <4>2. CASE d # c
        <5>1. crawl'[d] = crawl[d]
          BY <3>9, <4>2 DEF RecordPage, IInv, CrawlsInv
        <5> QED
          BY <2>3, <5>1
      <4> QED
        BY <4>1, <4>2
    <3> QED
      BY <2>6, <3>1, <3>2, <3>3, <3>4, <3>5, <3>6, <3>7, <3>8, <3>9 DEF CrawlStep
  <2> QED
    BY <2>1, <2>4, <2>5, <2>6 DEF Cancel
<1> QED
  BY <1>1, InitIInv, NextIInv, PTL DEF Spec, StopReachesQueuedFetches

-----------------------------------------------------------------------------
(* The links a crawl holds.                                                  *)

\* What the result of a page holds.
Bytes(n) == IF n = Unread THEN 0 ELSE n

Results == Seq(LinkSizes \cup {Unread})

Held(results) ==
    FoldSeq(LAMBDA n, sum : sum + (IF n = Unread THEN 0 ELSE n), 0, results)

LEMMA BytesNat ==
    ASSUME NEW n \in LinkSizes \cup {Unread}
    PROVE  Bytes(n) \in Nat /\ (n # Unread => n \in Nat)
  BY CrawlAssumption DEF Bytes

\* The fold over the results adds up the bytes of their pages.
LEMMA HeldAddsUp ==
    ASSUME NEW s \in Results
    PROVE  \E g : /\ Held(s) = g[DOMAIN s]
                  /\ IsSum(g, DOMAIN s, [i \in DOMAIN s |-> Bytes(s[i])])
<1> DEFINE S == DOMAIN s
           e == [i \in S |-> Bytes(s[i])]
           ch == [t \in SUBSET S |-> CHOOSE i \in t : TRUE]
           Iterates(iter) ==
               iter = [t \in SUBSET S |->
                         IF t = {} THEN 0
                         ELSE iter[t \ {CHOOSE i \in t : TRUE}]
                                + (IF s[CHOOSE i \in t : TRUE] = Unread THEN 0
                                   ELSE s[CHOOSE i \in t : TRUE])]
           it == CHOOSE iter : Iterates(iter)
<1>1. Held(s) = it[S]
  BY Zenon DEF Held, FoldSeq, FoldFunction, FoldFunctionOnSet, MapThenFoldSet
<1>2. IsFiniteSet(S) /\ Chooses(ch, S)
  <2>1. S = 1..Len(s) /\ Len(s) \in Nat
    BY DEF Results
  <2>2. Chooses(ch, S)
    BY DEF Chooses
  <2> QED  BY <2>1, <2>2, FS_Interval
<1>3. e \in [S -> Int]
  <2>1. \A i \in S : s[i] \in LinkSizes \cup {Unread}
    BY DEF Results
  <2> QED  BY <2>1, BytesNat
<1>4. ASSUME NEW t \in SUBSET S, t # {}
      PROVE  /\ ch[t] = (CHOOSE i \in t : TRUE)
             /\ e[ch[t]] = Bytes(s[CHOOSE i \in t : TRUE]) /\ e[ch[t]] \in Int
  <2>1. ch[t] = (CHOOSE i \in t : TRUE) /\ ch[t] \in S
    BY <1>4
  <2>2. e[ch[t]] = Bytes(s[ch[t]]) /\ e[ch[t]] \in Int
    BY <1>3, <2>1
  <2> QED  BY <2>1, <2>2
<1>5. ASSUME NEW h
      PROVE  /\ AddsUp(h, S, e, ch) /\ IsSum(h, S, e) => Iterates(h)
             /\ Iterates(h) => AddsUp(h, S, e, ch)
  <2> DEFINE step(t) == h[t \ {CHOOSE i \in t : TRUE}] + Bytes(s[CHOOSE i \in t : TRUE])
  <2>1. Iterates(h) <=> h = [t \in SUBSET S |-> IF t = {} THEN 0 ELSE step(t)]
    BY Zenon DEF Bytes
  <2>2. ASSUME NEW t \in SUBSET S, t # {}, h[t \ {ch[t]}] \in Int
        PROVE  step(t) = e[ch[t]] + h[t \ {ch[t]}]
    <3>1. step(t) = h[t \ {ch[t]}] + e[ch[t]]
      BY <1>4, <2>2
    <3>2. e[ch[t]] \in Int
      BY <1>4, <2>2
    <3> HIDE DEF e, ch, step
    <3> QED  BY <2>2, <3>1, <3>2
  <2> HIDE DEF Iterates, step, e, ch, S
  <2>3. ASSUME Iterates(h) PROVE AddsUp(h, S, e, ch)
    BY <2>1, <2>2, <2>3 DEF AddsUp
  <2>4. ASSUME AddsUp(h, S, e, ch), IsSum(h, S, e) PROVE Iterates(h)
    <3>1. \A t \in SUBSET S : h[t] \in Int /\ t \ {ch[t]} \in SUBSET S
      BY <2>4 DEF IsSum
    <3>2. \A t \in SUBSET S : h[t] = IF t = {} THEN 0 ELSE step(t)
      BY <2>2, <2>4, <3>1 DEF AddsUp
    <3>3. h = [t \in SUBSET S |-> h[t]]
      BY <2>4 DEF AddsUp
    <3> QED  BY <2>1, <3>2, <3>3
  <2> QED  BY <2>3, <2>4
<1> HIDE DEF Iterates, S, e, ch
<1>6. Iterates(it)
  BY <1>2, <1>3, <1>5, SumExists
<1> HIDE DEF it
<1>7. IsSum(it, S, e)
  BY <1>2, <1>3, <1>5, <1>6, AddsUpIsSum
<1> QED  BY <1>1, <1>7 DEF S, e

-----------------------------------------------------------------------------
(* What crawls are counted as holding together.                              *)

\* What a crawl is counted as holding is a natural number.
LEMMA ProjectedNat ==
    ASSUME NEW accts \in [Crawls -> Account], NEW c \in Crawls
    PROVE  Projected(accts, c) \in Nat
<1>1. /\ accts[c].charged \in Nat /\ accts[c].pages \in Nat /\ accts[c].landed \in Nat
      /\ Ceiling[c] \in Nat
  BY AccountFields, BudgetAssumption
<1> DEFINE mean == IF accts[c].pages = 0 THEN 0 ELSE accts[c].landed \div accts[c].pages
<1>2. mean \in Nat
  BY <1>1
<1> HIDE DEF mean
<1>3. Ceiling[c] * mean \in Nat
  BY <1>1, <1>2
<1>4. Projected(accts, c) = accts[c].charged + Ceiling[c] * mean
  BY DEF Projected, mean
<1> QED  BY <1>1, <1>3, <1>4

Projections(accts, cs) == [c \in cs |-> Projected(accts, c)]

\* The fold over the crawls adds up what each is counted as holding.
LEMMA ProjectedAddsUp ==
    ASSUME NEW accts \in [Crawls -> Account], NEW S \in SUBSET Crawls, IsFiniteSet(S)
    PROVE  \E g : SumProjected(accts, S) = g[S] /\ IsSum(g, S, Projections(accts, S))
<1> DEFINE e == Projections(accts, S)
           ch == [t \in SUBSET S |-> CHOOSE i \in t : TRUE]
           Iterates(iter) ==
               iter = [t \in SUBSET S |->
                         IF t = {} THEN 0
                         ELSE Projected(accts, CHOOSE i \in t : TRUE)
                                + iter[t \ {CHOOSE i \in t : TRUE}]]
           it == CHOOSE iter : Iterates(iter)
<1>1. SumProjected(accts, S) = it[S]
  BY Zenon DEF SumProjected, MapThenSumSet, MapThenFoldSet
<1>2. Chooses(ch, S)
  BY DEF Chooses
<1>3. e \in [S -> Int]
  BY ProjectedNat DEF Projections
<1>4. ASSUME NEW t \in SUBSET S, t # {}
      PROVE  /\ ch[t] = (CHOOSE i \in t : TRUE)
             /\ e[ch[t]] = Projected(accts, CHOOSE i \in t : TRUE)
  BY <1>4 DEF Projections
<1>5. ASSUME NEW h
      PROVE  /\ AddsUp(h, S, e, ch) /\ IsSum(h, S, e) => Iterates(h)
             /\ Iterates(h) => AddsUp(h, S, e, ch)
  <2> DEFINE step(t) == Projected(accts, CHOOSE i \in t : TRUE)
                          + h[t \ {CHOOSE i \in t : TRUE}]
  <2>1. Iterates(h) <=> h = [t \in SUBSET S |-> IF t = {} THEN 0 ELSE step(t)]
    BY Zenon
  <2>2. ASSUME NEW t \in SUBSET S, t # {}
        PROVE  step(t) = e[ch[t]] + h[t \ {ch[t]}]
    BY <1>4, <2>2
  <2> HIDE DEF Iterates, step, e, ch
  <2>3. ASSUME Iterates(h) PROVE AddsUp(h, S, e, ch)
    BY <2>1, <2>2, <2>3 DEF AddsUp
  <2>4. ASSUME AddsUp(h, S, e, ch), IsSum(h, S, e) PROVE Iterates(h)
    <3>1. \A t \in SUBSET S : h[t] \in Int /\ t \ {ch[t]} \in SUBSET S
      BY <2>4 DEF IsSum
    <3>2. \A t \in SUBSET S : h[t] = IF t = {} THEN 0 ELSE step(t)
      BY <2>2, <2>4, <3>1 DEF AddsUp
    <3>3. h = [t \in SUBSET S |-> h[t]]
      BY <2>4 DEF AddsUp
    <3> QED  BY <2>1, <3>2, <3>3
  <2> QED  BY <2>3, <2>4
<1> HIDE DEF Iterates, e, ch
<1>6. Iterates(it)
  BY <1>2, <1>3, <1>5, SumExists
<1> HIDE DEF it
<1>7. IsSum(it, S, e)
  BY <1>2, <1>3, <1>5, <1>6, AddsUpIsSum
<1> QED  BY <1>1, <1>7 DEF e
-----------------------------------------------------------------------------
\* What one result more, and the first result less, make of it.
LEMMA HeldNat ==
    ASSUME NEW s \in Results
    PROVE  Held(s) \in Nat /\ Held(<<>>) = 0
<1>1. ASSUME NEW r \in Results
      PROVE  Held(r) \in Nat /\ (r = <<>> => Held(r) = 0)
  <2>1. PICK g : /\ Held(r) = g[DOMAIN r]
                 /\ IsSum(g, DOMAIN r, [i \in DOMAIN r |-> Bytes(r[i])])
    BY HeldAddsUp
  <2>2. \A i \in DOMAIN r : r[i] \in LinkSizes \cup {Unread}
    BY DEF Results
  <2>3. IsFiniteSet(DOMAIN r)
    <3>1. DOMAIN r = 1..Len(r) /\ Len(r) \in Nat
      BY DEF Results
    <3> QED  BY <3>1, FS_Interval
  <2>4. g[DOMAIN r] \in Nat
    <3> DEFINE f == [i \in DOMAIN r |-> Bytes(r[i])]
    <3>1. \A i \in DOMAIN r : f[i] \in Nat
      BY <2>2, BytesNat
    <3> HIDE DEF f
    <3> QED  BY <2>1, <2>3, <3>1, SumOfPart DEF f
  <2>5. r = <<>> => g[DOMAIN r] = 0
    BY <2>1 DEF IsSum
  <2> QED  BY <2>1, <2>4, <2>5
<1>2. <<>> \in Results
  BY DEF Results
<1> QED  BY <1>1, <1>2

LEMMA HeldAppend ==
    ASSUME NEW s \in Results, NEW n \in LinkSizes \cup {Unread}
    PROVE  Held(Append(s, n)) = Held(s) + Bytes(n)
<1> DEFINE t == Append(s, n)
           f == [i \in DOMAIN t |-> Bytes(t[i])]
           e == [i \in DOMAIN s |-> Bytes(s[i])]
           last == Len(s) + 1
<1>0. s \in Seq(LinkSizes \cup {Unread})
  BY DEF Results
<1>1. t \in Results
  BY <1>0 DEF Results
<1>2. PICK g : Held(t) = g[DOMAIN t] /\ IsSum(g, DOMAIN t, f)
  BY <1>1, HeldAddsUp
<1>3. PICK d : Held(s) = d[DOMAIN s] /\ IsSum(d, DOMAIN s, e)
  BY HeldAddsUp
<1>4. /\ DOMAIN s = 1..Len(s) /\ DOMAIN t = 1..last /\ Len(s) \in Nat
      /\ IsFiniteSet(DOMAIN s) /\ DOMAIN s \subseteq DOMAIN t
      /\ last \in DOMAIN t /\ DOMAIN t \ {last} = DOMAIN s
  <2>1. DOMAIN s = 1..Len(s) /\ DOMAIN t = 1..last /\ Len(s) \in Nat
    BY <1>0
  <2> HIDE DEF t
  <2>2. IsFiniteSet(1..Len(s))
    BY <2>1, FS_Interval
  <2>3. /\ 1..Len(s) \subseteq 1..last /\ last \in 1..last
        /\ (1..last) \ {last} = 1..Len(s)
    BY <2>1
  <2> QED  BY <2>1, <2>2, <2>3
<1>5. /\ f[last] = Bytes(n)
      /\ \A i \in DOMAIN s : f[i] \in Int /\ e[i] = f[i]
  <2>1. t[last] = n /\ \A i \in DOMAIN s : t[i] = s[i] /\ s[i] \in LinkSizes \cup {Unread}
    BY <1>0
  <2> HIDE DEF t
  <2> QED  BY <1>4, <2>1, BytesNat
<1> HIDE DEF f, e, t, last
<1>6. g[DOMAIN s] = d[DOMAIN s]
  BY <1>2, <1>3, <1>4, <1>5, SumsAgree
<1>7. g[DOMAIN t] = f[last] + g[DOMAIN s]
  <2>1. DOMAIN t \in SUBSET (DOMAIN t) /\ DOMAIN s = DOMAIN t \ {last} /\ last \in DOMAIN t
    BY <1>4
  <2>2. IsSum(g, DOMAIN t, f)
    BY <1>2
  <2> DEFINE D == DOMAIN t
             R == DOMAIN s
  <2> HIDE DEF D, R
  <2>3. D \in SUBSET D /\ R = D \ {last} /\ last \in D /\ IsSum(g, D, f)
    BY <2>1, <2>2 DEF D, R
  <2>4. g[D] = f[last] + g[R]
    BY <2>3, SumStep
  <2> QED  BY <2>4 DEF D, R
<1>8. Held(s) \in Int /\ f[last] \in Int
  BY <1>5, HeldNat, BytesNat
<1> QED  BY <1>2, <1>3, <1>5, <1>6, <1>7, <1>8 DEF t

LEMMA HeldTail ==
    ASSUME NEW s \in Results, s # <<>>
    PROVE  Held(s) = Bytes(Head(s)) + Held(Tail(s))
<1> DEFINE t == Tail(s)
           f == [i \in DOMAIN s |-> Bytes(s[i])]
           e == [i \in DOMAIN t |-> Bytes(t[i])]
           L == Len(t)
<1>1. /\ t \in Results /\ L \in Nat /\ DOMAIN t = 1..L /\ DOMAIN s = 1..(L + 1)
      /\ Head(s) = s[1] /\ \A i \in 1..L : t[i] = s[i + 1]
      /\ \A i \in 1..(L + 1) : s[i] \in LinkSizes \cup {Unread}
  BY DEF Results
<1>2. PICK g : Held(s) = g[DOMAIN s] /\ IsSum(g, DOMAIN s, f)
  BY HeldAddsUp
<1>3. PICK d : Held(t) = d[DOMAIN t] /\ IsSum(d, DOMAIN t, e)
  BY <1>1, HeldAddsUp
<1>4. /\ f[1] = Bytes(Head(s))
      /\ \A i \in 1..L : f[i + 1] = e[i] /\ e[i] \in Int
  <2> HIDE DEF t
  <2>1. \A i \in 1..L : i + 1 \in 1..(L + 1)
    BY <1>1
  <2> QED  BY <1>1, <2>1, BytesNat
<1> HIDE DEF f, e, t, L
<1> DEFINE T == {n \in Nat : n <= L => d[1..n] = g[2..(n + 1)]}
<1>5. 0 \in T
  BY <1>2, <1>3 DEF IsSum
<1>6. ASSUME NEW n \in T
      PROVE  n + 1 \in T
  <2>1. SUFFICES ASSUME n + 1 <= L
                 PROVE  d[1..(n + 1)] = g[2..(n + 2)]
    OBVIOUS
  <2>2. d[1..n] = g[2..(n + 1)] /\ n + 1 \in 1..L
    BY <1>1, <2>1
  <2>3. /\ 1..(n + 1) \in SUBSET (1..L) /\ 1..n = (1..(n + 1)) \ {n + 1}
        /\ n + 1 \in 1..(n + 1)
        /\ 2..(n + 2) \in SUBSET (1..(L + 1)) /\ (2..(n + 2)) \ {n + 2} = 2..(n + 1)
        /\ n + 2 \in 2..(n + 2)
    <3>1. n \in Nat /\ n + 1 \in Nat /\ L \in Nat
      BY <1>1
    <3> HIDE DEF T
    <3>2. /\ 1..(n + 1) \in SUBSET (1..L) /\ 1..n = (1..(n + 1)) \ {n + 1}
          /\ n + 1 \in 1..(n + 1)
      BY <2>1, <3>1
    <3>3. /\ 2..(n + 2) \in SUBSET (1..(L + 1)) /\ n + 2 \in 2..(n + 2)
          /\ (2..(n + 2)) \ {n + 2} = 2..(n + 1)
      BY <2>1, <3>1
    <3> QED  BY <3>2, <3>3
  <2>4. d[1..(n + 1)] = e[n + 1] + d[1..n]
    <3> DEFINE D == 1..(n + 1)
               R == 1..n
    <3>1. D \in SUBSET (1..L) /\ R = D \ {n + 1} /\ n + 1 \in D
      BY <2>3
    <3>2. IsSum(d, 1..L, e)
      BY <1>1, <1>3
    <3> HIDE DEF D, R
    <3>3. d[D] = e[n + 1] + d[R]
      BY <3>1, <3>2 DEF IsSum
    <3> QED  BY <3>3 DEF D, R
  <2>5. g[2..(n + 2)] = f[n + 2] + g[2..(n + 1)]
    BY <1>1, <1>2, <2>3, SumStep
  <2>6. f[n + 2] = e[n + 1]
    BY <1>4, <2>2
  <2> QED  BY <2>2, <2>4, <2>5, <2>6
<1>7. T = Nat
  <2> HIDE DEF T
  <2>1. T \in SUBSET Nat
    BY DEF T
  <2> QED  BY <1>5, <1>6, <2>1, NatSetInduction
<1>8. d[1..L] = g[2..(L + 1)]
  BY <1>1, <1>7
<1>9. g[1..(L + 1)] = f[1] + g[2..(L + 1)]
  <2>1. 1 \in 1..(L + 1) /\ (1..(L + 1)) \ {1} = 2..(L + 1)
    BY <1>1
  <2> QED  BY <1>1, <1>2, <2>1, SumStep
<1> QED  BY <1>1, <1>2, <1>3, <1>4, <1>8, <1>9 DEF t

\* What more crawls hold, or the same crawls holding more, is more.
LEMMA MoreIsProjected ==
    ASSUME NEW a \in [Crawls -> Account], NEW b \in [Crawls -> Account],
           NEW t \in SUBSET Crawls, IsFiniteSet(t), NEW s \in SUBSET t,
           \A c \in s : Projected(a, c) <= Projected(b, c)
    PROVE  SumProjected(a, s) <= SumProjected(b, t) /\ SumProjected(b, t) \in Nat
<1>1. IsFiniteSet(s) /\ s \in SUBSET Crawls
  BY FS_Subset
<1>2. PICK g : SumProjected(a, s) = g[s] /\ IsSum(g, s, Projections(a, s))
  BY <1>1, ProjectedAddsUp
<1>3. PICK d : SumProjected(b, t) = d[t] /\ IsSum(d, t, Projections(b, t))
  BY ProjectedAddsUp
<1>4. /\ \A c \in s : Projections(a, s)[c] \in Nat
      /\ \A c \in t : Projections(b, t)[c] \in Nat
      /\ \A c \in s : Projections(a, s)[c] <= Projections(b, t)[c]
  BY ProjectedNat DEF Projections
<1>5. g[s] <= d[s]
  <2>1. \A c \in s : /\ Projections(a, s)[c] \in Int /\ Projections(b, t)[c] \in Int
                     /\ Projections(a, s)[c] <= Projections(b, t)[c]
    BY <1>4
  <2>2. s \in SUBSET s /\ s \subseteq t
    OBVIOUS
  <2> QED  BY <1>1, <1>2, <1>3, <2>1, <2>2, SumsCompare
<1>6. d[t] \in Nat /\ d[s] <= d[t]
  <2>1. t \in SUBSET t
    OBVIOUS
  <2> QED  BY <1>3, <1>4, <2>1, SumOfPart
<1>7. g[s] \in Int /\ d[s] \in Int
  BY <1>2, <1>3 DEF IsSum
<1> QED  BY <1>2, <1>3, <1>5, <1>6, <1>7

LEMMA SumProjectedNat ==
    ASSUME NEW a \in [Crawls -> Account], NEW t \in SUBSET Crawls, IsFiniteSet(t)
    PROVE  SumProjected(a, t) \in Nat
<1>1. \A c \in t : Projected(a, c) <= Projected(a, c)
  BY ProjectedNat
<1>2. t \in SUBSET t
  OBVIOUS
<1> QED  BY <1>1, <1>2, MoreIsProjected

\* One crawl is taken out.
LEMMA ProjectedStep ==
    ASSUME NEW a \in [Crawls -> Account], NEW t \in SUBSET Crawls, IsFiniteSet(t),
           NEW c \in t
    PROVE  SumProjected(a, t) = Projected(a, c) + SumProjected(a, t \ {c})
<1> DEFINE s == t \ {c}
<1>1. IsFiniteSet(s) /\ s \in SUBSET Crawls /\ s \in SUBSET t /\ t \in SUBSET t
  BY FS_Subset
<1>2. PICK g : SumProjected(a, s) = g[s] /\ IsSum(g, s, Projections(a, s))
  BY <1>1, ProjectedAddsUp
<1>3. PICK d : SumProjected(a, t) = d[t] /\ IsSum(d, t, Projections(a, t))
  BY ProjectedAddsUp
<1>4. d[t] = Projections(a, t)[c] + d[s]
  BY <1>1, <1>3 DEF IsSum
<1>5. /\ \A x \in s : /\ Projections(a, s)[x] \in Int
                      /\ Projections(a, t)[x] = Projections(a, s)[x]
      /\ Projections(a, t)[c] = Projected(a, c)
  BY ProjectedNat DEF Projections
<1> HIDE DEF s
<1>6. g[s] = d[s]
  <2>1. s \in SUBSET s /\ s \subseteq t
    BY <1>1
  <2> QED  BY <1>1, <1>2, <1>3, <1>5, <2>1, SumsAgree
<1> QED  BY <1>2, <1>3, <1>4, <1>5, <1>6 DEF s

-----------------------------------------------------------------------------
\* UnstoppedFitTheBudget of the accounts given.
Unstopped(accts) == {c \in Registered(accts) : ~accts[c].stop}

Fit(accts) ==
    \/ SumProjected(accts, Unstopped(accts)) < BudgetBytes
    \/ \A c \in Unstopped(accts) : Projected(accts, c) <= FairShareBytes

\* Fewer crawls not told to stop, none of them counted as holding more, fit too.
LEMMA LessFits ==
    ASSUME NEW a \in [Crawls -> Account], NEW b \in [Crawls -> Account],
           IsFiniteSet(Registered(a)), Fit(a), Unstopped(b) \subseteq Unstopped(a),
           \A c \in Unstopped(b) : Projected(b, c) <= Projected(a, c)
    PROVE  Fit(b)
<1>1. IsFiniteSet(Unstopped(a)) /\ Unstopped(a) \in SUBSET Crawls
  BY FS_Subset DEF Unstopped, Registered
<1>2. /\ SumProjected(b, Unstopped(b)) <= SumProjected(a, Unstopped(a))
      /\ SumProjected(a, Unstopped(a)) \in Nat
  BY <1>1, MoreIsProjected
<1>3. SumProjected(b, Unstopped(b)) \in Nat
  <2>1. IsFiniteSet(Unstopped(b)) /\ Unstopped(b) \in SUBSET Crawls
    BY <1>1, FS_Subset
  <2> QED  BY <2>1, SumProjectedNat
<1>4. BudgetBytes \in Nat /\ FairShareBytes \in Int
  BY BudgetAssumption DEF FairShareBytes
<1>5. \A c \in Unstopped(b) : Projected(a, c) \in Nat /\ Projected(b, c) \in Nat
  BY ProjectedNat DEF Unstopped, Registered
<1>6. CASE SumProjected(a, Unstopped(a)) < BudgetBytes
  BY <1>2, <1>3, <1>4, <1>6 DEF Fit
<1>7. CASE \A c \in Unstopped(a) : Projected(a, c) <= FairShareBytes
  BY <1>4, <1>5, <1>7 DEF Fit
<1> QED  BY <1>6, <1>7 DEF Fit

\* Registered crawls are finitely many, and were registered one after another.
InOrder(accts, n) ==
    /\ IsFiniteSet(Registered(accts))
    /\ \A c \in Registered(accts) : accts[c].sequence < n
    /\ \A c, d \in Registered(accts) : accts[c].sequence = accts[d].sequence => c = d

\* If there is a candidate there is exactly one that a charge takes.
LEMMA VictimExists ==
    ASSUME NEW a \in [Crawls -> Account], NEW n, InOrder(a, n), Candidates(a) # {}
    PROVE  \E v \in Candidates(a) :
              /\ IsVictim(a, v)
              /\ \A d \in Candidates(a) : Projected(a, d) <= Projected(a, v)
<1>1. /\ IsFiniteSet(Candidates(a)) /\ Candidates(a) \subseteq Registered(a)
      /\ Registered(a) \subseteq Crawls
  BY FS_Subset DEF Candidates, InOrder, Registered
<1>2. \A c \in Crawls : Projected(a, c) \in Int /\ a[c].sequence \in Int
  BY ProjectedNat DEF Account
<1> DEFINE f == [c \in Candidates(a) |-> Projected(a, c)]
<1>3. PICK x \in Candidates(a) : \A y \in Candidates(a) : Projected(a, y) <= Projected(a, x)
  <2>1. \A c \in Candidates(a) : f[c] \in Int
    BY <1>1, <1>2
  <2> HIDE DEF f
  <2>2. \E x \in Candidates(a) : \A y \in Candidates(a) : f[y] <= f[x]
    BY <1>1, <2>1, LargestExists
  <2> QED  BY <2>2 DEF f
<1> DEFINE Largest == {c \in Candidates(a) : Projected(a, c) = Projected(a, x)}
           h == [c \in Largest |-> a[c].sequence]
<1>4. PICK v \in Largest : \A y \in Largest : a[y].sequence <= a[v].sequence
  <2>1. IsFiniteSet(Largest) /\ Largest # {}
    BY <1>1, FS_Subset
  <2>2. \A c \in Largest : h[c] \in Int
    BY <1>1, <1>2
  <2> HIDE DEF h, Largest
  <2>3. \E v \in Largest : \A y \in Largest : h[y] <= h[v]
    BY <2>1, <2>2, LargestExists
  <2> QED  BY <2>3 DEF h
<1>5. v \in Candidates(a) /\ Projected(a, v) = Projected(a, x)
  OBVIOUS
<1>6. \A d \in Candidates(a) : Projected(a, d) <= Projected(a, v)
  BY <1>3, <1>5
<1>7. ASSUME NEW d \in Candidates(a) \ {v}
      PROVE  \/ Projected(a, v) > Projected(a, d)
             \/ /\ Projected(a, v) = Projected(a, d)
                /\ a[v].sequence > a[d].sequence
  <2>1. a[v].sequence # a[d].sequence
    BY <1>1, <1>5 DEF InOrder
  <2>2. Projected(a, d) = Projected(a, v) => a[d].sequence <= a[v].sequence
    BY <1>4, <1>5
  <2>3. /\ Projected(a, d) \in Int /\ Projected(a, v) \in Int
        /\ a[d].sequence \in Int /\ a[v].sequence \in Int
    BY <1>1, <1>2, <1>5
  <2> HIDE DEF Largest
  <2> QED  BY <1>6, <2>1, <2>2, <2>3
<1> QED  BY <1>5, <1>6, <1>7 DEF IsVictim

\* A charge of a crawl that has a page leaves the crawls that were not told to
\* stop fitting the budget: one victim is enough.
LEMMA ChargeFits ==
    ASSUME NEW a \in [Crawls -> Account], NEW mid \in [Crawls -> Account],
           NEW c \in Crawls, NEW n, InOrder(mid, n), Fit(a),
           mid[c].open, mid[c].pages > 0,
           \A d \in Crawls : mid[d].open = a[d].open /\ mid[d].stop = a[d].stop,
           \A d \in Crawls \ {c} : mid[d] = a[d],
           \A d \in Crawls : mid[d].pages = 0 => mid[d].charged = 0
    PROVE  Fit(AfterCharge(mid, c))
<1> DEFINE after == AfterCharge(mid, c)
           U == Unstopped(mid)
<1>1. after \in [Crawls -> Account] /\ StopsOnly(mid, after)
  BY AfterChargeStops
<1>2. /\ IsFiniteSet(Registered(mid)) /\ U \subseteq Registered(mid) /\ IsFiniteSet(U)
      /\ Registered(mid) \in SUBSET Crawls /\ U \in SUBSET Crawls
  BY FS_Subset DEF InOrder, Unstopped, Registered
<1>3. /\ Registered(mid) = Registered(a) /\ U = Unstopped(a)
      /\ \A d \in Crawls \ {c} : Projected(mid, d) = Projected(a, d)
  BY DEF Registered, Unstopped, Projected
<1>4. \A d \in Crawls : /\ Projected(mid, d) \in Nat /\ Projected(a, d) \in Nat
                        /\ Projected(after, d) \in Nat
  BY <1>1, ProjectedNat
<1>5. /\ \A d \in Crawls : Projected(after, d) = Projected(mid, d)
      /\ Unstopped(after) \subseteq U
  <2>1. \A d \in Crawls : /\ after[d].charged = mid[d].charged
                          /\ after[d].pages = mid[d].pages
                          /\ after[d].landed = mid[d].landed
                          /\ after[d].open = mid[d].open
                          /\ mid[d].stop => after[d].stop
    BY <1>1 DEF StopsOnly, Account
  <2> HIDE DEF after
  <2> QED  BY <2>1 DEF Projected, Unstopped, Registered
<1>6. BudgetBytes \in Nat /\ FairShareBytes \in Nat
  BY BudgetAssumption DEF FairShareBytes
<1>7. CASE ~BudgetReached(mid)
  <2>1. after = mid
    BY <1>7 DEF AfterCharge
  <2>2. SumProjected(mid, U) <= SumProjected(mid, Registered(mid))
    <3>1. \A d \in U : Projected(mid, d) <= Projected(mid, d)
      BY <1>2, <1>4
    <3> QED  BY <1>2, <3>1, MoreIsProjected
  <2>3. SumProjected(mid, Registered(mid)) < BudgetBytes
        /\ SumProjected(mid, U) \in Nat /\ SumProjected(mid, Registered(mid)) \in Nat
    <3>1. SumProjected(mid, U) \in Nat /\ SumProjected(mid, Registered(mid)) \in Nat
      BY <1>2, SumProjectedNat
    <3> QED  BY <1>6, <1>7, <3>1 DEF BudgetReached
  <2>4. SumProjected(mid, U) < BudgetBytes
    BY <1>6, <2>2, <2>3
  <2> QED  BY <2>1, <2>4 DEF Fit
<1>8. CASE BudgetReached(mid) /\ Candidates(mid) = {}
  <2>1. ASSUME NEW d \in U
        PROVE  Projected(mid, d) <= FairShareBytes
    <3>1. d \in Crawls /\ mid[d] \in Account
      BY <1>2
    <3>2. CASE mid[d].pages = 0
      <4>1. Projected(mid, d) = 0 + Ceiling[d] * 0
        BY <3>1, <3>2 DEF Projected
      <4>2. Ceiling[d] \in Nat
        BY <3>1, BudgetAssumption
      <4> QED  BY <1>6, <4>1, <4>2
    <3>3. CASE mid[d].pages # 0
      <4>1. mid[d].pages > 0
        BY <3>1, <3>3, AccountFields
      <4>2. ~(Projected(mid, d) > FairShareBytes)
        BY <1>8, <4>1 DEF Candidates, Unstopped
      <4> QED  BY <1>4, <1>6, <3>1, <4>2
    <3> QED  BY <3>2, <3>3
  <2>2. \A d \in Unstopped(after) : Projected(after, d) <= FairShareBytes
    BY <1>2, <1>5, <2>1
  <2> QED  BY <2>2 DEF Fit
<1>9. CASE BudgetReached(mid) /\ Candidates(mid) # {}
  <2>1. PICK v \in Candidates(mid) :
           /\ IsVictim(mid, v)
           /\ \A d \in Candidates(mid) : Projected(mid, d) <= Projected(mid, v)
    BY <1>9, VictimExists
  <2>2. v \in U /\ v \in Crawls /\ Projected(mid, v) > FairShareBytes
    BY DEF Candidates, Unstopped, Registered
  <2>3. Unstopped(after) \subseteq U \ {v}
    <3>1. after[v] = [mid[v] EXCEPT !.stop = TRUE]
      <4>1. after[v] = [mid[v] EXCEPT !.stop = @ \/ IsVictim(mid, v)]
        BY <1>9, <2>2 DEF AfterCharge
      <4>2. (mid[v].stop \/ IsVictim(mid, v)) = TRUE
        BY <2>1
      <4> QED  BY <4>1, <4>2
    <3>2. after[v].stop
      BY <2>2, <3>1 DEF Account
    <3> HIDE DEF after
    <3> QED  BY <1>5, <3>2 DEF Unstopped
  <2>4. CASE SumProjected(a, U) < BudgetBytes
    <3> DEFINE W == U \ {v}
    <3>1. /\ IsFiniteSet(W) /\ W \in SUBSET Crawls
          /\ IsFiniteSet(W \ {c}) /\ IsFiniteSet(U \ {c})
      BY <1>2, FS_Subset
    <3>2. SumProjected(mid, W) <= SumProjected(a, U)
      <4>1. CASE c \notin W
        <5>1. \A d \in W : Projected(mid, d) <= Projected(a, d)
          BY <1>2, <1>3, <1>4, <4>1
        <5> QED  BY <1>2, <5>1, MoreIsProjected
      <4>2. CASE c \in W
        <5>1. Projected(mid, c) <= Projected(mid, v)
          <6>1. CASE c \in Candidates(mid)
            BY <2>1, <6>1
          <6>2. CASE c \notin Candidates(mid)
            <7>1. ~(Projected(mid, c) > FairShareBytes)
              BY <4>2, <6>2 DEF Candidates, Unstopped
            <7> QED  BY <1>4, <1>6, <2>2, <7>1
          <6> QED  BY <6>1, <6>2
        <5>2. c # v /\ Projected(mid, v) = Projected(a, v)
          BY <1>3, <2>2, <4>2
        <5>3. SumProjected(mid, W) = Projected(mid, c) + SumProjected(mid, W \ {c})
          BY <3>1, <4>2, ProjectedStep
        <5>4. SumProjected(a, U \ {c}) = Projected(a, v) + SumProjected(a, (U \ {c}) \ {v})
          <6>1. v \in U \ {c} /\ U \ {c} \in SUBSET Crawls
            BY <1>2, <2>2, <5>2
          <6> QED  BY <3>1, <6>1, ProjectedStep
        <5>5. (U \ {c}) \ {v} = W \ {c}
          OBVIOUS
        <5>6. /\ SumProjected(mid, W \ {c}) <= SumProjected(a, W \ {c})
              /\ SumProjected(a, W \ {c}) \in Nat
          <6>1. \A d \in W \ {c} : Projected(mid, d) <= Projected(a, d)
            BY <1>2, <1>3, <1>4
          <6>2. W \ {c} \in SUBSET Crawls /\ W \ {c} \in SUBSET (W \ {c})
            BY <1>2
          <6> QED  BY <3>1, <6>1, <6>2, MoreIsProjected
        <5>7. SumProjected(a, U \ {c}) <= SumProjected(a, U) /\ SumProjected(a, U) \in Nat
          <6>1. \A d \in U \ {c} : Projected(a, d) <= Projected(a, d)
            BY <1>2, <1>4
          <6>2. U \ {c} \in SUBSET U
            OBVIOUS
          <6> QED  BY <1>2, <6>1, <6>2, MoreIsProjected
        <5>8. SumProjected(mid, W \ {c}) \in Nat
          <6>1. W \ {c} \in SUBSET Crawls
            BY <1>2
          <6> QED  BY <3>1, <6>1, SumProjectedNat
        <5>9. Projected(mid, c) \in Nat /\ Projected(a, v) \in Nat
          BY <1>4, <2>2
        <5> DEFINE here == SumProjected(mid, W \ {c})
                   there == SumProjected(a, W \ {c})
                   rest == SumProjected(a, U \ {c})
        <5> HIDE DEF W, U, here, there, rest
        <5>10. /\ SumProjected(mid, W) = Projected(mid, c) + here
               /\ rest = Projected(mid, v) + there
               /\ here <= there /\ rest <= SumProjected(a, U)
               /\ here \in Nat /\ there \in Nat
          BY <5>2, <5>3, <5>4, <5>5, <5>6, <5>7, <5>8 DEF here, there, rest
        <5>11. Projected(mid, v) \in Nat /\ SumProjected(a, U) \in Nat
          BY <5>2, <5>7, <5>9
        <5> QED  BY <5>1, <5>9, <5>10, <5>11
      <4> QED  BY <4>1, <4>2
    <3>3. SumProjected(after, Unstopped(after)) <= SumProjected(mid, W)
      <4>1. \A d \in Unstopped(after) : Projected(after, d) <= Projected(mid, d)
        BY <1>2, <1>4, <1>5
      <4> HIDE DEF after, W
      <4>2. Unstopped(after) \in SUBSET W
        BY <2>3 DEF W
      <4> QED  BY <1>1, <3>1, <4>1, <4>2, MoreIsProjected
    <3>4. SumProjected(mid, W) \in Nat /\ SumProjected(a, U) \in Nat
          /\ SumProjected(after, Unstopped(after)) \in Nat
      <4>1. Unstopped(after) \in SUBSET Crawls /\ IsFiniteSet(Unstopped(after))
        BY <1>2, <1>5, FS_Subset
      <4> HIDE DEF after, W, U
      <4> QED  BY <1>1, <1>2, <3>1, <4>1, SumProjectedNat
    <3>5. SumProjected(after, Unstopped(after)) < BudgetBytes
      <4> HIDE DEF after, W, U
      <4> QED  BY <1>6, <2>4, <3>2, <3>3, <3>4
    <3> QED  BY <3>5 DEF Fit
  <2>5. CASE \A d \in U : Projected(a, d) <= FairShareBytes
    <3>1. v = c
      <4>1. SUFFICES ASSUME v # c PROVE FALSE
        OBVIOUS
      <4>2. Projected(mid, v) = Projected(a, v) /\ Projected(a, v) <= FairShareBytes
        BY <1>3, <2>2, <2>5, <4>1
      <4> QED  BY <1>4, <1>6, <2>2, <4>2
    <3>2. \A d \in Unstopped(after) : d \in Crawls \ {c} /\ d \in U
      BY <1>2, <2>3, <3>1
    <3>3. \A d \in Unstopped(after) : Projected(after, d) <= FairShareBytes
      BY <1>3, <1>5, <2>5, <3>2
    <3> QED  BY <3>3 DEF Fit
  <2> QED  BY <1>3, <2>4, <2>5 DEF Fit
<1> QED  BY <1>7, <1>8, <1>9

-----------------------------------------------------------------------------
(* What a crawl holds, and how the crawls fit the budget, along the steps.   *)

\* a is the account of a crawl and k its thread.
Holding(a, k) ==
    /\ a.open <=> k.phase \notin {"idle", "closed"}
    /\ a.open => /\ a.landed - a.credited >= k.kept + k.body
                 /\ a.linksCharged - a.linksCredited >= Held(k.results)
    /\ k.phase \in {"landed", "credit"} => a.pages > 0
    /\ a.pages = 0 => a.charged = 0

HoldInv == \A c \in Crawls : Holding(accounts[c], crawl[c])

HeldInv == HoldInv /\ InOrder(accounts, nextSequence) /\ Fit(accounts)

\* What an account holds stays what it was.
Keeps(a, b) ==
    /\ b.open = a.open /\ b.sequence = a.sequence
    /\ b.charged = a.charged /\ b.pages = a.pages
    /\ b.landed = a.landed /\ b.credited = a.credited
    /\ b.linksCharged = a.linksCharged /\ b.linksCredited = a.linksCredited

\* It is charged bodies, overhead and links, or credited bodies and links.
Charged(a, b, bodies, extra, links) ==
    /\ b.open = a.open /\ b.sequence = a.sequence /\ b.stop = a.stop
    /\ b.charged = a.charged + bodies + extra + links
    /\ b.landed = a.landed + bodies /\ b.credited = a.credited
    /\ b.linksCharged = a.linksCharged + links /\ b.linksCredited = a.linksCredited

Credited(a, b, bodies, links) ==
    /\ b.open = a.open /\ b.sequence = a.sequence /\ b.stop = a.stop
    /\ b.charged = a.charged - bodies - links /\ b.pages = a.pages
    /\ b.landed = a.landed /\ b.credited = a.credited + bodies
    /\ b.linksCharged = a.linksCharged /\ b.linksCredited = a.linksCredited + links

\* What the operations of the budget do to the account they are called on.
LEMMA ChargeEffect ==
    ASSUME AccountsInv, NEW c \in Crawls, NEW body \in Nat, NEW extra \in Nat,
           Charge(c, body, extra)
    PROVE  \E mid : /\ accounts' = AfterCharge(mid, c) /\ nextSequence' = nextSequence
                    /\ mid = [accounts EXCEPT ![c] = mid[c]] /\ mid[c] \in Account
                    /\ Charged(accounts[c], mid[c], body, extra, 0)
                    /\ mid[c].pages = accounts[c].pages + 1
<1>1. accounts \in [Crawls -> Account] /\ accounts[c] \in Account
  BY DEF AccountsInv
<1> DEFINE total == accounts[c].charged + body + extra
           bodies == accounts[c].landed + body
           over == accounts[c].overhead + extra
           count == accounts[c].pages + 1
           b == [accounts[c] EXCEPT !.charged = total, !.landed = bodies,
                                    !.overhead = over, !.pages = count]
           mid == [accounts EXCEPT ![c] = b]
<1>2. total \in Nat /\ bodies \in Nat /\ over \in Nat /\ count \in Nat
  BY <1>1, AccountFields
<1>3. accounts' = AfterCharge(mid, c) /\ nextSequence' = nextSequence
  <2>1. [accounts EXCEPT ![c].charged = @ + body + extra, ![c].landed = @ + body,
                         ![c].overhead = @ + extra, ![c].pages = @ + 1] = mid
    BY <1>1
  <2> HIDE DEF mid
  <2> QED  BY <2>1 DEF Charge
<1>4. mid[c] = b
  BY <1>1
<1>5. b \in Account
  <2> HIDE DEF total, bodies, over, count
  <2> QED  BY <1>1, <1>2 DEF Account
<1>6. Charged(accounts[c], b, body, extra, 0) /\ b.pages = accounts[c].pages + 1
  <2>1. /\ b.open = accounts[c].open /\ b.sequence = accounts[c].sequence
        /\ b.stop = accounts[c].stop /\ b.charged = total /\ b.landed = bodies
        /\ b.credited = accounts[c].credited /\ b.pages = count
        /\ b.linksCharged = accounts[c].linksCharged
        /\ b.linksCredited = accounts[c].linksCredited
    BY <1>1 DEF Account
  <2> HIDE DEF b
  <2> QED  BY <1>1, <1>2, <2>1, AccountFields DEF Charged
<1> HIDE DEF b
<1>7. mid = [accounts EXCEPT ![c] = mid[c]]
  BY <1>4
<1> HIDE DEF mid
<1> QED  BY <1>3, <1>4, <1>5, <1>6, <1>7

LEMMA ChargeLinksEffect ==
    ASSUME AccountsInv, NEW c \in Crawls, NEW n \in Nat, ChargeLinks(c, n)
    PROVE  \E mid : /\ accounts' = AfterCharge(mid, c) /\ nextSequence' = nextSequence
                    /\ mid = [accounts EXCEPT ![c] = mid[c]] /\ mid[c] \in Account
                    /\ Charged(accounts[c], mid[c], 0, 0, n)
                    /\ mid[c].pages = accounts[c].pages
<1>1. accounts \in [Crawls -> Account] /\ accounts[c] \in Account
  BY DEF AccountsInv
<1> DEFINE total == accounts[c].charged + n
           links == accounts[c].linksCharged + n
           b == [accounts[c] EXCEPT !.charged = total, !.linksCharged = links]
           mid == [accounts EXCEPT ![c] = b]
<1>2. total \in Nat /\ links \in Nat
  BY <1>1, AccountFields
<1>3. accounts' = AfterCharge(mid, c) /\ nextSequence' = nextSequence
  <2>1. [accounts EXCEPT ![c].charged = @ + n, ![c].linksCharged = @ + n] = mid
    BY <1>1
  <2> HIDE DEF mid
  <2> QED  BY <2>1 DEF ChargeLinks
<1>4. mid[c] = b
  BY <1>1
<1>5. b \in Account
  <2> HIDE DEF total, links
  <2> QED  BY <1>1, <1>2 DEF Account
<1>6. Charged(accounts[c], b, 0, 0, n) /\ b.pages = accounts[c].pages
  <2>1. /\ b.open = accounts[c].open /\ b.sequence = accounts[c].sequence
        /\ b.stop = accounts[c].stop /\ b.charged = total /\ b.landed = accounts[c].landed
        /\ b.credited = accounts[c].credited /\ b.pages = accounts[c].pages
        /\ b.linksCharged = links /\ b.linksCredited = accounts[c].linksCredited
    BY <1>1 DEF Account
  <2> HIDE DEF b
  <2> QED  BY <1>1, <1>2, <2>1, AccountFields DEF Charged
<1> HIDE DEF b
<1>7. mid = [accounts EXCEPT ![c] = mid[c]]
  BY <1>4
<1> HIDE DEF mid
<1> QED  BY <1>3, <1>4, <1>5, <1>6, <1>7

LEMMA CreditEffect ==
    ASSUME AccountsInv, NEW c \in Crawls, NEW n \in Nat
    PROVE  /\ Credit(c, n) =>
                 \E m \in 0..n : /\ accounts' = [accounts EXCEPT ![c] = accounts'[c]]
                                 /\ Credited(accounts[c], accounts'[c], m, 0)
                                 /\ nextSequence' = nextSequence
           /\ CreditLinks(c, n) =>
                 \E m \in 0..n : /\ accounts' = [accounts EXCEPT ![c] = accounts'[c]]
                                 /\ Credited(accounts[c], accounts'[c], 0, m)
                                 /\ nextSequence' = nextSequence
<1>1. /\ accounts \in [Crawls -> Account] /\ accounts[c] \in Account
      /\ Balanced(accounts[c])
  BY DEF AccountsInv
<1>2. ASSUME Credit(c, n)
      PROVE  \E m \in 0..n : /\ accounts' = [accounts EXCEPT ![c] = accounts'[c]]
                             /\ Credited(accounts[c], accounts'[c], m, 0)
                             /\ nextSequence' = nextSequence
  <2> DEFINE m == Lesser(n, accounts[c].landed - accounts[c].credited)
             total == accounts[c].charged - m
             returned == accounts[c].credited + m
             b == [accounts[c] EXCEPT !.credited = returned, !.charged = total]
  <2>1. m \in 0..n
    BY <1>1, AccountFields DEF Balanced, Lesser
  <2>2. accounts' = [accounts EXCEPT ![c].credited = @ + m, ![c].charged = @ - m]
        /\ nextSequence' = nextSequence
    BY <1>2 DEF Credit
  <2> HIDE DEF m
  <2>3. accounts' = [accounts EXCEPT ![c] = b]
    BY <1>1, <2>2
  <2>4. accounts'[c] = b
    BY <1>1, <2>3
  <2>5. Credited(accounts[c], b, m, 0)
    <3>1. /\ b.open = accounts[c].open /\ b.sequence = accounts[c].sequence
          /\ b.stop = accounts[c].stop /\ b.charged = total /\ b.landed = accounts[c].landed
          /\ b.credited = returned /\ b.pages = accounts[c].pages
          /\ b.linksCharged = accounts[c].linksCharged
          /\ b.linksCredited = accounts[c].linksCredited
      BY <1>1 DEF Account
    <3> HIDE DEF b
    <3> QED  BY <1>1, <2>1, <3>1, AccountFields DEF Credited
  <2> HIDE DEF b
  <2> QED  BY <2>1, <2>2, <2>3, <2>4, <2>5
<1>3. ASSUME CreditLinks(c, n)
      PROVE  \E m \in 0..n : /\ accounts' = [accounts EXCEPT ![c] = accounts'[c]]
                             /\ Credited(accounts[c], accounts'[c], 0, m)
                             /\ nextSequence' = nextSequence
  <2> DEFINE m == Lesser(n, accounts[c].linksCharged - accounts[c].linksCredited)
             total == accounts[c].charged - m
             returned == accounts[c].linksCredited + m
             b == [accounts[c] EXCEPT !.linksCredited = returned, !.charged = total]
  <2>1. m \in 0..n
    BY <1>1, AccountFields DEF Balanced, Lesser
  <2>2. accounts' = [accounts EXCEPT ![c].linksCredited = @ + m, ![c].charged = @ - m]
        /\ nextSequence' = nextSequence
    BY <1>3 DEF CreditLinks
  <2> HIDE DEF m
  <2>3. accounts' = [accounts EXCEPT ![c] = b]
    BY <1>1, <2>2
  <2>4. accounts'[c] = b
    BY <1>1, <2>3
  <2>5. Credited(accounts[c], b, 0, m)
    <3>1. /\ b.open = accounts[c].open /\ b.sequence = accounts[c].sequence
          /\ b.stop = accounts[c].stop /\ b.charged = total /\ b.landed = accounts[c].landed
          /\ b.credited = accounts[c].credited /\ b.pages = accounts[c].pages
          /\ b.linksCharged = accounts[c].linksCharged
          /\ b.linksCredited = returned
      BY <1>1 DEF Account
    <3> HIDE DEF b
    <3> QED  BY <1>1, <2>1, <3>1, AccountFields DEF Credited
  <2> HIDE DEF b
  <2> QED  BY <2>1, <2>2, <2>3, <2>4, <2>5
<1> QED  BY <1>2, <1>3

-----------------------------------------------------------------------------
\* The order of the registered crawls needs no more than this.
LEMMA OrderKept ==
    ASSUME NEW a, NEW b, NEW n, InOrder(a, n),
           \A d \in Crawls : b[d].open = a[d].open /\ b[d].sequence = a[d].sequence
    PROVE  InOrder(b, n)
<1>1. Registered(b) = Registered(a)
  BY DEF Registered
<1>2. \A d \in Registered(a) : b[d].sequence = a[d].sequence
  BY DEF Registered
<1> QED  BY <1>1, <1>2 DEF InOrder

\* What is left to show of the step of a crawl: what it holds itself.
LEMMA HoldStep ==
    ASSUME IInv, HoldInv, NEW c \in Crawls, NEW k, crawl' = [crawl EXCEPT ![c] = k],
           \A d \in Crawls \ {c} : Keeps(accounts[d], accounts'[d]),
           Holding(accounts'[c], k)
    PROVE  HoldInv'
<1>1. crawl'[c] = k /\ \A d \in Crawls \ {c} : crawl'[d] = crawl[d]
  BY DEF IInv, CrawlsInv
<1>2. ASSUME NEW d \in Crawls \ {c}
      PROVE  Holding(accounts'[d], crawl'[d])
  BY <1>1 DEF HoldInv, Holding, Keeps
<1> QED  BY <1>1, <1>2 DEF HoldInv

\* A step in which the accounts keep what they hold, and the crawl holds no more.
LEMMA QuietStep ==
    ASSUME IInv, IInv', HeldInv, NEW c \in Crawls, NEW k \in Crawl,
           crawl' = [crawl EXCEPT ![c] = k],
           UNCHANGED <<accounts, nextSequence>> \/ RecordSkip(c),
           crawl[c].phase \notin {"idle", "closed"}, k.phase \in {"levels", "ended"},
           k.kept + k.body <= crawl[c].kept + crawl[c].body,
           Held(k.results) <= Held(crawl[c].results)
    PROVE  HeldInv'
<1>1. /\ accounts \in [Crawls -> Account] /\ accounts' \in [Crawls -> Account]
      /\ crawl[c] \in Crawl
  BY DEF IInv, AccountsInv, CrawlsInv
<1>2. /\ \A d \in Crawls : Keeps(accounts[d], accounts'[d])
                           /\ accounts'[d].stop = accounts[d].stop
      /\ nextSequence' = nextSequence
  <2>1. CASE RecordSkip(c)
    <3>1. accounts' = [accounts EXCEPT ![c] = [accounts[c] EXCEPT !.skipped = @ + 1]]
          /\ nextSequence' = nextSequence
      BY <2>1, <1>1 DEF RecordSkip
    <3> QED  BY <1>1, <3>1 DEF Keeps, Account
  <2>2. CASE UNCHANGED <<accounts, nextSequence>>
    BY <2>2 DEF Keeps
  <2> QED  BY <2>1, <2>2
<1>3. Holding(accounts'[c], k)
  <2>1. Holding(accounts[c], crawl[c]) /\ accounts[c] \in Account
    BY <1>1 DEF HeldInv, HoldInv
  <2>2. Holding(accounts[c], k)
    <3>1. /\ accounts[c].landed - accounts[c].credited \in Int
          /\ accounts[c].linksCharged - accounts[c].linksCredited \in Int
          /\ k.kept + k.body \in Int /\ crawl[c].kept + crawl[c].body \in Int
      <4>1. /\ accounts[c].landed \in Int /\ accounts[c].credited \in Int
            /\ accounts[c].linksCharged \in Int /\ accounts[c].linksCredited \in Int
        BY <2>1, AccountFields
      <4>2. /\ k.kept \in Int /\ k.body \in Int
            /\ crawl[c].kept \in Int /\ crawl[c].body \in Int
        BY <1>1, CrawlFields
      <4> QED  BY <4>1, <4>2
    <3>2. Held(k.results) \in Int /\ Held(crawl[c].results) \in Int
      BY <1>1, CrawlFields, HeldNat DEF Results
    <3> QED  BY <2>1, <3>1, <3>2 DEF Holding
  <2> QED  BY <1>2, <2>2 DEF Holding, Keeps
<1>4. HoldInv'
  BY <1>2, <1>3, HoldStep DEF HeldInv
<1>5. InOrder(accounts', nextSequence')
  BY <1>2, OrderKept DEF HeldInv, Keeps
<1>6. Fit(accounts')
  <2>1. Unstopped(accounts') \subseteq Unstopped(accounts)
    BY <1>2 DEF Unstopped, Registered, Keeps
  <2>2. \A d \in Unstopped(accounts') : Projected(accounts', d) <= Projected(accounts, d)
    <3>1. ASSUME NEW d \in Crawls PROVE Projected(accounts', d) = Projected(accounts, d)
      BY <1>2 DEF Keeps, Projected
    <3>2. \A d \in Crawls : Projected(accounts, d) \in Int
      BY <1>1, ProjectedNat
    <3> QED  BY <3>1, <3>2 DEF Unstopped, Registered
  <2> QED  BY <1>1, <2>1, <2>2, LessFits DEF HeldInv, InOrder
<1> QED  BY <1>4, <1>5, <1>6 DEF HeldInv

\* A charge of a crawl that has a page then, and holds no more than it was charged.
LEMMA ChargeStep ==
    ASSUME IInv, IInv', HeldInv, NEW c \in Crawls, NEW k \in Crawl,
           crawl' = [crawl EXCEPT ![c] = k],
           NEW mid, accounts' = AfterCharge(mid, c), nextSequence' = nextSequence,
           mid = [accounts EXCEPT ![c] = mid[c]], mid[c] \in Account,
           NEW bodies \in Nat, NEW extra \in Nat, NEW links \in Nat,
           Charged(accounts[c], mid[c], bodies, extra, links), mid[c].pages > 0,
           crawl[c].phase \notin {"idle", "closed"}, k.phase \notin {"idle", "closed"},
           k.kept + k.body <= crawl[c].kept + crawl[c].body + bodies,
           Held(k.results) <= Held(crawl[c].results) + links
    PROVE  HeldInv'
<1>1. /\ accounts \in [Crawls -> Account] /\ accounts' \in [Crawls -> Account]
      /\ crawl[c] \in Crawl /\ accounts[c] \in Account
  BY DEF IInv, AccountsInv, CrawlsInv
<1>2. mid \in [Crawls -> Account] /\ \A d \in Crawls \ {c} : mid[d] = accounts[d]
  BY <1>1
<1>3. StopsOnly(mid, accounts')
  BY <1>2, AfterChargeStops
<1>4. \A d \in Crawls : Keeps(mid[d], accounts'[d])
  <2>1. ASSUME NEW d \in Crawls PROVE Keeps(mid[d], accounts'[d])
    <3>1. mid[d] \in Account
      BY <1>2
    <3>2. CASE accounts'[d] = mid[d]
      BY <3>2 DEF Keeps
    <3>3. CASE accounts'[d] = [mid[d] EXCEPT !.stop = TRUE]
      BY <3>1, <3>3 DEF Keeps, Account
    <3> QED  BY <1>3, <3>2, <3>3 DEF StopsOnly
  <2> QED  BY <2>1
<1>5. Holding(accounts[c], crawl[c]) /\ accounts[c].open
  BY DEF HeldInv, HoldInv, Holding
<1>6. Holding(mid[c], k)
  <2>1. /\ accounts[c].landed \in Int /\ accounts[c].credited \in Int
        /\ accounts[c].linksCharged \in Int /\ accounts[c].linksCredited \in Int
        /\ k.kept + k.body \in Int /\ crawl[c].kept + crawl[c].body \in Int
    <3>1. /\ accounts[c].landed \in Int /\ accounts[c].credited \in Int
          /\ accounts[c].linksCharged \in Int /\ accounts[c].linksCredited \in Int
      BY <1>1, AccountFields
    <3>2. /\ k.kept \in Int /\ k.body \in Int
          /\ crawl[c].kept \in Int /\ crawl[c].body \in Int
      BY <1>1, CrawlFields
    <3> QED  BY <3>1, <3>2
  <2>2. Held(k.results) \in Int /\ Held(crawl[c].results) \in Int
    BY <1>1, CrawlFields, HeldNat DEF Results
  <2>3. /\ mid[c].landed - mid[c].credited >= k.kept + k.body
        /\ mid[c].linksCharged - mid[c].linksCredited >= Held(k.results)
    BY <1>5, <2>1, <2>2 DEF Holding, Charged
  <2>4. mid[c].open /\ mid[c].pages # 0
    BY <1>2, <1>5, AccountFields DEF Charged
  <2> QED  BY <2>3, <2>4 DEF Holding
<1>7. Holding(accounts'[c], k)
  BY <1>4, <1>6 DEF Holding, Keeps
<1>8. HoldInv'
  <2>1. \A d \in Crawls \ {c} : Keeps(accounts[d], accounts'[d])
    BY <1>2, <1>4
  <2> QED  BY <1>7, <2>1, HoldStep DEF HeldInv
<1>9. InOrder(mid, nextSequence) /\ InOrder(accounts', nextSequence')
  <2>1. \A d \in Crawls : /\ mid[d].open = accounts[d].open
                          /\ mid[d].sequence = accounts[d].sequence
                          /\ mid[d].stop = accounts[d].stop
    BY <1>2 DEF Charged
  <2>2. InOrder(mid, nextSequence)
    BY <2>1, OrderKept DEF HeldInv
  <2>3. InOrder(accounts', nextSequence)
    BY <1>4, <2>2, OrderKept DEF Keeps
  <2> QED  BY <2>2, <2>3
<1>10. Fit(accounts')
  <2>1. \A d \in Crawls : mid[d].open = accounts[d].open /\ mid[d].stop = accounts[d].stop
    BY <1>2 DEF Charged
  <2>2. \A d \in Crawls : mid[d].pages = 0 => mid[d].charged = 0
    BY <1>2, <1>6 DEF HeldInv, HoldInv, Holding
  <2>3. mid[c].open
    BY <1>5, <2>1
  <2> QED  BY <1>1, <1>2, <1>9, <2>1, <2>2, <2>3, ChargeFits DEF HeldInv
<1> QED  BY <1>8, <1>9, <1>10 DEF HeldInv

\* A credit of no more than the crawl gave back.
LEMMA CreditStep ==
    ASSUME IInv, IInv', HeldInv, NEW c \in Crawls, NEW k \in Crawl,
           crawl' = [crawl EXCEPT ![c] = k],
           accounts' = [accounts EXCEPT ![c] = accounts'[c]], nextSequence' = nextSequence,
           NEW bodies \in Nat, NEW links \in Nat,
           Credited(accounts[c], accounts'[c], bodies, links),
           crawl[c].phase \notin {"idle", "closed"}, k.phase = "levels",
           k.kept + k.body + bodies <= crawl[c].kept + crawl[c].body,
           Held(k.results) + links <= Held(crawl[c].results)
    PROVE  HeldInv'
<1>1. /\ accounts \in [Crawls -> Account] /\ accounts' \in [Crawls -> Account]
      /\ crawl[c] \in Crawl /\ accounts[c] \in Account /\ accounts'[c] \in Account
  BY DEF IInv, AccountsInv, CrawlsInv
<1>2. \A d \in Crawls \ {c} : accounts'[d] = accounts[d]
  BY <1>1
<1>3. Holding(accounts[c], crawl[c]) /\ accounts[c].open
  BY DEF HeldInv, HoldInv, Holding
<1>4. /\ accounts[c].charged \in Nat /\ accounts'[c].charged \in Nat
      /\ accounts'[c].charged <= accounts[c].charged
      /\ accounts[c].charged = 0 => accounts'[c].charged = 0
  BY <1>1, AccountFields DEF Credited
<1>5. Holding(accounts'[c], k)
  <2>1. /\ accounts[c].landed \in Int /\ accounts[c].credited \in Int
        /\ accounts[c].linksCharged \in Int /\ accounts[c].linksCredited \in Int
        /\ k.kept + k.body \in Int /\ crawl[c].kept + crawl[c].body \in Int
    <3>1. /\ accounts[c].landed \in Int /\ accounts[c].credited \in Int
          /\ accounts[c].linksCharged \in Int /\ accounts[c].linksCredited \in Int
      BY <1>1, AccountFields
    <3>2. /\ k.kept \in Int /\ k.body \in Int
          /\ crawl[c].kept \in Int /\ crawl[c].body \in Int
      BY <1>1, CrawlFields
    <3> QED  BY <3>1, <3>2
  <2>2. Held(k.results) \in Int /\ Held(crawl[c].results) \in Int
    BY <1>1, CrawlFields, HeldNat DEF Results
  <2>3. /\ accounts'[c].landed - accounts'[c].credited >= k.kept + k.body
        /\ accounts'[c].linksCharged - accounts'[c].linksCredited >= Held(k.results)
    BY <1>3, <2>1, <2>2 DEF Holding, Credited
  <2>4. accounts'[c].open /\ (accounts'[c].pages = 0 => accounts'[c].charged = 0)
    BY <1>3, <1>4 DEF Credited, Holding
  <2> QED  BY <2>3, <2>4 DEF Holding
<1>6. HoldInv'
  <2>1. \A d \in Crawls \ {c} : Keeps(accounts[d], accounts'[d])
    BY <1>2 DEF Keeps
  <2> QED  BY <1>5, <2>1, HoldStep DEF HeldInv
<1>7. InOrder(accounts', nextSequence')
  <2>1. \A d \in Crawls : /\ accounts'[d].open = accounts[d].open
                          /\ accounts'[d].sequence = accounts[d].sequence
    BY <1>2 DEF Credited
  <2> QED  BY <2>1, OrderKept DEF HeldInv
<1>8. Fit(accounts')
  <2>1. Unstopped(accounts') \subseteq Unstopped(accounts)
    BY <1>2 DEF Unstopped, Registered, Credited
  <2>2. ASSUME NEW d \in Crawls
        PROVE  Projected(accounts', d) <= Projected(accounts, d)
    <3>1. CASE d = c
      <4> DEFINE reserve == Ceiling[c] * (IF accounts[c].pages = 0 THEN 0
                                          ELSE accounts[c].landed \div accounts[c].pages)
      <4>1. /\ Projected(accounts, c) = accounts[c].charged + reserve
            /\ Projected(accounts', c) = accounts'[c].charged + reserve
        BY DEF Projected, Credited
      <4>2. reserve \in Int
        <5>1. accounts[c].landed \in Nat /\ accounts[c].pages \in Nat /\ Ceiling[c] \in Nat
          BY <1>1, AccountFields, BudgetAssumption
        <5> QED  BY <5>1
      <4> HIDE DEF reserve
      <4> QED  BY <1>4, <3>1, <4>1, <4>2
    <3>2. CASE d # c
      <4>1. Projected(accounts', d) = Projected(accounts, d)
        BY <1>2, <3>2 DEF Projected
      <4> QED  BY <1>1, <4>1, ProjectedNat
    <3> QED  BY <3>1, <3>2
  <2>3. \A d \in Unstopped(accounts') : Projected(accounts', d) <= Projected(accounts, d)
    BY <2>2 DEF Unstopped, Registered
  <2> QED  BY <1>1, <2>1, <2>3, LessFits DEF HeldInv, InOrder
<1> QED  BY <1>6, <1>7, <1>8 DEF HeldInv

\* What is left unsaid of the thread of a crawl stays what it was.
Thread(c) ==
    /\ crawl' = [crawl EXCEPT ![c] = crawl'[c]]
    /\ crawl[c] \in Crawl /\ crawl'[c] \in Crawl

LEMMA ThreadOf ==
    ASSUME IInv, IInv', NEW c \in Crawls, NEW k, crawl' = [crawl EXCEPT ![c] = k]
    PROVE  Thread(c) /\ crawl'[c] = k
  BY DEF IInv, CrawlsInv, Thread

LEMMA StartCrawlHolds ==
    ASSUME IInv, IInv', HeldInv, NEW c \in Crawls, StartCrawl(c)
    PROVE  HeldInv'
<1>1. /\ accounts \in [Crawls -> Account] /\ accounts' \in [Crawls -> Account]
      /\ nextSequence \in Nat
  BY DEF IInv, AccountsInv
<1>2. /\ accounts' = [accounts EXCEPT ![c] = FreshAccount(TRUE, nextSequence)]
      /\ nextSequence' = nextSequence + 1
  BY DEF StartCrawl, OpenAccount
<1>3. /\ accounts'[c] = FreshAccount(TRUE, nextSequence)
      /\ \A d \in Crawls \ {c} : accounts'[d] = accounts[d]
  BY <1>1, <1>2
<1>4. /\ accounts'[c].open /\ accounts'[c].sequence = nextSequence /\ ~accounts'[c].stop
      /\ accounts'[c].charged = 0 /\ accounts'[c].pages = 0
      /\ accounts'[c].landed - accounts'[c].credited = 0
      /\ accounts'[c].linksCharged - accounts'[c].linksCredited = 0
  BY <1>3 DEF FreshAccount
<1>5. ~accounts[c].open
  BY DEF HeldInv, HoldInv, Holding, StartCrawl, In
<1>6. HoldInv'
  <2>1. PICK n \in 1..MaxUrls[c] :
           crawl' = [crawl EXCEPT ![c] = [Idle EXCEPT !.phase = "levels", !.frontier = n,
                                                      !.left = MaxUrls[c] - n]]
    BY DEF StartCrawl
  <2> DEFINE k == [Idle EXCEPT !.phase = "levels", !.frontier = n, !.left = MaxUrls[c] - n]
  <2>2. k.phase = "levels" /\ k.kept = 0 /\ k.body = 0 /\ k.results = <<>>
    BY DEF Idle
  <2>3. crawl' = [crawl EXCEPT ![c] = k]
    BY <2>1
  <2> HIDE DEF k
  <2>4. Held(k.results) = 0
    <3>1. <<>> \in Results
      BY DEF Results
    <3> QED  BY <2>2, <3>1, HeldNat
  <2>5. Holding(accounts'[c], k)
    BY <1>4, <2>2, <2>4 DEF Holding
  <2>6. \A d \in Crawls \ {c} : Keeps(accounts[d], accounts'[d])
    BY <1>3 DEF Keeps
  <2> QED  BY <2>3, <2>5, <2>6, HoldStep DEF HeldInv
<1>7. Registered(accounts') = Registered(accounts) \cup {c}
  BY <1>3, <1>4 DEF Registered
<1>8. InOrder(accounts', nextSequence')
  <2>1. InOrder(accounts, nextSequence)
    BY DEF HeldInv
  <2>2. IsFiniteSet(Registered(accounts'))
    BY <1>7, <2>1, FS_AddElement DEF InOrder
  <2>3. ASSUME NEW d \in Registered(accounts')
        PROVE  /\ accounts'[d].sequence < nextSequence'
               /\ d # c => /\ d \in Registered(accounts)
                           /\ accounts'[d].sequence = accounts[d].sequence
                           /\ accounts'[d].sequence # nextSequence
    <3>1. CASE d = c
      <4>1. accounts'[d].sequence = nextSequence
        BY <1>4, <3>1
      <4>2. nextSequence < nextSequence'
        BY <1>1, <1>2
      <4> QED  BY <3>1, <4>1, <4>2
    <3>2. CASE d # c
      <4>1. d \in Registered(accounts) /\ accounts'[d] = accounts[d] /\ d \in Crawls
        BY <1>3, <1>7, <3>2 DEF Registered
      <4>2. accounts[d].sequence < nextSequence /\ accounts[d].sequence \in Nat
        BY <1>1, <2>1, <4>1 DEF InOrder, Account
      <4> QED  BY <1>1, <1>2, <3>2, <4>1, <4>2
    <3> QED  BY <3>1, <3>2
  <2>4. ASSUME NEW d \in Registered(accounts'), NEW e \in Registered(accounts'),
               accounts'[d].sequence = accounts'[e].sequence
        PROVE  d = e
    <3>1. CASE d = c
      BY <1>4, <2>3, <2>4, <3>1
    <3>2. CASE e = c
      BY <1>4, <2>3, <2>4, <3>2
    <3>3. CASE d # c /\ e # c
      BY <2>1, <2>3, <2>4, <3>3 DEF InOrder
    <3> QED  BY <3>1, <3>2, <3>3
  <2> QED  BY <2>2, <2>3, <2>4 DEF InOrder
<1>9. Fit(accounts')
  <2> DEFINE U == Unstopped(accounts)
             V == Unstopped(accounts')
  <2>1. V = U \cup {c} /\ c \notin U /\ U \in SUBSET Crawls /\ V \in SUBSET Crawls
    BY <1>3, <1>4, <1>5, <1>7 DEF Unstopped, Registered
  <2>2. IsFiniteSet(U) /\ IsFiniteSet(V)
    <3>1. IsFiniteSet(Registered(accounts)) /\ IsFiniteSet(Registered(accounts'))
      BY <1>8 DEF HeldInv, InOrder
    <3> QED  BY <3>1, FS_Subset DEF Unstopped
  <2>3. Projected(accounts', c) = 0
    <3>1. Ceiling[c] \in Nat
      BY BudgetAssumption
    <3>2. Projected(accounts', c) = 0 + Ceiling[c] * 0
      BY <1>4 DEF Projected
    <3> QED  BY <3>1, <3>2
  <2>4. \A d \in U : Projected(accounts', d) = Projected(accounts, d)
    BY <1>3, <2>1 DEF Projected
  <2>5. \A d \in U : Projected(accounts, d) \in Nat
    BY <1>1, <2>1, ProjectedNat
  <2>6. BudgetBytes \in Nat /\ FairShareBytes \in Nat
    BY BudgetAssumption DEF FairShareBytes
  <2>7. Fit(accounts)
    BY DEF HeldInv
  <2>8. CASE SumProjected(accounts, U) < BudgetBytes
    <3>1. SumProjected(accounts', V) = Projected(accounts', c) + SumProjected(accounts', V \ {c})
      BY <1>1, <2>1, <2>2, ProjectedStep
    <3>2. V \ {c} = U
      BY <2>1
    <3> HIDE DEF U, V
    <3>3. SumProjected(accounts', U) <= SumProjected(accounts, U)
      <4>1. \A d \in U : Projected(accounts', d) <= Projected(accounts, d)
        BY <2>4, <2>5
      <4>2. U \in SUBSET U
        OBVIOUS
      <4> QED  BY <1>1, <2>1, <2>2, <4>1, <4>2, MoreIsProjected
    <3>4. SumProjected(accounts', U) \in Nat /\ SumProjected(accounts, U) \in Nat
      BY <1>1, <2>1, <2>2, SumProjectedNat
    <3>5. SumProjected(accounts', V) = SumProjected(accounts', U)
      BY <2>3, <3>1, <3>2, <3>4
    <3>6. SumProjected(accounts', V) < BudgetBytes
      BY <2>6, <2>8, <3>3, <3>4, <3>5
    <3> QED  BY <3>6 DEF Fit, V
  <2>9. CASE \A d \in U : Projected(accounts, d) <= FairShareBytes
    <3>1. \A d \in V : Projected(accounts', d) <= FairShareBytes
      BY <2>1, <2>3, <2>4, <2>6, <2>9
    <3> QED  BY <3>1 DEF Fit
  <2> QED  BY <2>7, <2>8, <2>9 DEF Fit
<1> QED  BY <1>6, <1>8, <1>9 DEF HeldInv

LEMMA EndCrawlHolds ==
    ASSUME IInv, IInv', HeldInv, NEW c \in Crawls, EndCrawl(c)
    PROVE  HeldInv'
<1>1. accounts \in [Crawls -> Account] /\ accounts' \in [Crawls -> Account]
  BY DEF IInv, AccountsInv
<1>2. /\ accounts' = [accounts EXCEPT ![c] = FreshAccount(FALSE, 0)]
      /\ nextSequence' = nextSequence
  BY DEF EndCrawl, CloseAccount
<1>3. /\ ~accounts'[c].open /\ accounts'[c].charged = 0
      /\ \A d \in Crawls \ {c} : accounts'[d] = accounts[d]
  BY <1>1, <1>2 DEF FreshAccount
<1>4. HoldInv'
  <2> DEFINE k == [Idle EXCEPT !.phase = "closed"]
  <2>1. k.phase = "closed" /\ crawl' = [crawl EXCEPT ![c] = k]
    BY DEF EndCrawl, Idle
  <2> HIDE DEF k
  <2>2. Holding(accounts'[c], k)
    BY <1>3, <2>1 DEF Holding
  <2>3. \A d \in Crawls \ {c} : Keeps(accounts[d], accounts'[d])
    BY <1>3 DEF Keeps
  <2> QED  BY <2>1, <2>2, <2>3, HoldStep DEF HeldInv
<1>5. /\ Registered(accounts') = Registered(accounts) \ {c}
      /\ Unstopped(accounts') = Unstopped(accounts) \ {c}
  BY <1>3 DEF Registered, Unstopped
<1>6. InOrder(accounts', nextSequence')
  <2>1. /\ IsFiniteSet(Registered(accounts'))
        /\ Registered(accounts') \subseteq Registered(accounts)
    BY <1>5, FS_Subset DEF HeldInv, InOrder
  <2>2. \A d \in Registered(accounts') : accounts'[d] = accounts[d]
    BY <1>3, <1>5 DEF Registered
  <2>3. InOrder(accounts, nextSequence)
    BY DEF HeldInv
  <2> QED  BY <1>2, <2>1, <2>2, <2>3 DEF InOrder
<1>7. Fit(accounts')
  <2>1. Unstopped(accounts') \subseteq Unstopped(accounts)
    BY <1>5
  <2>2. \A d \in Unstopped(accounts') : Projected(accounts', d) <= Projected(accounts, d)
    <3>1. ASSUME NEW d \in Unstopped(accounts')
          PROVE  Projected(accounts', d) = Projected(accounts, d) /\ d \in Crawls
      BY <1>3, <1>5 DEF Projected, Unstopped, Registered
    <3> QED  BY <1>1, <3>1, ProjectedNat
  <2> QED  BY <1>1, <2>1, <2>2, LessFits DEF HeldInv, InOrder
<1> QED  BY <1>4, <1>6, <1>7 DEF HeldInv

\* The steps that leave the accounts alone or skip a fetch.
LEMMA LevelHolds ==
    ASSUME IInv, IInv', HeldInv, NEW c \in Crawls,
           \/ BeginLevel(c) \/ FinishCrawl(c) \/ AdmitTask(c) \/ ClaimSlot(c) \/ FetchFails(c)
    PROVE  HeldInv'
<1>1. crawl[c] \in Crawl /\ crawl \in [Crawls -> Crawl] /\ crawl' \in [Crawls -> Crawl]
  BY DEF IInv, CrawlsInv
<1> DEFINE Quiet == /\ Thread(c) /\ crawl'[c].phase \in {"levels", "ended"}
                    /\ crawl'[c].kept = crawl[c].kept /\ crawl'[c].body = crawl[c].body
                    /\ crawl'[c].results = crawl[c].results
<1>2. crawl[c].phase = "levels" /\ Quiet
  <2>1. crawl[c].phase = "levels"
    BY DEF BeginLevel, FinishCrawl, AdmitTask, ClaimSlot, FetchFails, LevelRecorded,
           LevelFetched, Answering, In
  <2>2. CASE BeginLevel(c)
    <3>1. \/ crawl' = [crawl EXCEPT ![c].phase = "ended", ![c].reason = "cancelled"]
          \/ crawl' = [crawl EXCEPT ![c].phase = "ended", ![c].reason = "memory"]
          \/ \E n \in Nat : crawl' = [crawl EXCEPT ![c].frontier = 0, ![c].fresh = n]
      <4>1. \A n \in 0..crawl[c].frontier : n \in Nat
        BY <1>1, CrawlFields
      <4> QED  BY <2>2, <4>1 DEF BeginLevel
    <3>2. ASSUME NEW n \in Nat, crawl' = [crawl EXCEPT ![c].frontier = 0, ![c].fresh = n]
          PROVE  Quiet
      BY <1>1, <2>1, <3>2 DEF Crawl, Thread
    <3>3. CASE crawl' = [crawl EXCEPT ![c].phase = "ended", ![c].reason = "cancelled"]
      BY <1>1, <2>1, <3>3 DEF Crawl, Thread
    <3>4. CASE crawl' = [crawl EXCEPT ![c].phase = "ended", ![c].reason = "memory"]
      BY <1>1, <2>1, <3>4 DEF Crawl, Thread
    <3> HIDE DEF Quiet
    <3> QED  BY <2>1, <3>1, <3>2, <3>3, <3>4
  <2>3. CASE FinishCrawl(c)
    BY <1>1, <2>1, <2>3 DEF FinishCrawl, Crawl, Thread
  <2>4. CASE AdmitTask(c)
    <3>1. \/ crawl' = [crawl EXCEPT ![c].fresh = @ - 1]
          \/ crawl' = [crawl EXCEPT ![c].fresh = @ - 1, ![c].waiting = @ + 1]
      BY <2>4 DEF AdmitTask
    <3>2. CASE crawl' = [crawl EXCEPT ![c].fresh = @ - 1]
      BY <1>1, <2>1, <3>2 DEF Crawl, Thread
    <3>3. CASE crawl' = [crawl EXCEPT ![c].fresh = @ - 1, ![c].waiting = @ + 1]
      BY <1>1, <2>1, <3>3 DEF Crawl, Thread
    <3> QED  BY <3>1, <3>2, <3>3
  <2>5. CASE ClaimSlot(c)
    <3>1. \/ crawl' = [crawl EXCEPT ![c].waiting = @ - 1]
          \/ crawl' = [crawl EXCEPT ![c].waiting = @ - 1, ![c].flying = @ + 1]
      BY <2>5 DEF ClaimSlot
    <3>2. CASE crawl' = [crawl EXCEPT ![c].waiting = @ - 1]
      BY <1>1, <2>1, <3>2 DEF Crawl, Thread
    <3>3. CASE crawl' = [crawl EXCEPT ![c].waiting = @ - 1, ![c].flying = @ + 1]
      BY <1>1, <2>1, <3>3 DEF Crawl, Thread
    <3> QED  BY <3>1, <3>2, <3>3
  <2>6. CASE FetchFails(c)
    BY <1>1, <2>1, <2>6 DEF FetchFails, Crawl, Thread
  <2> QED  BY <2>1, <2>2, <2>3, <2>4, <2>5, <2>6
<1>3. UNCHANGED <<accounts, nextSequence>> \/ RecordSkip(c)
  BY DEF BeginLevel, FinishCrawl, AdmitTask, ClaimSlot, FetchFails
<1>4. /\ crawl'[c].kept + crawl'[c].body <= crawl[c].kept + crawl[c].body
      /\ Held(crawl'[c].results) <= Held(crawl[c].results)
  <2>1. crawl[c].kept \in Nat /\ crawl[c].body \in Nat /\ crawl[c].results \in Results
    BY <1>1, CrawlFields DEF Results
  <2>2. Held(crawl[c].results) \in Nat
    BY <2>1, HeldNat
  <2> QED  BY <1>2, <2>1, <2>2
<1> QED  BY <1>2, <1>3, <1>4, QuietStep DEF Thread

LEMMA DroppedHolds ==
    ASSUME IInv, IInv', HeldInv, NEW c \in Crawls,
           \/ LinksUnread(c) \/ Stall(c) \/ RecordFails(c)
    PROVE  HeldInv'
<1>1. crawl[c] \in Crawl /\ crawl \in [Crawls -> Crawl] /\ crawl' \in [Crawls -> Crawl]
  BY DEF IInv, CrawlsInv
<1>2. /\ crawl[c].phase \in {"levels", "landed"} /\ Thread(c)
      /\ crawl'[c].phase \in {"levels", "ended"}
      /\ crawl'[c].kept = crawl[c].kept /\ crawl'[c].body \in {0, crawl[c].body}
      /\ crawl'[c].results \in {<<>>, Append(crawl[c].results, Unread)}
  <2>1. CASE LinksUnread(c)
    BY <1>1, <2>1 DEF LinksUnread, Crawl, Thread, In
  <2>2. CASE Stall(c)
    BY <1>1, <2>2 DEF Stall, Crawl, Thread, Answering, In
  <2>3. CASE RecordFails(c)
    BY <1>1, <2>3 DEF RecordFails, Crawl, Thread, LevelFetched, In
  <2> QED  BY <2>1, <2>2, <2>3
<1>3. UNCHANGED <<accounts, nextSequence>>
  BY DEF LinksUnread, Stall, RecordFails
<1>4. /\ crawl'[c].kept + crawl'[c].body <= crawl[c].kept + crawl[c].body
      /\ Held(crawl'[c].results) <= Held(crawl[c].results)
  <2>1. crawl[c].kept \in Nat /\ crawl[c].body \in Nat /\ crawl[c].results \in Results
    BY <1>1, CrawlFields DEF Results
  <2>2. Held(crawl[c].results) \in Nat /\ Held(<<>>) = 0
    BY <2>1, HeldNat
  <2>3. Held(Append(crawl[c].results, Unread)) = Held(crawl[c].results) + 0
    BY <2>1, HeldAppend DEF Bytes
  <2>4. crawl'[c].body <= crawl[c].body /\ crawl'[c].body \in Nat
    BY <1>2, <2>1
  <2>5. Held(crawl'[c].results) <= Held(crawl[c].results)
    <3>1. CASE crawl'[c].results = <<>>
      BY <2>2, <3>1
    <3>2. CASE crawl'[c].results = Append(crawl[c].results, Unread)
      BY <2>2, <2>3, <3>2
    <3> QED  BY <1>2, <3>1, <3>2
  <2> QED  BY <1>2, <2>1, <2>4, <2>5
<1> QED  BY <1>2, <1>3, <1>4, QuietStep DEF Thread

LEMMA PageLandsHolds ==
    ASSUME IInv, IInv', HeldInv, NEW c \in Crawls, NEW size \in BodySizes,
           NEW extra \in Overheads, NEW released \in BOOLEAN,
           PageLands(c, size, extra, released)
    PROVE  HeldInv'
<1>1. crawl[c] \in Crawl /\ crawl \in [Crawls -> Crawl] /\ crawl' \in [Crawls -> Crawl]
  BY DEF IInv, CrawlsInv
<1>2. /\ crawl[c].phase = "levels" /\ Thread(c) /\ crawl'[c].phase = "landed"
      /\ crawl'[c].kept = (IF released THEN crawl[c].kept ELSE crawl[c].kept + size)
      /\ crawl'[c].body = (IF released THEN size ELSE 0)
      /\ crawl'[c].results = crawl[c].results
  <2> DEFINE flying == crawl[c].flying - 1
             home == crawl[c].home \/ ~released
             kept == IF released THEN crawl[c].kept ELSE crawl[c].kept + size
             body == IF released THEN size ELSE 0
  <2>1. crawl' = [crawl EXCEPT ![c] = [crawl[c] EXCEPT !.phase = "landed", !.flying = flying,
                                         !.home = home, !.kept = kept, !.body = body]]
    BY <1>1 DEF PageLands
  <2> HIDE DEF flying, home, kept, body
  <2>2. /\ crawl'[c].phase = "landed" /\ crawl'[c].kept = kept /\ crawl'[c].body = body
        /\ crawl'[c].results = crawl[c].results /\ Thread(c)
    BY <1>1, <2>1 DEF Crawl, Thread
  <2>3. crawl[c].phase = "levels"
    BY DEF PageLands, Answering, In
  <2> QED  BY <2>2, <2>3 DEF kept, body
<1>3. size \in Nat /\ extra \in Nat /\ 0 \in Nat
  BY CrawlAssumption DEF Overheads
<1>4. PICK mid : /\ accounts' = AfterCharge(mid, c) /\ nextSequence' = nextSequence
                 /\ mid = [accounts EXCEPT ![c] = mid[c]] /\ mid[c] \in Account
                 /\ Charged(accounts[c], mid[c], size, extra, 0)
                 /\ mid[c].pages = accounts[c].pages + 1
  BY <1>3, ChargeEffect DEF PageLands, IInv
<1>5. mid[c].pages > 0
  <2>1. accounts[c].pages \in Nat
    BY AccountFields DEF IInv, AccountsInv
  <2> QED  BY <1>4, <2>1
<1>6. /\ crawl'[c].kept + crawl'[c].body <= crawl[c].kept + crawl[c].body + size
      /\ Held(crawl'[c].results) <= Held(crawl[c].results) + 0
  <2>1. crawl[c].kept \in Nat /\ crawl[c].body \in Nat /\ crawl[c].results \in Results
    BY <1>1, CrawlFields DEF Results
  <2>2. Held(crawl[c].results) \in Nat
    BY <2>1, HeldNat
  <2> QED  BY <1>2, <1>3, <2>1, <2>2
<1> QED  BY <1>2, <1>3, <1>4, <1>5, <1>6, ChargeStep DEF Thread

LEMMA LinksReadHolds ==
    ASSUME IInv, IInv', HeldInv, NEW c \in Crawls, NEW n \in LinkSizes, LinksRead(c, n)
    PROVE  HeldInv'
<1>1. crawl[c] \in Crawl /\ crawl \in [Crawls -> Crawl] /\ crawl' \in [Crawls -> Crawl]
  BY DEF IInv, CrawlsInv
<1>2. /\ crawl[c].phase = "landed" /\ Thread(c) /\ crawl'[c].phase \in {"credit", "levels"}
      /\ crawl'[c].kept = crawl[c].kept /\ crawl'[c].body = crawl[c].body
      /\ crawl'[c].results = Append(crawl[c].results, n)
  BY <1>1 DEF LinksRead, Crawl, Thread, In
<1>3. n \in Nat /\ n # Unread /\ 0 \in Nat
  BY CrawlAssumption DEF Unread
<1>4. PICK mid : /\ accounts' = AfterCharge(mid, c) /\ nextSequence' = nextSequence
                 /\ mid = [accounts EXCEPT ![c] = mid[c]] /\ mid[c] \in Account
                 /\ Charged(accounts[c], mid[c], 0, 0, n)
                 /\ mid[c].pages = accounts[c].pages
  BY <1>3, ChargeLinksEffect DEF LinksRead, IInv
<1>5. mid[c].pages > 0
  BY <1>2, <1>4 DEF HeldInv, HoldInv, Holding
<1>6. /\ crawl'[c].kept + crawl'[c].body <= crawl[c].kept + crawl[c].body + 0
      /\ Held(crawl'[c].results) <= Held(crawl[c].results) + n
  <2>1. crawl[c].kept \in Nat /\ crawl[c].body \in Nat /\ crawl[c].results \in Results
    BY <1>1, CrawlFields DEF Results
  <2>2. Held(crawl[c].results) \in Nat
    BY <2>1, HeldNat
  <2>3. Held(Append(crawl[c].results, n)) = Held(crawl[c].results) + n
    BY <1>3, <2>1, HeldAppend DEF Bytes
  <2> QED  BY <1>2, <1>3, <2>1, <2>2, <2>3
<1> QED  BY <1>2, <1>3, <1>4, <1>5, <1>6, ChargeStep DEF Thread

LEMMA BodyReleasedHolds ==
    ASSUME IInv, IInv', HeldInv, NEW c \in Crawls, BodyReleased(c)
    PROVE  HeldInv'
<1>1. crawl[c] \in Crawl /\ crawl \in [Crawls -> Crawl] /\ crawl' \in [Crawls -> Crawl]
  BY DEF IInv, CrawlsInv
<1>2. /\ crawl[c].phase = "credit" /\ Thread(c) /\ crawl'[c].phase = "levels"
      /\ crawl'[c].kept = crawl[c].kept /\ crawl'[c].body = 0
      /\ crawl'[c].results = crawl[c].results
  BY <1>1 DEF BodyReleased, Crawl, Thread, In
<1>3. crawl[c].kept \in Nat /\ crawl[c].body \in Nat /\ crawl[c].results \in Results
  BY <1>1, CrawlFields DEF Results
<1>4. PICK m \in 0..crawl[c].body :
         /\ accounts' = [accounts EXCEPT ![c] = accounts'[c]]
         /\ Credited(accounts[c], accounts'[c], m, 0)
         /\ nextSequence' = nextSequence
  BY <1>3, CreditEffect DEF BodyReleased, IInv
<1>5. m \in Nat /\ 0 \in Nat /\ m <= crawl[c].body
  BY <1>3
<1>6. /\ crawl'[c].kept + crawl'[c].body + m <= crawl[c].kept + crawl[c].body
      /\ Held(crawl'[c].results) + 0 <= Held(crawl[c].results)
  <2>1. Held(crawl[c].results) \in Nat
    BY <1>3, HeldNat
  <2> QED  BY <1>2, <1>3, <1>5, <2>1
<1> QED  BY <1>2, <1>4, <1>5, <1>6, CreditStep DEF Thread

LEMMA RecordPageHolds ==
    ASSUME IInv, IInv', HeldInv, NEW c \in Crawls, NEW new \in 0..MaxUrls[c],
           RecordPage(c, new)
    PROVE  HeldInv'
<1>1. crawl[c] \in Crawl /\ crawl \in [Crawls -> Crawl] /\ crawl' \in [Crawls -> Crawl]
  BY DEF IInv, CrawlsInv
<1>2. /\ crawl[c].phase = "levels" /\ Thread(c) /\ crawl'[c].phase = "levels"
      /\ crawl'[c].kept = crawl[c].kept /\ crawl'[c].body = crawl[c].body
      /\ crawl'[c].results = Tail(crawl[c].results) /\ crawl[c].results # <<>>
      /\ Head(crawl[c].results) # Unread
  BY <1>1 DEF RecordPage, LevelFetched, Crawl, Thread, In
<1>3. crawl[c].kept \in Nat /\ crawl[c].body \in Nat /\ crawl[c].results \in Results
  BY <1>1, CrawlFields DEF Results
<1> DEFINE h == Head(crawl[c].results)
<1>4. h \in Nat /\ Tail(crawl[c].results) \in Results
  <2>1. h \in LinkSizes \cup {Unread} /\ Tail(crawl[c].results) \in Results
    BY <1>2, <1>3 DEF Results
  <2> QED  BY <1>2, <2>1, BytesNat
<1>5. Held(crawl[c].results) = h + Held(Tail(crawl[c].results))
  BY <1>2, <1>3, HeldTail DEF Bytes
<1>6. PICK m \in 0..h : /\ accounts' = [accounts EXCEPT ![c] = accounts'[c]]
                        /\ Credited(accounts[c], accounts'[c], 0, m)
                        /\ nextSequence' = nextSequence
  <2>1. CreditLinks(c, h)
    BY DEF RecordPage
  <2> HIDE DEF h
  <2> QED  BY <1>4, <2>1, CreditEffect DEF IInv
<1>7. m \in Nat /\ 0 \in Nat /\ m <= h
  BY <1>4
<1>8. /\ crawl'[c].kept + crawl'[c].body + 0 <= crawl[c].kept + crawl[c].body
      /\ Held(crawl'[c].results) + m <= Held(crawl[c].results)
  <2>1. Held(Tail(crawl[c].results)) \in Nat
    BY <1>4, HeldNat
  <2> HIDE DEF h
  <2> QED  BY <1>2, <1>3, <1>4, <1>5, <1>7, <2>1
<1> QED  BY <1>2, <1>6, <1>7, <1>8, CreditStep DEF Thread

LEMMA InitHeldInv == Init => HeldInv
<1> SUFFICES ASSUME Init PROVE HeldInv
  OBVIOUS
<1>1. \A c \in Crawls : /\ ~accounts[c].open /\ accounts[c].charged = 0
                        /\ crawl[c].phase = "idle"
  BY DEF Init, BudgetInit, FreshAccount, Idle
<1>2. HoldInv
  BY <1>1 DEF HoldInv, Holding
<1>3. Registered(accounts) = {} /\ Unstopped(accounts) = {}
  BY <1>1 DEF Registered, Unstopped
<1>4. InOrder(accounts, nextSequence)
  BY <1>3, FS_EmptySet DEF InOrder
<1>5. Fit(accounts)
  BY <1>3 DEF Fit
<1> QED  BY <1>2, <1>4, <1>5 DEF HeldInv

LEMMA NextHeldInv == IInv /\ IInv' /\ HeldInv /\ [Next]_vars => HeldInv'
<1> SUFFICES ASSUME IInv, IInv', HeldInv, [Next]_vars PROVE HeldInv'
  OBVIOUS
<1>1. ASSUME NEW c \in Crawls, CrawlStep(c) PROVE HeldInv'
  BY <1>1, LevelHolds, DroppedHolds, PageLandsHolds, LinksReadHolds, BodyReleasedHolds,
     RecordPageHolds, EndCrawlHolds DEF CrawlStep
<1>2. ASSUME UNCHANGED <<accounts, nextSequence, crawl>> PROVE HeldInv'
  <2>1. HoldInv' /\ InOrder(accounts', nextSequence') /\ Fit(accounts')
    BY <1>2 DEF HeldInv, HoldInv
  <2> QED  BY <2>1 DEF HeldInv
<1> QED
  BY <1>1, <1>2, StartCrawlHolds DEF Next, Cancel, vars

\* The bodies the graph keeps, the body being read and the links not recorded
\* yet are all charged and not credited.
THEOREM ChargesCoverWhatIsHeld == Spec => []ChargeCoversWhatIsHeld
<1>1. IInv /\ HeldInv => ChargeCoversWhatIsHeld
  <2> SUFFICES ASSUME IInv, HeldInv, NEW c \in Registered(accounts)
               PROVE  accounts[c].charged
                        >= crawl[c].kept + crawl[c].body + LinksHeld(c) + accounts[c].overhead
    BY DEF ChargeCoversWhatIsHeld
  <2>1. c \in Crawls /\ accounts[c].open
    BY DEF Registered
  <2>2. /\ accounts[c] \in Account /\ Balanced(accounts[c]) /\ crawl[c] \in Crawl
        /\ Holding(accounts[c], crawl[c])
    BY <2>1 DEF IInv, AccountsInv, CrawlsInv, HeldInv, HoldInv
  <2>3. LinksHeld(c) = Held(crawl[c].results)
    BY DEF LinksHeld, Held
  <2>4. Held(crawl[c].results) \in Int /\ crawl[c].kept \in Int /\ crawl[c].body \in Int
    BY <2>2, CrawlFields, HeldNat DEF Results
  <2>5. /\ accounts[c].charged \in Int /\ accounts[c].overhead \in Int
        /\ accounts[c].landed \in Int /\ accounts[c].credited \in Int
        /\ accounts[c].linksCharged \in Int /\ accounts[c].linksCredited \in Int
    BY <2>2, AccountFields
  <2> QED  BY <2>1, <2>2, <2>3, <2>4, <2>5 DEF Balanced, Holding
<1> QED
  BY <1>1, InitIInv, NextIInv, InitHeldInv, NextHeldInv, PTL DEF Spec

\* One victim per charge is enough: the crawls that were not told to stop fit
\* the budget together, or nobody is over its fair share.
THEOREM UnstoppedCrawlsFit == Spec => []UnstoppedFitTheBudget
<1>1. HeldInv => UnstoppedFitTheBudget
  BY DEF HeldInv, Fit, Unstopped, UnstoppedFitTheBudget
<1> QED
  BY <1>1, InitIInv, NextIInv, InitHeldInv, NextHeldInv, PTL DEF Spec
=============================================================================
