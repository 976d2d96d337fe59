---------------------------- MODULE ServicesProofs ----------------------------
(* Four components that share nothing: token buckets, the HTTP fetcher,      *)
(* deliverable builds and the process ledger.                                *)
EXTENDS TokenBuckets, PoliteFetcher, DeliverableBuilds, ProcessLedger, FiniteSetTheorems,
    TLAPS

-----------------------------------------------------------------------------
(* A token bucket never grants more than its capacity and what accrued.  The *)
(* inductive part is Credit: what was granted since any earlier grant, and   *)
(* what is left in the bucket, came from the capacity and from the time      *)
(* between.                                                                  *)

Full == Capacity * TokenTicks
Granted(i) == Len(grants) - i + 1

ClockInv ==
    /\ clock \in Nat
    /\ bucket \in [level : Nat, updated : Nat]
    /\ bucket.updated <= clock /\ bucket.level <= Full
    /\ grants \in Seq(Nat)

Credit ==
    \A i \in 1 .. Len(grants) :
        Granted(i) * TokenTicks + bucket.level <= Full + (bucket.updated - grants[i])

BucketInv == ClockInv /\ Credit /\ GrantsWithinRate

LEMMA FullIsNat == Full \in Nat
  BY BucketAssumption DEF BucketAssumption, Full

\* _accrued_tokens adds at most the time that went by, and stops at the capacity.
LEMMA AccruedBounds ==
    ASSUME ClockInv
    PROVE  /\ Accrued \in Nat /\ Accrued <= Full
           /\ bucket.level <= Accrued
           /\ Accrued <= bucket.level + (clock - bucket.updated)
  BY FullIsNat DEF ClockInv, Accrued, Full

\* What the invariant says of the numbers alone.
LEMMA BucketFacts ==
    ASSUME BucketInv
    PROVE  /\ clock \in Nat /\ bucket.level \in Nat /\ bucket.updated \in Nat
           /\ bucket.updated <= clock /\ bucket.level <= Full
           /\ Len(grants) \in Nat /\ DOMAIN grants = 1 .. Len(grants)
           /\ \A i \in 1 .. Len(grants) : grants[i] \in Nat
  BY DEF BucketInv, ClockInv

LEMMA CreditAt ==
    ASSUME BucketInv, NEW i \in 1 .. Len(grants)
    PROVE  /\ Granted(i) \in Nat /\ Granted(i) * TokenTicks \in Nat
           /\ Granted(i) * TokenTicks + bucket.level <= Full + (bucket.updated - grants[i])
  <1>1. Granted(i) \in Nat
    BY BucketFacts DEF Granted
  <1>2. Granted(i) * TokenTicks \in Nat
    BY <1>1, BucketAssumption DEF BucketAssumption
  <1> QED
    BY <1>1, <1>2 DEF BucketInv, Credit

\* Recomputing the level and its time, and nothing else, keeps the invariant.
LEMMA Recomputed ==
    ASSUME BucketInv, bucket' = [level |-> Accrued, updated |-> clock],
           UNCHANGED <<clock, grants>>
    PROVE  BucketInv'
  <1>0. ClockInv
    BY DEF BucketInv
  <1>1. ClockInv'
    BY <1>0, AccruedBounds DEF ClockInv, Full
  <1>2. Credit'
    <2> SUFFICES ASSUME NEW i \in 1 .. Len(grants)
                 PROVE  Granted(i) * TokenTicks + Accrued <= Full + (clock - grants[i])
      BY DEF Credit, Granted, Full
    <2> DEFINE spent == Granted(i) * TokenTicks
    <2> DEFINE level == bucket.level
    <2> DEFINE updated == bucket.updated
    <2> DEFINE granted == grants[i]
    <2>1. spent \in Nat /\ spent + level <= Full + (updated - granted)
      BY CreditAt
    <2>2. granted \in Nat /\ clock \in Nat /\ level \in Nat /\ updated \in Nat
      BY BucketFacts
    <2>3. Accrued \in Nat /\ Accrued <= level + (clock - updated)
      BY <1>0, AccruedBounds
    <2> HIDE DEF spent, level, updated, granted
    <2>4. spent + Accrued <= Full + (clock - granted)
      BY <2>1, <2>2, <2>3, FullIsNat
    <2> QED
      BY <2>4 DEF spent, granted
  <1>3. GrantsWithinRate'
    BY DEF BucketInv, GrantsWithinRate
  <1> QED
    BY <1>1, <1>2, <1>3 DEF BucketInv

LEMMA Taken ==
    ASSUME BucketInv, NEW t \in Takers, Take(t)
    PROVE  BucketInv'
  <1>0. ClockInv
    BY DEF BucketInv
  <1>1. TokenTicks \in Nat \ {0} /\ Full \in Nat
    BY BucketAssumption, FullIsNat DEF BucketAssumption
  <1>2. /\ Accrued \in Nat /\ Accrued <= Full /\ Accrued >= TokenTicks
        /\ Accrued <= bucket.level + (clock - bucket.updated)
    BY <1>0, AccruedBounds DEF Take
  <1>3. /\ bucket' = [level |-> Accrued - TokenTicks, updated |-> clock]
        /\ grants' = Append(grants, clock) /\ clock' = clock
    BY DEF Take
  <1>4. ClockInv'
    BY <1>0, <1>1, <1>2, <1>3 DEF ClockInv, Full
  <1>5. /\ Len(grants') = Len(grants) + 1 /\ Len(grants) \in Nat
        /\ DOMAIN grants' = 1 .. Len(grants) + 1
        /\ grants'[Len(grants) + 1] = clock /\ clock \in Nat
        /\ \A i \in 1 .. Len(grants) : grants'[i] = grants[i] /\ grants[i] \in Nat
    BY <1>0, <1>3 DEF ClockInv
  <1>6. \A i \in 1 .. Len(grants) + 1 : grants'[i] \in Nat
    BY <1>5
  <1>7. ASSUME NEW i \in 1 .. Len(grants) + 1
        PROVE  (Len(grants) + 1 - i + 1) * TokenTicks + (Accrued - TokenTicks)
                   <= Full + (clock - grants'[i])
    <2>1. CASE i = Len(grants) + 1
      <3>1. (Len(grants) + 1 - i + 1) * TokenTicks = TokenTicks
        BY <2>1, <1>1, <1>5
      <3> QED
        BY <3>1, <2>1, <1>1, <1>2, <1>5
    <2>2. CASE i \in 1 .. Len(grants)
      <3> DEFINE spent == Granted(i) * TokenTicks
      <3> DEFINE level == bucket.level
      <3> DEFINE updated == bucket.updated
      <3> DEFINE granted == grants[i]
      <3>1. spent \in Nat /\ spent + level <= Full + (updated - granted)
        BY <2>2, CreditAt
      <3>2. Granted(i) \in Nat
        BY <2>2, CreditAt
      <3>3. Len(grants) + 1 - i + 1 = Granted(i) + 1
        BY <2>2, <1>5 DEF Granted
      <3>4. (Len(grants) + 1 - i + 1) * TokenTicks = spent + TokenTicks
        BY <3>2, <3>3, <1>1
      <3>5. grants'[i] = granted /\ granted \in Nat
        BY <2>2, <1>5
      <3>6. level \in Nat /\ updated \in Nat /\ clock \in Nat
        BY BucketFacts
      <3>a. Accrued <= level + (clock - updated)
        BY <1>2
      <3> HIDE DEF spent, level, updated, granted
      <3>7. spent + TokenTicks + (Accrued - TokenTicks) <= Full + (clock - granted)
        BY <3>1, <3>5, <3>6, <3>a, <1>1, <1>2
      <3> DEFINE more == (Len(grants) + 1 - i + 1) * TokenTicks
      <3>8. more = spent + TokenTicks
        BY <3>4
      <3> HIDE DEF more
      <3>9. more + (Accrued - TokenTicks) <= Full + (clock - grants'[i])
        BY <3>5, <3>7, <3>8
      <3> QED
        BY <3>9 DEF more
    <2> QED
      BY <2>1, <2>2, <1>5
  <1>8. Credit'
    <2> SUFFICES ASSUME NEW i \in 1 .. Len(grants)'
                 PROVE  (Len(grants)' - i + 1) * TokenTicks + bucket'.level
                            <= Full + (bucket'.updated - grants'[i])
      BY DEF Credit, Granted, Full
    <2>1. i \in 1 .. Len(grants) + 1 /\ Len(grants)' = Len(grants) + 1
      BY <1>5
    <2>2. bucket'.level = Accrued - TokenTicks /\ bucket'.updated = clock
      BY <1>3
    <2> QED
      BY <2>1, <2>2, <1>7
  <1>9. GrantsWithinRate'
    <2> SUFFICES ASSUME NEW i \in 1 .. Len(grants) + 1, NEW k \in i .. Len(grants) + 1
                 PROVE  (k - i + 1) * TokenTicks
                            <= Capacity * TokenTicks + (grants'[k] - grants'[i])
      <3>1. DOMAIN grants' = 1 .. Len(grants) + 1 /\ Len(grants)' = Len(grants) + 1
        BY <1>5
      <3> QED
        BY <3>1 DEF GrantsWithinRate
    <2>1. CASE k = Len(grants) + 1
      <3> DEFINE spent == (Len(grants) + 1 - i + 1) * TokenTicks
      <3>1. spent + (Accrued - TokenTicks) <= Full + (clock - grants'[i])
        BY <1>7
      <3>2. spent \in Nat
        <4>1. Len(grants) + 1 - i + 1 \in Nat
          BY <1>5
        <4> QED
          BY <4>1, <1>1
      <3>3. grants'[i] \in Nat /\ grants'[k] = clock
        BY <1>5, <1>6, <2>1
      <3> HIDE DEF spent
      <3>4. spent <= Full + (grants'[k] - grants'[i])
        BY <3>1, <3>2, <3>3, <1>1, <1>2, <1>5
      <3> QED
        BY <3>4, <2>1 DEF spent, Full
    <2>2. CASE k \in i .. Len(grants)
      <3>1. i \in DOMAIN grants /\ k \in i .. Len(grants)
        BY <2>2, <1>5, BucketFacts
      <3>2. (k - i + 1) * TokenTicks <= Capacity * TokenTicks + (grants[k] - grants[i])
        BY <3>1 DEF BucketInv, GrantsWithinRate
      <3>3. k \in 1 .. Len(grants) /\ i \in 1 .. Len(grants)
        BY <2>2, <1>5
      <3>4. grants'[k] = grants[k] /\ grants'[i] = grants[i]
        BY <3>3, <1>5
      <3> QED
        BY <3>2, <3>4
    <2> QED
      BY <2>1, <2>2, <1>5
  <1> QED
    BY <1>4, <1>8, <1>9 DEF BucketInv

\* The whole bucket: capacity bounds what is in it, Credit balances, and with it every
\* stretch of grants stays within the rate, for any number of takers and any timeouts.
THEOREM BucketInvariant == BucketSpec => []BucketInv
  <1>1. BucketInit => BucketInv
    <2> SUFFICES ASSUME BucketInit PROVE BucketInv
      OBVIOUS
    <2>1. ClockInv /\ grants = <<>>
      BY FullIsNat DEF BucketInit, ClockInv, Full
    <2> QED
      BY <2>1 DEF BucketInv, Credit, GrantsWithinRate
  <1>2. BucketInv /\ [BucketNext]_bucketVars => BucketInv'
    <2> SUFFICES ASSUME BucketInv, [BucketNext]_bucketVars PROVE BucketInv'
      OBVIOUS
    <2>1. ASSUME UNCHANGED <<clock, bucket, grants>> PROVE BucketInv'
      BY <2>1 DEF BucketInv, ClockInv, Credit, GrantsWithinRate, Granted, Full
    <2>2. ASSUME NEW t \in Takers, StartAcquire(t) \/ TimesOut(t) \/ Sleep(t) \/ Wake(t)
          PROVE  BucketInv'
      BY <2>1, <2>2 DEF StartAcquire, TimesOut, Sleep, Wake
    <2>3. ASSUME NEW t \in Takers, Take(t) PROVE BucketInv'
      BY <2>3, Taken
    <2>4. ASSUME NEW t \in Takers, Short(t) \/ Measure(t) PROVE BucketInv'
      BY <2>4, Recomputed DEF Short, Measure
    <2>5. ASSUME Tick PROVE BucketInv'
      BY <2>5, BucketFacts DEF Tick, BucketInv, ClockInv, Credit, GrantsWithinRate, Granted, Full
    <2>6. CASE UNCHANGED bucketVars
      BY <2>1, <2>6 DEF bucketVars
    <2> QED
      BY <2>2, <2>3, <2>4, <2>5, <2>6 DEF BucketNext
  <1> QED
    BY <1>1, <1>2, PTL DEF BucketSpec

\* In no stretch of time are more tokens granted than the capacity and what accrues in it.
THEOREM BucketsNeverOverdraw == BucketSpec => []GrantsWithinRate
  <1>1. BucketInv => GrantsWithinRate
    BY DEF BucketInv
  <1> QED
    BY <1>1, BucketInvariant, PTL
-----------------------------------------------------------------------------
(* No request of a crawl leaves unchecked.  The inductive part is Checked:   *)
(* where a task is tells what was asked about its URL, and what the cache    *)
(* holds of its host is what it holds for everybody.                         *)

FetcherTypeOK ==
    /\ robots \in [Hosts -> {"unread", "rules", "none"}]
    /\ fetch \in [Tasks -> Fetch]
    /\ unreadable \subseteq Hosts

Cleared(url) ==
    /\ url \notin Unsafe
    /\ robots[HostOf[url]] # "unread"
    /\ HostOf[url] \notin unreadable => url \notin Forbidden

Checked(f) ==
    /\ f.at \in {"robots_token", "robots_sent"} => f.url \notin Unsafe
    /\ f.at \in {"token", "sent"} => Cleared(f.url)

FetcherInv ==
    /\ FetcherTypeOK
    /\ \A t \in Tasks : Checked(fetch[t])
    /\ \A h \in Hosts : robots[h] = "none" => h \in unreadable

LEMMA HostsOfPages == \A u \in Pages : HostOf[u] \in Hosts
  BY FetcherAssumption DEF FetcherAssumption, Pages

\* The cache forgets no file, and what could not be read once stays marked: what was cleared
\* for one task is cleared after a step of any other.
LEMMA ClearedStays ==
    ASSUME FetcherTypeOK, NEW u \in Pages, Cleared(u),
           \A h \in Hosts : robots[h] # "unread" => robots'[h] # "unread",
           unreadable \subseteq unreadable'
    PROVE  Cleared(u)'
  BY HostsOfPages DEF Cleared

\* A step of one task that leaves the cache alone is judged by where it leaves that task.
LEMMA TaskMoves ==
    ASSUME FetcherInv, NEW t \in Tasks, NEW f \in Fetch,
           fetch' = [fetch EXCEPT ![t] = f], UNCHANGED <<robots, unreadable>>,
           Checked(f)
    PROVE  FetcherInv'
  <1>1. FetcherTypeOK'
    BY DEF FetcherInv, FetcherTypeOK
  <1>2. \A u \in Tasks : fetch'[u] = IF u = t THEN f ELSE fetch[u]
    BY DEF FetcherInv, FetcherTypeOK
  <1>3. ASSUME NEW u \in Tasks PROVE Checked(fetch[u])'
    BY <1>2 DEF FetcherInv, Checked, Cleared
  <1> QED
    BY <1>1, <1>3 DEF FetcherInv

LEMMA FetchIsFetch ==
    ASSUME FetcherInv, NEW t \in Tasks
    PROVE  /\ fetch[t] \in Fetch /\ fetch[t].url \in Pages
           /\ Asks(t) = HostOf[fetch[t].url] /\ Asks(t) \in Hosts
           /\ Checked(fetch[t])
  BY HostsOfPages DEF FetcherInv, FetcherTypeOK, Fetch, Asks

\* Where a task goes without a word about its URL.
LEMMA TaskGoes ==
    ASSUME FetcherInv, NEW t \in Tasks, NEW at \in {"idle", "hop", "done"},
           fetch' = [fetch EXCEPT ![t].at = at], UNCHANGED <<robots, unreadable>>
    PROVE  FetcherInv'
  <1> DEFINE f == [fetch[t] EXCEPT !.at = at]
  <1>1. f \in Fetch /\ f.at = at
    BY FetchIsFetch DEF Fetch, Places
  <1>2. Checked(f)
    BY <1>1 DEF Checked
  <1>3. fetch' = [fetch EXCEPT ![t] = f]
    BY DEF FetcherInv, FetcherTypeOK
  <1> HIDE DEF f
  <1> QED
    BY <1>1, <1>2, <1>3, TaskMoves

LEMMA TaskRetries ==
    ASSUME FetcherInv, NEW t \in Tasks, Retry(t), UNCHANGED <<robots, unreadable>>
    PROVE  FetcherInv'
  <1>1. fetch[t] \in Fetch /\ Start[t] \in Pages
    BY FetchIsFetch, FetcherAssumption DEF FetcherAssumption
  <1>2. MaxAttempts \in Nat \ {0} /\ MaxRedirects \in Nat
    BY FetcherAssumption DEF FetcherAssumption
  <1>3. CASE fetch[t].tries = MaxAttempts
    <2>1. fetch' = [fetch EXCEPT ![t].at = "done"]
      BY <1>3 DEF Retry, Finishes
    <2> QED
      BY <2>1, TaskGoes
  <1>4. CASE fetch[t].tries # MaxAttempts
    <2> DEFINE f == [fetch[t] EXCEPT !.at = "hop", !.url = Start[t], !.hops = 0, !.tries = @ + 1]
    <2>0. fetch[t].tries + 1 \in 1 .. MaxAttempts /\ 0 \in 0 .. MaxRedirects
      BY <1>1, <1>2, <1>4 DEF Fetch
    <2>1. f \in Fetch /\ f.at = "hop"
      BY <1>1, <2>0 DEF Fetch, Places
    <2>2. Checked(f)
      BY <2>1 DEF Checked
    <2>3. fetch' = [fetch EXCEPT ![t] = f]
      BY <1>4 DEF Retry
    <2> HIDE DEF f
    <2> QED
      BY <2>1, <2>2, <2>3, TaskMoves
  <1> QED
    BY <1>3, <1>4

\* What the rules do with a page, be they read now or found in the cache.
LEMMA Enforced ==
    ASSUME FetcherInv, NEW t \in Tasks, NEW rules \in {"rules", "none"},
           fetch[t].url \notin Unsafe,
           Enforce(t, rules),
           robots'[Asks(t)] = rules,
           \A h \in Hosts : h # Asks(t) => robots'[h] = robots[h],
           robots' \in [Hosts -> {"unread", "rules", "none"}],
           unreadable' = IF rules = "none" THEN unreadable \cup {Asks(t)} ELSE unreadable
    PROVE  FetcherInv'
  <1>1. /\ fetch[t] \in Fetch /\ fetch[t].url \in Pages
        /\ Asks(t) = HostOf[fetch[t].url] /\ Asks(t) \in Hosts
    BY FetchIsFetch
  <1>2. PICK at \in {"done", "token"} :
          /\ fetch' = [fetch EXCEPT ![t].at = at]
          /\ at = "token" => ~(rules = "rules" /\ fetch[t].url \in Forbidden)
    BY DEF Enforce, Finishes
  <1> DEFINE f == [fetch[t] EXCEPT !.at = at]
  <1>3. f \in Fetch /\ f.at = at /\ f.url = fetch[t].url
    BY <1>1 DEF Fetch, Places
  <1>4. \A u \in Tasks : fetch'[u] = IF u = t THEN f ELSE fetch[u]
    BY <1>2 DEF FetcherInv, FetcherTypeOK
  <1>5. fetch' \in [Tasks -> Fetch]
    BY <1>2, <1>3 DEF FetcherInv, FetcherTypeOK
  <1> HIDE DEF f
  <1>6. FetcherTypeOK'
    BY <1>1, <1>5 DEF FetcherInv, FetcherTypeOK
  <1>7. \A h \in Hosts : robots'[h] = "none" => h \in unreadable'
    BY <1>1 DEF FetcherInv
  <1>8. /\ \A h \in Hosts : robots[h] # "unread" => robots'[h] # "unread"
        /\ unreadable \subseteq unreadable'
    BY <1>1
  <1>9. Cleared(fetch[t].url)' \/ at = "done"
    BY <1>1, <1>2, <1>3, <1>4 DEF Cleared
  <1>10. ASSUME NEW u \in Tasks PROVE Checked(fetch[u])'
    <2>1. CASE u = t
      BY <1>1, <1>2, <1>3, <1>4, <2>1 DEF Checked, Cleared
    <2>2. CASE u # t
      <3>1. fetch'[u] = fetch[u] /\ fetch[u].url \in Pages /\ Checked(fetch[u])
        BY <1>4, <2>2, FetchIsFetch
      <3> QED
        BY <3>1, <1>8, ClearedStays DEF Checked, Cleared, FetcherInv
    <2> QED
      BY <2>1, <2>2
  <1> QED
    BY <1>6, <1>7, <1>10 DEF FetcherInv

\* Every step keeps it, whoever else is between two awaits.
LEMMA FetcherStep ==
    ASSUME FetcherInv, [FetcherNext]_fetchVars
    PROVE  FetcherInv'
  <1>1. CASE UNCHANGED fetchVars
    BY <1>1 DEF fetchVars, FetcherInv, FetcherTypeOK, Checked, Cleared
  <1>2. ASSUME NEW t \in Tasks, StartFetch(t) \/ DeadlinePasses(t) \/ Refused(t) \/ Answered(t)
        PROVE  FetcherInv'
    BY <1>2, TaskGoes DEF StartFetch, DeadlinePasses, Refused, Answered, Moves, Finishes
  <1>3. ASSUME NEW t \in Tasks, TokenTimesOut(t) \/ RequestFails(t)
        PROVE  FetcherInv'
    BY <1>3, TaskRetries DEF TokenTimesOut, RequestFails
  <1>4. ASSUME NEW t \in Tasks, UseCachedRobots(t) PROVE FetcherInv'
    <2>1. robots \in [Hosts -> {"unread", "rules", "none"}] /\ Asks(t) \in Hosts
      BY FetchIsFetch DEF FetcherInv, FetcherTypeOK
    <2>2. robots[Asks(t)] \in {"rules", "none"} /\ fetch[t].url \notin Unsafe
      BY <1>4, <2>1 DEF UseCachedRobots
    <2>3. unreadable = IF robots[Asks(t)] = "none" THEN unreadable \cup {Asks(t)} ELSE unreadable
      BY <2>1 DEF FetcherInv
    <2> QED
      BY <1>4, <2>1, <2>2, <2>3, Enforced DEF UseCachedRobots
  <1>5. ASSUME NEW t \in Tasks, RobotsRead(t) PROVE FetcherInv'
    <2>1. PICK rules \in {"rules", "none"} :
            /\ robots' = [robots EXCEPT ![Asks(t)] = rules]
            /\ unreadable' = IF rules = "none" THEN unreadable \cup {Asks(t)} ELSE unreadable
            /\ Enforce(t, rules)
      BY <1>5 DEF RobotsRead
    <2>2. fetch[t].url \notin Unsafe /\ Asks(t) \in Hosts
      BY <1>5, FetchIsFetch DEF RobotsRead, Checked
    <2>3. /\ robots' \in [Hosts -> {"unread", "rules", "none"}] /\ robots'[Asks(t)] = rules
          /\ \A h \in Hosts : h # Asks(t) => robots'[h] = robots[h]
      BY <2>1, <2>2 DEF FetcherInv, FetcherTypeOK
    <2> QED
      BY <2>1, <2>2, <2>3, Enforced
  <1>6. ASSUME NEW t \in Tasks, NEW host \in Hosts, NEW jumps \in 0 .. MaxRedirects,
               AskRobots(t, host, jumps), fetch[t].url \notin Unsafe
        PROVE  FetcherInv'
    <2> DEFINE f == [fetch[t] EXCEPT !.at = "robots_token", !.via = host, !.jumps = jumps]
    <2>1. f \in Fetch /\ f.at = "robots_token" /\ f.url = fetch[t].url
      BY FetchIsFetch DEF Fetch, Places
    <2>2. Checked(f)
      BY <1>6, <2>1 DEF Checked
    <2>3. fetch' = [fetch EXCEPT ![t] = f]
      BY <1>6 DEF AskRobots, FetcherInv, FetcherTypeOK
    <2> HIDE DEF f
    <2> QED
      BY <1>6, <2>1, <2>2, <2>3, TaskMoves DEF AskRobots
  <1>7. ASSUME NEW t \in Tasks, NeedRobots(t) PROVE FetcherInv'
    <2>1. Asks(t) \in Hosts /\ 0 \in 0 .. MaxRedirects
      BY FetchIsFetch, FetcherAssumption DEF FetcherAssumption
    <2> QED
      BY <1>6, <1>7, <2>1 DEF NeedRobots
  <1>8. ASSUME NEW t \in Tasks, RobotsRedirect(t) PROVE FetcherInv'
    <2>1. fetch[t].jumps + 1 \in 0 .. MaxRedirects
      BY <1>8, FetchIsFetch, FetcherAssumption DEF RobotsRedirect, Fetch, FetcherAssumption
    <2>2. fetch[t].url \notin Unsafe
      BY <1>8, FetchIsFetch DEF RobotsRedirect, Checked
    <2> QED
      BY <1>6, <1>8, <2>1, <2>2 DEF RobotsRedirect
  <1>9. ASSUME NEW t \in Tasks, NEW at \in {"robots_sent", "sent"},
               fetch[t].at = (IF at = "sent" THEN "token" ELSE "robots_token"),
               fetch' = [fetch EXCEPT ![t].at = at], UNCHANGED <<robots, unreadable>>
        PROVE  FetcherInv'
    <2> DEFINE f == [fetch[t] EXCEPT !.at = at]
    <2>1. f \in Fetch /\ f.at = at /\ f.url = fetch[t].url
      BY FetchIsFetch DEF Fetch, Places
    <2>2. Checked(f)
      BY <1>9, <2>1, FetchIsFetch DEF Checked
    <2>3. fetch' = [fetch EXCEPT ![t] = f]
      BY <1>9 DEF FetcherInv, FetcherTypeOK
    <2> HIDE DEF f
    <2> QED
      BY <1>9, <2>1, <2>2, <2>3, TaskMoves
  <1>10. ASSUME NEW t \in Tasks, RobotsToken(t) PROVE FetcherInv'
    BY <1>9, <1>10 DEF RobotsToken, Moves
  <1>11. ASSUME NEW t \in Tasks, Token(t) PROVE FetcherInv'
    BY <1>9, <1>11 DEF Token, Moves
  <1>12. ASSUME NEW t \in Tasks, Redirect(t) PROVE FetcherInv'
    <2>1. PICK u \in Pages :
            fetch' = [fetch EXCEPT ![t].at = "hop", ![t].url = u, ![t].hops = @ + 1]
      BY <1>12 DEF Redirect
    <2> DEFINE f == [fetch[t] EXCEPT !.at = "hop", !.url = u, !.hops = fetch[t].hops + 1]
    <2>2. fetch[t].hops + 1 \in 0 .. MaxRedirects
      BY <1>12, FetchIsFetch, FetcherAssumption DEF Redirect, Fetch, FetcherAssumption
    <2>3. f \in Fetch /\ f.at = "hop"
      BY <2>2, FetchIsFetch DEF Fetch, Places
    <2>4. Checked(f)
      BY <2>3 DEF Checked
    <2>5. fetch' = [fetch EXCEPT ![t] = f]
      BY <2>1 DEF FetcherInv, FetcherTypeOK
    <2> HIDE DEF f
    <2> QED
      BY <1>12, <2>3, <2>4, <2>5, TaskMoves DEF Redirect
  <1> QED
    BY <1>1, <1>2, <1>3, <1>4, <1>5, <1>7, <1>8, <1>10, <1>11, <1>12
    DEF FetcherNext, FetchAdvances

THEOREM FetcherInvariant == FetcherSpec => []FetcherInv
  <1>1. FetcherInit => FetcherInv
    <2> SUFFICES ASSUME FetcherInit PROVE FetcherInv
      OBVIOUS
    <2>1. /\ 0 \in 0 .. MaxRedirects /\ 1 \in 1 .. MaxAttempts
          /\ \A t \in Tasks : Start[t] \in Pages /\ HostOf[Start[t]] \in Hosts
      BY FetcherAssumption, HostsOfPages DEF FetcherAssumption
    <2>2. FetcherTypeOK /\ \A t \in Tasks : fetch[t].at = "idle"
      BY <2>1 DEF FetcherInit, FetcherTypeOK, Fetch, Places
    <2> QED
      BY <2>2 DEF FetcherInit, FetcherInv, Checked
  <1> QED
    BY <1>1, FetcherStep, PTL DEF FetcherSpec

\* Whatever redirects to whatever, and whoever of the tasks reads robots.txt first: no
\* request leaves for an address the policy refuses, for a host whose robots.txt was not
\* asked for, or for a path that a file which could always be read disallows.
THEOREM EveryRequestIsChecked == FetcherSpec => []EveryHopIsChecked
  <1>1. FetcherInv => EveryHopIsChecked
    BY DEF FetcherInv, Checked, Cleared, EveryHopIsChecked, Asks
  <1> QED
    BY <1>1, FetcherInvariant, PTL
-----------------------------------------------------------------------------
(* What a build's place tells of its record, its files, its uploaded bundle  *)
(* and its slot.  Kept says it of each build by itself; the slots are then   *)
(* exactly the live builds, and there are never too many.                    *)

Live == Threaded \cup Settling \cup {"admitted"}
Over == {"none", "done", "abandoned"}
Whole == {"workbook", "result"}

Kept(b) ==
    /\ build[b].at = "rendered" => "workbook" \in build[b].files
    /\ build[b].at = "written" => build[b].files = Whole
    /\ build[b].status = "succeeded" => build[b].files = Whole
    /\ b \in FrogBuilds /\ build[b].at \in {"ready", "admitted", "dispatched", "running"}
         => b \in bundles
    /\ b \in bundles => build[b].at \notin Over
    /\ b \in active <=> build[b].at \in Live

SlotsInv == IsFiniteSet(active) /\ Cardinality(active) <= MaxDeliverables

BuildsInv == BuildsTypeOK /\ SlotsInv /\ \A b \in Builds : Kept(b)

\* Giving a slot back, or none, keeps their number.
LEMMA SlotsRelease ==
    ASSUME SlotsInv, NEW b, active' \in {active, active \ {b}, {}}
    PROVE  SlotsInv'
  <1>1. Cardinality(active \ {b}) <= Cardinality(active) /\ IsFiniteSet(active \ {b})
    BY FS_RemoveElement, FS_CardinalityType DEF SlotsInv
  <1>2. Cardinality({}) = 0 /\ IsFiniteSet({})
    BY FS_EmptySet
  <1>3. Cardinality(active) \in Nat /\ Cardinality(active \ {b}) \in Nat /\ MaxDeliverables \in Nat
    BY <1>1, FS_CardinalityType, BuildsAssumption DEF SlotsInv, BuildsAssumption
  <1> QED
    BY <1>1, <1>2, <1>3 DEF SlotsInv

\* A slot is only taken where one is free.
LEMMA SlotsReserve ==
    ASSUME SlotsInv, NEW b, Cardinality(active) < MaxDeliverables, active' = active \cup {b}
    PROVE  SlotsInv'
  <1>0. Cardinality(active) \in Nat /\ IsFiniteSet(active)
    BY FS_CardinalityType DEF SlotsInv
  <1>1. Cardinality(active \cup {b}) <= Cardinality(active) + 1 /\ IsFiniteSet(active \cup {b})
    BY <1>0, FS_AddElement
  <1>2. Cardinality(active) \in Nat /\ Cardinality(active \cup {b}) \in Nat /\ MaxDeliverables \in Nat
    BY <1>1, FS_CardinalityType, BuildsAssumption DEF SlotsInv, BuildsAssumption
  <1> QED
    BY <1>1, <1>2 DEF SlotsInv

\* Of a step of one build only what becomes of that build has to be said.
LEMMA OneBuild ==
    ASSUME BuildsInv, NEW b \in Builds,
           NEW at \in BuildSteps,
           NEW status \in {"none", "queued", "running"} \cup Ended,
           NEW files \in SUBSET Whole,
           build' = [build EXCEPT ![b] = [at |-> at, status |-> status, files |-> files]],
           bundles' \subseteq FrogBuilds, active' \subseteq Builds, stops' \in 0 .. MaxStops,
           \A c \in Builds \ {b} : /\ c \in bundles' <=> c \in bundles
                                   /\ c \in active' <=> c \in active,
           SlotsInv',
           at = "rendered" => "workbook" \in files,
           at = "written" => files = Whole,
           status = "succeeded" => files = Whole,
           b \in FrogBuilds /\ at \in {"ready", "admitted", "dispatched", "running"} => b \in bundles',
           b \in bundles' => at \notin Over,
           b \in active' <=> at \in Live
    PROVE  BuildsInv'
  <1>1. BuildsTypeOK'
    BY DEF BuildsInv, BuildsTypeOK, Whole
  <1>2. /\ build'[b].at = at /\ build'[b].status = status /\ build'[b].files = files
        /\ \A c \in Builds \ {b} : build'[c] = build[c]
    BY DEF BuildsInv, BuildsTypeOK
  <1>3. Kept(b)'
    BY <1>2 DEF Kept
  <1>4. \A c \in Builds \ {b} : Kept(c)'
    BY <1>2 DEF Kept, BuildsInv
  <1> QED
    BY <1>1, <1>3, <1>4 DEF BuildsInv

LEMMA BuildFacts ==
    ASSUME BuildsInv, NEW b \in Builds
    PROVE  /\ build[b] = [at |-> build[b].at, status |-> build[b].status, files |-> build[b].files]
           /\ build[b].at \in BuildSteps /\ build[b].files \in SUBSET Whole
           /\ build[b].status \in {"none", "queued", "running"} \cup Ended
           /\ bundles \subseteq FrogBuilds /\ active \subseteq Builds /\ stops \in 0 .. MaxStops
           /\ Kept(b) /\ SlotsInv
           /\ build \in [Builds -> [at : BuildSteps, status : {"none", "queued", "running"} \cup Ended,
                                    files : SUBSET Whole]]
  BY DEF BuildsInv, BuildsTypeOK, Whole

\* A step that leaves a build's record and files as they are.
LEMMA BuildMoves ==
    ASSUME BuildsInv, NEW b \in Builds, NEW from \in BuildSteps, NEW to \in BuildSteps,
           BuildGoes(b, from, to),
           bundles' \in {bundles, bundles \ {b}, bundles \cup ({b} \cap FrogBuilds)},
           active' \in {active, active \ {b}, active \cup {b}},
           UNCHANGED stops, SlotsInv',
           to \notin {"rendered", "written"},
           b \in FrogBuilds /\ to \in {"ready", "admitted", "dispatched", "running"} => b \in bundles',
           b \in bundles' => to \notin Over,
           b \in active' <=> to \in Live
    PROVE  BuildsInv'
  <1>1. build' = [build EXCEPT ![b] = [at |-> to, status |-> build[b].status, files |-> build[b].files]]
    BY DEF BuildGoes, BuildIs
  <1>2. /\ bundles' \subseteq FrogBuilds /\ active' \subseteq Builds /\ stops' \in 0 .. MaxStops
        /\ \A c \in Builds \ {b} : /\ c \in bundles' <=> c \in bundles
                                   /\ c \in active' <=> c \in active
    BY BuildFacts
  <1>3. build[b].status = "succeeded" => build[b].files = Whole
    BY BuildFacts DEF Kept
  <1>4. /\ build[b].status \in {"none", "queued", "running"} \cup Ended
        /\ build[b].files \in SUBSET Whole
    BY BuildFacts
  <1> QED
    BY <1>1, <1>2, <1>3, <1>4, OneBuild

\* A step of the thread that writes the record or a file, and keeps slot and bundle.
LEMMA BuildWrites ==
    ASSUME BuildsInv, NEW b \in Builds, NEW at \in Threaded \cup Settling,
           NEW status \in {"none", "queued", "running"} \cup Ended, NEW files \in SUBSET Whole,
           BuildIs(b, at, status, files), UNCHANGED <<bundles, active, stops>>, b \in active,
           at = "rendered" => "workbook" \in files,
           at = "written" => files = Whole,
           status = "succeeded" => files = Whole,
           b \in FrogBuilds /\ at \in {"dispatched", "running"} => b \in bundles
    PROVE  BuildsInv'
  <1>1. /\ bundles' \subseteq FrogBuilds /\ active' \subseteq Builds /\ stops' \in 0 .. MaxStops
        /\ \A c \in Builds \ {b} : /\ c \in bundles' <=> c \in bundles
                                   /\ c \in active' <=> c \in active
    BY BuildFacts
  <1>2. SlotsInv'
    BY BuildFacts DEF SlotsInv
  <1>3. at \in BuildSteps /\ at \in Live /\ at \notin Over \cup {"ready", "admitted"}
    BY DEF BuildSteps, Live, Threaded, Settling, Over
  <1>4. b \in FrogBuilds /\ at \in {"ready", "admitted", "dispatched", "running"} => b \in bundles'
    BY <1>3
  <1>5. build' = [build EXCEPT ![b] = [at |-> at, status |-> status, files |-> files]]
    BY DEF BuildIs
  <1>6. b \in active' /\ (b \in bundles' => at \notin Over)
    BY <1>3
  <1> QED
    BY <1>1, <1>2, <1>3, <1>4, <1>5, <1>6, OneBuild

LEMMA BuildsStep ==
    ASSUME BuildsInv, [BuildsNext]_buildVars
    PROVE  BuildsInv'
  <1> USE DEF BuildSteps, Threaded, Settling, Closed, Live, Over, Ended
  <1>0. SlotsInv
    BY DEF BuildsInv
  <1>1. CASE UNCHANGED buildVars
    BY <1>1 DEF buildVars, BuildsInv, BuildsTypeOK, SlotsInv, Kept
  <1>2. CASE ServerStops
    <2>1. /\ BuildsTypeOK' /\ UNCHANGED bundles /\ active' = {}
      BY <1>2, BuildsAssumption DEF ServerStops, BuildsInv, BuildsTypeOK, BuildsAssumption
    <2>2. SlotsInv'
      BY <2>1, SlotsRelease DEF BuildsInv
    <2>3. ASSUME NEW b \in Builds PROVE Kept(b)'
      <3>1. /\ build'[b].status = build[b].status /\ build'[b].files = build[b].files
            /\ build'[b].at = IF build[b].at \in Closed \cup {"none"} THEN build[b].at ELSE "lost"
        BY <1>2, BuildFacts DEF ServerStops
      <3>2. Kept(b)
        BY DEF BuildsInv
      <3> QED
        BY <2>1, <3>1, <3>2 DEF Kept
    <2> QED
      BY <2>1, <2>2, <2>3 DEF BuildsInv
  <1>3. ASSUME NEW b \in Builds, Accept(b) PROVE BuildsInv'
    <2>1. SlotsInv' /\ b \notin active
      BY <1>3, BuildFacts, SlotsRelease DEF Accept, BuildGoes, Kept
    <2> QED
      BY <1>3, <2>1, BuildMoves DEF Accept
  <1>4. ASSUME NEW b \in Builds, Saturated(b) PROVE BuildsInv'
    <2>1. SlotsInv' /\ b \notin active
      BY <1>4, BuildFacts, SlotsRelease DEF Saturated, BuildGoes, Kept
    <2> QED
      BY <1>4, <2>1, BuildMoves DEF Saturated, Cleanup
  <1>5. ASSUME NEW b \in Builds, Reserve(b) PROVE BuildsInv'
    <2>1. SlotsInv'
      BY <1>5, BuildFacts, SlotsReserve DEF Reserve
    <2>2. b \in FrogBuilds => b \in bundles
      BY <1>5, BuildFacts DEF Reserve, BuildGoes, Kept
    <2> QED
      BY <1>5, <2>1, <2>2, BuildMoves DEF Reserve
  <1>6. ASSUME NEW b \in Builds, CreateFails(b) PROVE BuildsInv'
    <2>0. active' = active \ {b}
      BY <1>6 DEF CreateFails, Release
    <2>1. SlotsInv'
      BY <1>0, <2>0, SlotsRelease
    <2> QED
      BY <1>6, <2>1, BuildMoves DEF CreateFails, Cleanup, Release
  <1>7. ASSUME NEW b \in Builds, Settle(b) PROVE BuildsInv'
    <2>0. active' = active \ {b}
      BY <1>7 DEF Settle, Release
    <2>1. SlotsInv'
      BY <1>0, <2>0, SlotsRelease
    <2>2. PICK from \in Settling, to \in {"done", "abandoned"} : BuildGoes(b, from, to)
      BY <1>7 DEF Settle
    <2> QED
      BY <1>7, <2>1, <2>2, BuildMoves DEF Settle, Cleanup, Release
  <1>8. ASSUME NEW b \in Builds, LoadSource(b) PROVE BuildsInv'
    <2>1. SlotsInv' /\ b \in active
      BY <1>8, BuildFacts, SlotsRelease DEF LoadSource, BuildGoes, Kept
    <2> QED
      BY <1>8, <2>1, BuildMoves DEF LoadSource
  <1>9. ASSUME NEW b \in Builds, Dispatch(b) \/ MarkRunning(b) PROVE BuildsInv'
    <2>1. PICK at \in {"dispatched", "running"}, status \in {"queued", "running"} :
            BuildIs(b, at, status, build[b].files)
      BY <1>9 DEF Dispatch, MarkRunning
    <2>3. UNCHANGED <<bundles, active, stops>>
      BY <1>9 DEF Dispatch, MarkRunning
    <2>4. SlotsInv' /\ b \in active /\ (b \in FrogBuilds => b \in bundles)
      BY <1>0, <1>9, <2>3, BuildFacts, SlotsRelease DEF Dispatch, MarkRunning, Kept
    <2>5. build[b].files \in SUBSET Whole /\ bundles \subseteq FrogBuilds /\ active \subseteq Builds
          /\ stops \in 0 .. MaxStops
      BY BuildFacts
    <2> QED
      BY <2>1, <2>3, <2>4, <2>5, BuildWrites
  <1>10. ASSUME NEW b \in Builds, RenderWorkbook(b) \/ WriteResult(b) PROVE BuildsInv'
    <2>1. PICK at \in {"rendered", "written"}, file \in Whole :
            /\ BuildIs(b, at, build[b].status, build[b].files \cup {file})
            /\ file = IF at = "rendered" THEN "workbook" ELSE "result"
            /\ at = "written" => build[b].at = "rendered"
      BY <1>10, BuildFacts DEF RenderWorkbook, WriteResult, Whole
    <2> DEFINE files == build[b].files \cup {file}
    <2>2. BuildIs(b, at, build[b].status, files)
      BY <2>1
    <2>3. /\ files \in SUBSET Whole
          /\ at = "rendered" => "workbook" \in files
          /\ at = "written" => files = Whole
          /\ build[b].status = "succeeded" => files = Whole
      BY <2>1, BuildFacts DEF Kept, Whole
    <2>4. UNCHANGED <<bundles, active, stops>>
      BY <1>10 DEF RenderWorkbook, WriteResult
    <2>5. SlotsInv' /\ b \in active
      BY <1>0, <1>10, <2>4, BuildFacts, SlotsRelease DEF RenderWorkbook, WriteResult, Kept
    <2>6. /\ build[b].status \in {"none", "queued", "running"} \cup Ended
          /\ bundles \subseteq FrogBuilds /\ active \subseteq Builds /\ stops \in 0 .. MaxStops
      BY BuildFacts
    <2> HIDE DEF files
    <2> QED
      BY <2>2, <2>3, <2>4, <2>5, <2>6, BuildWrites
  <1>11. ASSUME NEW b \in Builds, FinishRecord(b) \/ BuildFails(b) PROVE BuildsInv'
    <2>1. PICK at \in Settling, status \in {"none", "queued", "running"} \cup Ended :
            /\ BuildIs(b, at, status, build[b].files)
            /\ status = "succeeded" => build[b].at = "written" \/ build[b].status = "succeeded"
      BY <1>11, BuildFacts DEF FinishRecord, BuildFails
    <2>3. status = "succeeded" => build[b].files = Whole
      BY <2>1, BuildFacts DEF Kept
    <2>4. UNCHANGED <<bundles, active, stops>>
      BY <1>11 DEF FinishRecord, BuildFails
    <2>5. SlotsInv' /\ b \in active
      BY <1>0, <1>11, <2>4, BuildFacts, SlotsRelease DEF FinishRecord, BuildFails, Kept
    <2>6. build[b].files \in SUBSET Whole /\ bundles \subseteq FrogBuilds /\ active \subseteq Builds
          /\ stops \in 0 .. MaxStops
      BY BuildFacts
    <2> QED
      BY <2>1, <2>3, <2>4, <2>5, <2>6, BuildWrites
  <1> QED
    BY <1>1, <1>2, <1>3, <1>4, <1>5, <1>6, <1>7, <1>8, <1>9, <1>10, <1>11
    DEF BuildsNext, BuildAdvances

THEOREM BuildsInvariant == BuildsSpec => []BuildsInv
  <1>1. BuildsInit => BuildsInv
    <2> SUFFICES ASSUME BuildsInit PROVE BuildsInv
      OBVIOUS
    <2>1. BuildsTypeOK
      BY BuildsAssumption DEF BuildsInit, BuildsTypeOK, BuildSteps, Closed, BuildsAssumption
    <2>2. SlotsInv
      BY FS_EmptySet, BuildsAssumption DEF BuildsInit, SlotsInv, BuildsAssumption
    <2>3. \A b \in Builds : Kept(b)
      BY DEF BuildsInit, Kept, Live, Over, Threaded, Settling
    <2> QED
      BY <2>1, <2>2, <2>3 DEF BuildsInv
  <1> QED
    BY <1>1, BuildsStep, PTL DEF BuildsSpec

\* A deliverable that says it succeeded can be downloaded, also when the server stopped
\* between the writes of its files and of its record.
THEOREM WorkbooksAreBehindRecords == BuildsSpec => []WorkbookBehindRecord
  <1>1. BuildsInv => WorkbookBehindRecord
    BY DEF BuildsInv, Kept, Whole, WorkbookBehindRecord
  <1> QED
    BY <1>1, BuildsInvariant, PTL

\* An uploaded bundle is there while its build needs it and gone when the build is over.
THEOREM BundlesLiveWithBuilds == BuildsSpec => []BundleLivesWithItsBuild
  <1>1. BuildsInv => BundleLivesWithItsBuild
    <2> SUFFICES ASSUME BuildsInv PROVE BundleLivesWithItsBuild
      OBVIOUS
    <2>1. bundles \subseteq Builds /\ FrogBuilds \subseteq Builds
      BY BuildsAssumption DEF BuildsAssumption, BuildsInv, BuildsTypeOK
    <2> QED
      BY <2>1 DEF BuildsInv, Kept, Over, BundleLivesWithItsBuild
  <1> QED
    BY <1>1, BuildsInvariant, PTL

\* Every slot belongs to a build that will settle, and there are no more than configured.
THEOREM SlotsBelongToBuilds == BuildsSpec => []SlotsAreLiveBuilds
  <1>1. BuildsInv => SlotsAreLiveBuilds
    BY DEF BuildsInv, BuildsTypeOK, SlotsInv, Kept, Live, SlotsAreLiveBuilds
  <1> QED
    BY <1>1, BuildsInvariant, PTL

-----------------------------------------------------------------------------
(* Who is alive and what is written of it, for any number of supervisors and *)
(* any reuse of pids: an identity, a pid with a start time, belongs to one   *)
(* process for ever, and is a supervisor's or a child's, never both.         *)

USE LedgerAssumption

Launches == {"idle", "created", "enrolling", "enrolled", "assigned", "naming", "named",
             "watching", "terminated", "removing"}
SupState == [me : SUBSET Identity, launch : Launches, child : SUBSET Identity,
             held : SUBSET Entry, sweep : {"unread", "judging", "killing", "walking", "done"},
             seen : SUBSET Entry, todo : SUBSET Entry, keep : SUBSET Entry,
             mark : SUBSET Entry, since : 0 .. MaxStarts,
             targets : SUBSET [pid : Pids, start : 0 .. MaxStarts], hit : BOOLEAN]

Types ==
    /\ holder \in [Pids -> 0 .. MaxStarts] /\ started \in 0 .. MaxStarts
    /\ kids \subseteq Kid /\ ledger \subseteq Entry /\ torn \in BOOLEAN
    /\ missed \subseteq Identity
    /\ sup \in [Supervisors -> SupState]

\* What stands in the file, or in the memory of somebody who read it.
Recorded == ledger \cup UNION {sup[s].held \cup sup[s].seen : s \in Supervisors}
Children == {k.id : k \in kids} \cup (UNION {sup[s].child : s \in Supervisors}) \cup {e.child : e \in Recorded}
Owners == {k.owner : k \in kids} \cup (UNION {sup[s].me : s \in Supervisors}) \cup {e.owner : e \in Recorded}

\* Nobody has an identity of the future, and no child is a supervisor.
Identities ==
    /\ \A id \in Children \cup Owners : id.start <= started
    /\ \A c \in Children, o \in Owners : c # o

\* A supervisor is alive and is one process, and has a child in a launch.
Supervises(x) ==
    /\ \A a \in x.me : Alive(a) /\ (\A b \in x.me : a = b)
    /\ \A a, b \in x.child : a = b
    /\ IF x.launch = "idle" THEN x.child = {} ELSE x.me # {} /\ x.child # {}

Distinct == \A s, t \in Supervisors : sup[s].me \cap sup[t].me # {} => s = t

\* The child of a launch is its supervisor's, and is dead when the launch says so.
Custody(x) ==
    \A id \in x.child :
        /\ \A k \in kids : k.id = id => k.owner \in x.me
        /\ Alive(id) => (\E k \in kids : k.id = id) /\ x.launch \notin {"terminated", "removing"}

\* From "assigned" on it dies with its supervisor.
Jobbed(x) ==
    x.launch \in {"assigned", "naming", "named", "watching"} =>
        \A k \in kids : k.id \in x.child => k.jobbed

Launching == \A s \in Supervisors : Supervises(sup[s]) /\ Custody(sup[s]) /\ Jobbed(sup[s])

\* A crawler that runs has its supervisor, and would not survive it.
KidsLive ==
    \A k \in kids : Alive(k.id) /\ (k.resumed => k.jobbed /\ Alive(k.owner))

\* An owner that is alive is one of the supervisors.
Owned == \A k \in kids : Alive(k.owner) => \E s \in Supervisors : k.owner \in sup[s].me

\* An entry whose child is alive tells the truth of it.
Truthful ==
    \A e \in Recorded : Alive(e.child) => \E k \in kids : k.id = e.child /\ k.owner = e.owner

\* What has the pid of a process now is that process, or came after a time.
Held(id, since) == holder[id.pid] \in {0, id.start} \/ holder[id.pid] > since

\* A reconciliation keeps what it has not seen die, but for what it missed.
Keeps(x) ==
    /\ x.todo \cup x.keep \cup x.mark \subseteq x.seen
    /\ x.sweep \in {"unread", "done"} => x.seen = {}
    /\ \A e \in x.seen : Alive(e.child) => e \in x.todo \cup x.keep \cup x.mark \/ e.child \in missed

\* The orphan it is about to kill has no supervisor, and its pid and those of its tree are
\* theirs unless somebody came after it was identified.
Hunts(x) ==
    /\ IF x.sweep \in {"killing", "walking"} THEN \E e \in x.mark : x.mark = {e} ELSE x.mark = {}
    /\ x.sweep # "walking" => x.targets = {}
    /\ x.since <= started
    /\ \A e \in x.mark : ~Alive(e.owner) /\ Held(e.child, x.since)
    /\ \A t \in x.targets : Held(t, x.since)

Sweeps(x) == Keeps(x) /\ Hunts(x) /\ (x.me = {} => x.sweep = "done")

Sweeping == \A s \in Supervisors : Sweeps(sup[s])

Noted ==
    ~torn => \A k \in kids : k.enrolled =>
        k.id \in missed \/ [child |-> k.id, owner |-> k.owner] \in ledger

LedgerInv ==
    Types /\ Identities /\ Distinct /\ Launching /\ KidsLive /\ Owned
    /\ Truthful /\ Sweeping /\ Noted

-----------------------------------------------------------------------------
(* Life and death.                                                           *)

LEMMA Recordable ==
    ASSUME Types
    PROVE  Recorded \subseteq Entry /\ Children \subseteq Identity /\ Owners \subseteq Identity
  <1>1. \A s \in Supervisors : /\ sup[s].held \subseteq Entry /\ sup[s].seen \subseteq Entry
                               /\ sup[s].child \subseteq Identity /\ sup[s].me \subseteq Identity
    BY DEF Types, SupState
  <1>2. Recorded \subseteq Entry
    BY <1>1 DEF Types, Recorded
  <1>3. \A k \in kids : k.id \in Identity /\ k.owner \in Identity
    BY DEF Types, Kid
  <1>4. \A e \in Recorded : e.child \in Identity /\ e.owner \in Identity
    BY <1>2 DEF Entry
  <1>5. Children \subseteq Identity
    BY <1>1, <1>3, <1>4 DEF Children
  <1>6. Owners \subseteq Identity
    BY <1>1, <1>3, <1>4 DEF Owners
  <1> QED
    BY <1>2, <1>5, <1>6

\* Time passes: a pid is kept, freed, or given to a process that starts now.
Ages ==
    /\ started <= started' /\ started' \in Nat
    /\ \A p \in Pids : holder'[p] \in Nat /\ (holder'[p] \in {0, holder[p]} \/ holder'[p] > started)

\* A new process takes no pid of one that is alive.
LEMMA StartsSpares ==
    ASSUME Types, NEW p \in Pids, NEW from, Starts(p, from), NEW new, new = NewIdentity(p)
    PROVE  /\ holder' \in [Pids -> 0 .. MaxStarts] /\ started' \in 0 .. MaxStarts /\ started' = started + 1
           /\ new \in Identity /\ new.start = started + 1
           /\ Alive(new)'
           /\ \A id \in Identity : Alive(id) => Alive(id)'
           /\ \A id \in Identity : id.start <= started /\ Alive(id)' => Alive(id)
           /\ Ages
  <1>1. /\ holder[p] = 0 /\ started \in Nat /\ started < MaxStarts /\ started' = started + 1
        /\ holder' = [holder EXCEPT ![p] = started + 1] /\ holder \in [Pids -> 0 .. MaxStarts]
    BY DEF Types, Starts
  <1>2. started + 1 \in 1 .. MaxStarts
    BY <1>1
  <1>3. \A q \in Pids : holder'[q] = IF q = p THEN started + 1 ELSE holder[q]
    BY <1>1
  <1>4. \A id \in Identity : id.pid \in Pids /\ id.start \in 1 .. MaxStarts
    BY DEF Identity
  <1>5. /\ new \in Identity /\ new.start = started + 1
        /\ new.pid = p
    BY <1>2 DEF NewIdentity, Identity
  <1>6. Alive(new)'
    BY <1>1, <1>3, <1>5 DEF Alive
  <1>7. \A id \in Identity : Alive(id) => Alive(id)'
    BY <1>1, <1>3, <1>4 DEF Alive
  <1>8. \A id \in Identity : id.start <= started /\ Alive(id)' => Alive(id)
    BY <1>1, <1>3, <1>4 DEF Alive
  <1>9. Ages
    BY <1>1, <1>3 DEF Ages
  <1> QED
    BY <1>1, <1>2, <1>3, <1>5, <1>6, <1>7, <1>8, <1>9

\* Who dies is dead, and everybody else lives on.
LEMMA DieKills ==
    ASSUME Types, NEW gone \in SUBSET Identity, Die(gone)
    PROVE  /\ holder' \in [Pids -> 0 .. MaxStarts]
           /\ kids' = {k \in kids : k.id \notin gone}
           /\ \A id \in Identity : Alive(id)' <=> Alive(id) /\ id \notin gone
           /\ \A p \in Pids : holder'[p] \in {0, holder[p]}
  <1>1. /\ holder \in [Pids -> 0 .. MaxStarts]
        /\ holder' = [p \in Pids |-> IF \E id \in gone : id.pid = p /\ Alive(id) THEN 0 ELSE holder[p]]
        /\ kids' = {k \in kids : k.id \notin gone}
    BY DEF Types, Die
  <1>2. holder' \in [Pids -> 0 .. MaxStarts]
    BY <1>1
  <1>3. ASSUME NEW id \in Identity
        PROVE  Alive(id)' <=> Alive(id) /\ id \notin gone
    <2>1. id.pid \in Pids /\ id.start \in 1 .. MaxStarts
      BY DEF Identity
    <2>2. \A j \in gone : j.pid = id.pid /\ j.start = id.start => j = id
      BY DEF Identity
    <2>3. holder'[id.pid] = IF \E j \in gone : j.pid = id.pid /\ Alive(j) THEN 0 ELSE holder[id.pid]
      BY <1>1, <2>1
    <2> QED
      BY <2>1, <2>2, <2>3 DEF Alive
  <1>4. \A p \in Pids : holder'[p] \in {0, holder[p]}
    BY <1>1
  <1> QED
    BY <1>1, <1>2, <1>3, <1>4

\* A reconciliation that does not advance, or has one target less, keeps what holds of it.
SameSweep(x, y) ==
    /\ y.me = x.me /\ y.sweep = x.sweep /\ y.seen = x.seen /\ y.todo = x.todo /\ y.keep = x.keep
    /\ y.mark = x.mark /\ y.since = x.since /\ y.targets \subseteq x.targets

LEMMA SweepsAge ==
    ASSUME LedgerInv, NEW s \in Supervisors, NEW y, SameSweep(sup[s], y), Ages, missed \subseteq missed'
    PROVE  Sweeps(y)'
  <1>1. PICK x : x = sup[s]
    OBVIOUS
  <1>2. x \in SupState /\ Sweeps(x) /\ holder \in [Pids -> 0 .. MaxStarts] /\ started \in Nat
    BY <1>1 DEF LedgerInv, Types, Sweeping
  <1>3. SameSweep(x, y)
    BY <1>1
  <1>4. \A e \in x.seen : /\ e.child \in Identity /\ e.owner \in Identity
                          /\ e.child.start <= started /\ e.owner.start <= started
    <2>1. \A e \in x.seen : e \in Recorded
      BY <1>1 DEF Recorded
    <2>2. \A e \in x.seen : e.child \in Children /\ e.owner \in Owners
      BY <2>1 DEF Children, Owners
    <2>3. Children \subseteq Identity /\ Owners \subseteq Identity
      BY Recordable DEF LedgerInv
    <2> QED
      BY <2>2, <2>3 DEF LedgerInv, Identities
  <1>5. \A id \in Identity : id.start <= started /\ Alive(id)' => Alive(id)
    <2> SUFFICES ASSUME NEW id \in Identity, id.start <= started, Alive(id)' PROVE Alive(id)
      OBVIOUS
    <2>1. id.pid \in Pids /\ id.start \in Nat \ {0}
      BY DEF Identity
    <2>2. holder'[id.pid] = id.start
      BY DEF Alive
    <2>3. holder[id.pid] \in Nat
      BY <1>2, <2>1
    <2>4. holder'[id.pid] \in {0, holder[id.pid]} \/ holder'[id.pid] > started
      BY <2>1 DEF Ages
    <2> QED
      BY <1>2, <2>1, <2>2, <2>3, <2>4 DEF Alive
  <1>6. x.since \in Nat /\ x.since <= started
    BY <1>2 DEF SupState, Sweeps, Hunts
  <1>7. ASSUME NEW t, t.pid \in Pids, Held(t, x.since) PROVE Held(t, x.since)'
    <2>1. holder[t.pid] \in {0, t.start} \/ holder[t.pid] > x.since
      BY <1>7 DEF Held
    <2>2. /\ holder'[t.pid] \in {0, holder[t.pid]} \/ holder'[t.pid] > started
          /\ holder'[t.pid] \in Nat
      BY <1>7 DEF Ages
    <2>3. holder[t.pid] \in Nat
      BY <1>2, <1>7
    <2>4. CASE holder'[t.pid] \in {0, holder[t.pid]}
      BY <2>1, <2>4 DEF Held
    <2>5. CASE holder'[t.pid] > started
      BY <1>2, <1>6, <2>2, <2>5 DEF Held
    <2> QED
      BY <2>2, <2>4, <2>5
  <1>8. Keeps(y)'
    BY <1>2, <1>3, <1>4, <1>5 DEF Sweeps, Keeps, SameSweep
  <1>9. Hunts(y)'
    <2>1. \A e \in y.mark : (~Alive(e.owner))' /\ Held(e.child, y.since)'
      <3> SUFFICES ASSUME NEW e \in y.mark PROVE (~Alive(e.owner))' /\ Held(e.child, y.since)'
        OBVIOUS
      <3>1. e \in x.mark /\ y.since = x.since
        BY <1>3 DEF SameSweep
      <3>2. e \in x.seen /\ ~Alive(e.owner) /\ Held(e.child, x.since)
        BY <1>2, <3>1 DEF Sweeps, Keeps, Hunts
      <3>3. e.child.pid \in Pids
        BY <1>4, <3>2 DEF Identity
      <3> QED
        BY <1>4, <1>5, <1>7, <3>1, <3>2, <3>3
    <2>2. \A t \in y.targets : Held(t, y.since)'
      <3> SUFFICES ASSUME NEW t \in y.targets PROVE Held(t, y.since)'
        OBVIOUS
      <3>1. t \in x.targets /\ y.since = x.since
        BY <1>3 DEF SameSweep
      <3>2. t.pid \in Pids /\ Held(t, x.since)
        BY <1>2, <3>1 DEF SupState, Sweeps, Hunts
      <3> QED
        BY <1>7, <3>1, <3>2
    <2>3. y.since <= started'
      BY <1>2, <1>3, <1>6 DEF SameSweep, Ages
    <2> QED
      BY <1>2, <1>3, <2>1, <2>2, <2>3 DEF Sweeps, Hunts, SameSweep
  <1> QED
    BY <1>2, <1>3, <1>8, <1>9 DEF Sweeps, SameSweep

-----------------------------------------------------------------------------
(* What several steps have in common.                                        *)

LEMMA NoNewIdentity ==
    ASSUME Types, Identities, started' = started, Children' \subseteq Children, Owners' \subseteq Owners
    PROVE  Identities'
  BY DEF Identities

LEMMA RecordedGrows ==
    ASSUME NEW s \in Supervisors, NEW X, \A t \in Supervisors \ {s} : sup'[t] = sup[t],
           ledger' \subseteq Recorded \cup X, sup'[s].held \subseteq Recorded \cup X,
           sup'[s].seen \subseteq Recorded \cup X
    PROVE  Recorded' \subseteq Recorded \cup X
  <1> SUFFICES ASSUME NEW e \in Recorded' PROVE e \in Recorded \cup X
    OBVIOUS
  <1>1. CASE e \in ledger'
    BY <1>1
  <1>2. CASE \E t \in Supervisors : e \in sup'[t].held \cup sup'[t].seen
    <2>1. PICK t \in Supervisors : e \in sup'[t].held \cup sup'[t].seen
      BY <1>2
    <2>2. CASE t = s
      BY <2>1, <2>2
    <2>3. CASE t # s
      BY <2>1, <2>3 DEF Recorded
    <2> QED
      BY <2>2, <2>3
  <1> QED
    BY <1>1, <1>2 DEF Recorded

\* Nobody is born, nobody dies: the flags of children and the file may change, and one
\* supervisor may write of its child, go on or forget it.
SameKids ==
    /\ \A k \in kids' : \E j \in kids :
         /\ j.id = k.id /\ j.owner = k.owner
         /\ j.jobbed => k.jobbed
         /\ k.resumed => j.resumed \/ (k.jobbed /\ Alive(k.owner))
    /\ \A j \in kids : \E k \in kids' : j.id = k.id /\ j.owner = k.owner

GoesOn ==
    {<<"created", "enrolling">>, <<"enrolling", "enrolled">>, <<"enrolled", "assigned">>,
     <<"assigned", "naming">>, <<"naming", "named">>, <<"named", "watching">>, <<"terminated", "removing">>}

Quiet(s) ==
    /\ UNCHANGED <<holder, started>> /\ SameKids /\ missed \subseteq missed'
    /\ \A t \in Supervisors \ {s} : sup'[t] = sup[t]
    /\ sup'[s].me = sup[s].me
    /\ \/ sup'[s].child = {} /\ sup'[s].launch = "idle"
       \/ /\ sup'[s].child = sup[s].child
          /\ sup'[s].launch = sup[s].launch \/ <<sup[s].launch, sup'[s].launch>> \in GoesOn
    /\ \/ Recorded' \subseteq Recorded
       \/ sup[s].launch \in {"enrolling", "naming"} /\ Recorded' \subseteq Recorded \cup {EntryOf(s)}

LEMMA EntryIsTrue ==
    ASSUME LedgerInv, NEW s \in Supervisors, sup[s].launch # "idle"
    PROVE  /\ Owner(s) \in sup[s].me /\ Child(s) \in sup[s].child
           /\ \A o \in sup[s].me : o = Owner(s)
           /\ \A c \in sup[s].child : c = Child(s)
           /\ EntryOf(s) \in Entry /\ EntryOf(s).child = Child(s) /\ EntryOf(s).owner = Owner(s)
           /\ Alive(Child(s)) => \E k \in kids : k.id = Child(s) /\ k.owner = Owner(s)
  <1>1. Supervises(sup[s]) /\ Custody(sup[s])
    BY DEF LedgerInv, Launching
  <1>2. sup[s].me # {} /\ sup[s].child # {}
    BY <1>1 DEF Supervises
  <1>3. Owner(s) \in sup[s].me
    BY <1>2 DEF Owner
  <1>4. Child(s) \in sup[s].child
    BY <1>2 DEF Child
  <1>5. (\A o \in sup[s].me : o = Owner(s)) /\ (\A c \in sup[s].child : c = Child(s))
    BY <1>1, <1>3, <1>4 DEF Supervises
  <1>6. sup[s].me \subseteq Identity /\ sup[s].child \subseteq Identity
    BY DEF LedgerInv, Types, SupState
  <1>7. EntryOf(s) \in Entry /\ EntryOf(s).child = Child(s) /\ EntryOf(s).owner = Owner(s)
    BY <1>3, <1>4, <1>6 DEF EntryOf, Entry
  <1>8. Alive(Child(s)) => \E k \in kids : k.id = Child(s) /\ k.owner = Owner(s)
    BY <1>1, <1>4, <1>5 DEF Custody
  <1> QED
    BY <1>3, <1>4, <1>5, <1>7, <1>8

LEMMA NobodyAges ==
    ASSUME LedgerInv, UNCHANGED <<holder, started>>
    PROVE  Ages
  BY DEF LedgerInv, Types, Ages

LEMMA SweepsStay ==
    ASSUME LedgerInv, NEW s \in Supervisors, UNCHANGED <<holder, started, missed>>,
           SameSweep(sup[s], sup'[s])
    PROVE  Sweeps(sup[s])'
  <1>1. PICK y : y = sup'[s]
    OBVIOUS
  <1>2. Sweeps(y)'
    BY <1>1, NobodyAges, SweepsAge
  <1> QED
    BY <1>1, <1>2

LEMMA QuietKeeps ==
    ASSUME LedgerInv, NEW s \in Supervisors, Quiet(s)
    PROVE  /\ Identities' /\ Distinct' /\ Truthful' /\ KidsLive' /\ Owned'
           /\ \A t \in Supervisors : Supervises(sup[t])' /\ Custody(sup[t])'
           /\ \A t \in Supervisors \ {s} : Jobbed(sup[t])' /\ Sweeps(sup[t])'
           /\ \A id \in Identity : Alive(id)' <=> Alive(id)
  <1>1. \A t \in Supervisors : sup'[t].me = sup[t].me /\ sup'[t].child \subseteq sup[t].child
    BY DEF Quiet
  <1>2. holder' = holder /\ started' = started /\ SameKids
    BY DEF Quiet
  <1>3. PICK mine : mine = EntryOf(s)
    OBVIOUS
  <1>4. \A e \in Recorded' : e \in Recorded \/ (e = mine /\ sup[s].launch # "idle")
    <2>1. \/ Recorded' \subseteq Recorded
          \/ sup[s].launch \in {"enrolling", "naming"} /\ Recorded' \subseteq Recorded \cup {mine}
      BY <1>3 DEF Quiet
    <2> QED
      BY <2>1
  <1>5. sup[s].launch # "idle" =>
            /\ mine.child \in sup[s].child /\ mine.owner \in sup[s].me
            /\ Alive(mine.child) => \E k \in kids : k.id = mine.child /\ k.owner = mine.owner
    BY <1>3, EntryIsTrue
  <1>6. Children' \subseteq Children
    <2>1. \A k \in kids' : k.id \in Children
      BY <1>2 DEF Children, SameKids
    <2>2. \A t \in Supervisors : sup'[t].child \subseteq Children
      BY <1>1 DEF Children
    <2>3. \A e \in Recorded' : e.child \in Children
      BY <1>4, <1>5 DEF Children
    <2> QED
      BY <2>1, <2>2, <2>3 DEF Children
  <1>7. Owners' \subseteq Owners
    BY <1>1, <1>2, <1>4, <1>5 DEF Owners, SameKids
  <1>8. Identities'
    BY <1>2, <1>6, <1>7, NoNewIdentity DEF LedgerInv
  <1>9. Distinct'
    BY <1>1 DEF LedgerInv, Distinct
  <1>10. Truthful'
    <2> SUFFICES ASSUME NEW e \in Recorded', Alive(e.child)'
                 PROVE  \E k \in kids' : k.id = e.child /\ k.owner = e.owner
      BY DEF Truthful
    <2>1. Alive(e.child)
      BY <1>2 DEF Alive
    <2>2. \E k \in kids : k.id = e.child /\ k.owner = e.owner
      BY <1>4, <1>5, <2>1 DEF LedgerInv, Truthful
    <2> QED
      BY <1>2, <2>2 DEF SameKids
  <1>11. ASSUME NEW t \in Supervisors
         PROVE  Supervises(sup[t])' /\ Custody(sup[t])'
    <2>1. PICK x, y : x = sup[t] /\ y = sup'[t]
      OBVIOUS
    <2>2. /\ y.me = x.me
          /\ \/ y = x
             \/ y.child = {} /\ y.launch = "idle"
             \/ /\ y.child = x.child
                /\ x.launch = y.launch \/ <<x.launch, y.launch>> \in GoesOn
      BY <2>1 DEF Quiet
    <2>3. Supervises(x) /\ Custody(x)
      BY <2>1 DEF LedgerInv, Launching
    <2>4. /\ \/ y = x
             \/ y.child = {} /\ y.launch = "idle"
             \/ y.child = x.child /\ (x.launch = "idle" <=> y.launch = "idle")
          /\ y.launch \in {"terminated", "removing"} =>
                y = x \/ x.launch \in {"terminated", "removing"}
      BY <2>2 DEF GoesOn
    <2>5. Supervises(y)'
      BY <1>2, <2>2, <2>3, <2>4 DEF Supervises, Alive
    <2>6. Custody(y)'
      BY <1>2, <2>2, <2>3, <2>4 DEF Custody, SameKids, Alive
    <2> QED
      BY <2>1, <2>5, <2>6
  <1>12. KidsLive'
    BY <1>2 DEF LedgerInv, KidsLive, SameKids, Alive
  <1>13. ASSUME NEW t \in Supervisors \ {s}
         PROVE  Jobbed(sup[t])' /\ Sweeps(sup[t])'
    <2>1. PICK x : x = sup[t] /\ x = sup'[t]
      BY DEF Quiet
    <2>2. Jobbed(x)
      BY <2>1 DEF LedgerInv, Launching
    <2>3. Jobbed(x)'
      BY <1>2, <2>2 DEF Jobbed, SameKids
    <2>4. Sweeps(x)'
      BY <2>1, NobodyAges, SweepsAge DEF SameSweep, Quiet
    <2> QED
      BY <2>1, <2>3, <2>4
  <1>14. Owned'
    BY <1>1, <1>2 DEF LedgerInv, Owned, SameKids, Alive
  <1> QED
    BY <1>2, <1>8, <1>9, <1>10, <1>11, <1>12, <1>13, <1>14 DEF Alive

\* What is left to show of a quiet step.
LEMMA QuietStep ==
    ASSUME LedgerInv, NEW s \in Supervisors, Quiet(s), Types', Jobbed(sup[s])', Sweeps(sup[s])', Noted'
    PROVE  LedgerInv'
  <1>1. /\ Identities' /\ Distinct' /\ Truthful' /\ KidsLive' /\ Owned'
        /\ \A t \in Supervisors : Supervises(sup[t])' /\ Custody(sup[t])'
        /\ \A t \in Supervisors \ {s} : Jobbed(sup[t])' /\ Sweeps(sup[t])'
    BY QuietKeeps
  <1>2. Launching' /\ Sweeping'
    BY <1>1 DEF Launching, Sweeping
  <1> QED
    BY <1>1, <1>2 DEF LedgerInv

LEMMA SameKidsStay ==
    ASSUME kids' = kids
    PROVE  SameKids
  BY DEF SameKids

LEMMA SameNotes ==
    ASSUME Noted, kids' = kids, torn' = torn, ledger' = ledger, missed \subseteq missed'
    PROVE  Noted'
  BY DEF Noted

-----------------------------------------------------------------------------
(* Steps that touch the file or the memory of it.                            *)

LEMMA ReadLedgerKeeps ==
    ASSUME LedgerInv, NEW s \in Supervisors, ReadLedger(s)
    PROVE  LedgerInv'
  <1>1. PICK read \in {ledger, {}} :
            sup' = [sup EXCEPT ![s].launch = Reading[@], ![s].held = read]
    BY DEF ReadLedger
  <1>2. /\ UNCHANGED <<holder, started, kids, ledger, missed, torn>>
        /\ sup[s].launch \in {"created", "assigned", "terminated"}
    BY DEF ReadLedger, Reading
  <1>3. /\ \A t \in Supervisors \ {s} : sup'[t] = sup[t]
        /\ sup'[s] = [sup[s] EXCEPT !.launch = Reading[sup[s].launch], !.held = read]
    BY <1>1 DEF LedgerInv, Types
  <1>4. Reading[sup[s].launch] = IF sup[s].launch = "created" THEN "enrolling"
                                 ELSE IF sup[s].launch = "assigned" THEN "naming" ELSE "removing"
    BY <1>2 DEF Reading
  <1>5. sup[s] \in SupState
    BY DEF LedgerInv, Types
  <1>6. /\ sup'[s].me = sup[s].me /\ sup'[s].child = sup[s].child /\ sup'[s].held = read
        /\ sup'[s].launch = Reading[sup[s].launch] /\ sup'[s].seen = sup[s].seen
        /\ SameSweep(sup[s], sup'[s])
    BY <1>3, <1>5 DEF SupState, SameSweep
  <1>7. Types'
    BY <1>1, <1>2, <1>3, <1>4, <1>5 DEF LedgerInv, Types, SupState, Launches
  <1>8. Recorded' \subseteq Recorded
    <2>1. ledger \subseteq Recorded /\ sup[s].seen \subseteq Recorded
      BY DEF Recorded
    <2> QED
      BY <1>1, <1>2, <1>3, <1>6, <2>1, RecordedGrows, Zenon
  <1>9. Quiet(s)
    <2>1. <<sup[s].launch, sup'[s].launch>> \in GoesOn
      BY <1>2, <1>4, <1>6 DEF GoesOn
    <2> QED
      BY <1>2, <1>3, <1>6, <1>8, <2>1, SameKidsStay DEF Quiet
  <1>10. Jobbed(sup[s])'
    BY <1>2, <1>4, <1>6 DEF LedgerInv, Launching, Jobbed
  <1>11. Sweeps(sup[s])'
    BY <1>2, <1>6, SweepsStay
  <1> QED
    BY <1>2, <1>7, <1>9, <1>10, <1>11, QuietStep, SameNotes DEF LedgerInv

\* What holds of an entry of the own launch is in the file with all that was read.
LEMMA EnrolKeeps ==
    ASSUME LedgerInv, NEW s \in Supervisors, Enrol(s)
    PROVE  LedgerInv'
  <1>1. /\ sup[s].launch = "enrolling" /\ UNCHANGED <<holder, started, missed>>
        /\ ledger' = sup[s].held \cup {EntryOf(s)}
        /\ torn' = (torn \/ ledger # sup[s].held)
        /\ kids' = {IF IsMine(s, k) THEN [k EXCEPT !.enrolled = TRUE] ELSE k : k \in kids}
        /\ sup' = [sup EXCEPT ![s].launch = "enrolled", ![s].held = {}]
    BY DEF Enrol, Write
  <1>2. /\ EntryOf(s) \in Entry
        /\ \A o \in sup[s].me : o = Owner(s)
        /\ \A c \in sup[s].child : c = Child(s)
    BY <1>1, EntryIsTrue
  <1>3. sup[s] \in SupState
    BY DEF LedgerInv, Types
  <1>4. /\ \A t \in Supervisors \ {s} : sup'[t] = sup[t]
        /\ sup'[s] = [sup[s] EXCEPT !.launch = "enrolled", !.held = {}]
    BY <1>1 DEF LedgerInv, Types
  <1>5. /\ sup'[s].me = sup[s].me /\ sup'[s].child = sup[s].child /\ sup'[s].held = {}
        /\ sup'[s].launch = "enrolled" /\ sup'[s].seen = sup[s].seen
        /\ SameSweep(sup[s], sup'[s])
    BY <1>3, <1>4 DEF SupState, SameSweep
  <1>6. \A k \in kids : k \in Kid
    BY DEF LedgerInv, Types
  <1>7. /\ \A k \in kids' : \E j \in kids :
             /\ k.id = j.id /\ k.owner = j.owner /\ k.jobbed = j.jobbed /\ k.resumed = j.resumed
             /\ k \in Kid /\ (k.enrolled => j.enrolled \/ IsMine(s, j))
        /\ \A j \in kids : \E k \in kids' : j.id = k.id /\ j.owner = k.owner
    <2> DEFINE Set(j) == IF IsMine(s, j) THEN [j EXCEPT !.enrolled = TRUE] ELSE j
    <2>1. kids' = {Set(k) : k \in kids}
      BY <1>1
    <2>2. ASSUME NEW j \in kids
          PROVE  /\ Set(j).id = j.id /\ Set(j).owner = j.owner
                 /\ Set(j).jobbed = j.jobbed /\ Set(j).resumed = j.resumed
                 /\ Set(j) \in Kid /\ (Set(j).enrolled => j.enrolled \/ IsMine(s, j))
      BY <1>6 DEF Kid
    <2> HIDE DEF Set
    <2> QED
      BY <2>1, <2>2
  <1>8. Types'
    BY <1>1, <1>2, <1>3, <1>4, <1>7 DEF LedgerInv, Types, SupState, Launches
  <1>9. Recorded' \subseteq Recorded \cup {EntryOf(s)}
    <2>1. sup[s].held \subseteq Recorded /\ sup[s].seen \subseteq Recorded
      BY DEF Recorded
    <2>2. PICK X : X = {EntryOf(s)}
      OBVIOUS
    <2>3. /\ ledger' \subseteq Recorded \cup X /\ sup'[s].held \subseteq Recorded \cup X
          /\ sup'[s].seen \subseteq Recorded \cup X
      BY <1>1, <1>5, <2>1, <2>2
    <2> QED
      BY <1>4, <2>2, <2>3, RecordedGrows
  <1>10. Quiet(s)
    <2>1. <<sup[s].launch, sup'[s].launch>> \in GoesOn
      BY <1>1, <1>5 DEF GoesOn
    <2>2. SameKids
      BY <1>7 DEF SameKids
    <2> QED
      BY <1>1, <1>4, <1>5, <1>9, <2>1, <2>2 DEF Quiet
  <1>11. Jobbed(sup[s])'
    BY <1>5 DEF Jobbed
  <1>12. Sweeps(sup[s])'
    BY <1>1, <1>5, SweepsStay
  <1>13. Noted'
    <2> SUFFICES ASSUME ~torn', NEW k \in kids', k.enrolled, k.id \notin missed'
                 PROVE  [child |-> k.id, owner |-> k.owner] \in ledger'
      BY DEF Noted
    <2>1. ~torn /\ ledger = sup[s].held
      BY <1>1 DEF LedgerInv, Types
    <2>2. PICK j \in kids : k.id = j.id /\ k.owner = j.owner /\ (j.enrolled \/ IsMine(s, j))
      BY <1>7
    <2>3. CASE j.enrolled
      BY <1>1, <2>1, <2>2, <2>3 DEF LedgerInv, Noted
    <2>4. CASE IsMine(s, j)
      <3>1. j.owner \in sup[s].me /\ j.id \in sup[s].child
        BY <2>4 DEF LedgerInv, Launching, Custody, IsMine
      <3> QED
        BY <1>1, <1>2, <2>2, <3>1 DEF EntryOf
    <2> QED
      BY <2>2, <2>3, <2>4
  <1> QED
    BY <1>8, <1>10, <1>11, <1>12, <1>13, QuietStep

LEMMA NameJobKeeps ==
    ASSUME LedgerInv, NEW s \in Supervisors, NameJob(s)
    PROVE  LedgerInv'
  <1>1. /\ sup[s].launch = "naming" /\ UNCHANGED <<holder, started, kids, missed>>
        /\ ledger' = sup[s].held \cup {EntryOf(s)}
        /\ torn' = (torn \/ ledger # sup[s].held)
        /\ sup' = [sup EXCEPT ![s].launch = "named", ![s].held = {}]
    BY DEF NameJob, Write
  <1>2. EntryOf(s) \in Entry
    BY <1>1, EntryIsTrue
  <1>3. sup[s] \in SupState
    BY DEF LedgerInv, Types
  <1>4. /\ \A t \in Supervisors \ {s} : sup'[t] = sup[t]
        /\ sup'[s] = [sup[s] EXCEPT !.launch = "named", !.held = {}]
    BY <1>1 DEF LedgerInv, Types
  <1>5. /\ sup'[s].me = sup[s].me /\ sup'[s].child = sup[s].child /\ sup'[s].held = {}
        /\ sup'[s].launch = "named" /\ sup'[s].seen = sup[s].seen
        /\ SameSweep(sup[s], sup'[s])
    BY <1>3, <1>4 DEF SupState, SameSweep
  <1>6. Types'
    BY <1>1, <1>2, <1>3, <1>4 DEF LedgerInv, Types, SupState, Launches
  <1>7. Recorded' \subseteq Recorded \cup {EntryOf(s)}
    <2>1. sup[s].held \subseteq Recorded /\ sup[s].seen \subseteq Recorded
      BY DEF Recorded
    <2>2. PICK X : X = {EntryOf(s)}
      OBVIOUS
    <2>3. /\ ledger' \subseteq Recorded \cup X /\ sup'[s].held \subseteq Recorded \cup X
          /\ sup'[s].seen \subseteq Recorded \cup X
      BY <1>1, <1>5, <2>1, <2>2
    <2> QED
      BY <1>4, <2>2, <2>3, RecordedGrows
  <1>8. Quiet(s)
    <2>1. <<sup[s].launch, sup'[s].launch>> \in GoesOn
      BY <1>1, <1>5 DEF GoesOn
    <2> QED
      BY <1>1, <1>4, <1>5, <1>7, <2>1, SameKidsStay DEF Quiet
  <1>9. Jobbed(sup[s])'
    BY <1>1, <1>5 DEF LedgerInv, Launching, Jobbed
  <1>10. Sweeps(sup[s])'
    BY <1>1, <1>5, SweepsStay
  <1>11. Noted'
    <2>1. ~torn' => ~torn /\ ledger = sup[s].held
      BY <1>1 DEF LedgerInv, Types
    <2> QED
      BY <1>1, <2>1 DEF LedgerInv, Noted
  <1> QED
    BY <1>6, <1>8, <1>9, <1>10, <1>11, QuietStep

LEMMA EnrolFailsKeeps ==
    ASSUME LedgerInv, NEW s \in Supervisors, EnrolFails(s)
    PROVE  LedgerInv'
  <1>1. /\ UNCHANGED <<holder, started, kids, ledger, missed, torn>>
        /\ sup' = [sup EXCEPT ![s].launch = "idle", ![s].child = {}, ![s].held = {}]
    BY DEF EnrolFails
  <1>2. sup[s] \in SupState
    BY DEF LedgerInv, Types
  <1>3. /\ \A t \in Supervisors \ {s} : sup'[t] = sup[t]
        /\ sup'[s] = [sup[s] EXCEPT !.launch = "idle", !.child = {}, !.held = {}]
    BY <1>1 DEF LedgerInv, Types
  <1>4. /\ sup'[s].me = sup[s].me /\ sup'[s].child = {} /\ sup'[s].held = {}
        /\ sup'[s].launch = "idle" /\ sup'[s].seen = sup[s].seen
        /\ SameSweep(sup[s], sup'[s])
    BY <1>2, <1>3 DEF SupState, SameSweep
  <1>5. Types'
    BY <1>1, <1>2, <1>3 DEF LedgerInv, Types, SupState, Launches
  <1>6. Recorded' \subseteq Recorded
    <2>1. ledger \subseteq Recorded /\ sup[s].seen \subseteq Recorded
      BY DEF Recorded
    <2> QED
      BY <1>1, <1>3, <1>4, <2>1, RecordedGrows, Zenon
  <1>7. Quiet(s)
    BY <1>1, <1>3, <1>4, <1>6, SameKidsStay DEF Quiet
  <1>8. Jobbed(sup[s])'
    BY <1>4 DEF Jobbed
  <1>9. Sweeps(sup[s])'
    BY <1>1, <1>4, SweepsStay
  <1> QED
    BY <1>1, <1>5, <1>7, <1>8, <1>9, QuietStep, SameNotes DEF LedgerInv

LEMMA RemoveEntryKeeps ==
    ASSUME LedgerInv, NEW s \in Supervisors, RemoveEntry(s)
    PROVE  LedgerInv'
  <1>1. /\ sup[s].launch = "removing" /\ UNCHANGED <<holder, started, kids, missed>>
        /\ \/ ledger' = sup[s].held \ {EntryOf(s)} /\ torn' = (torn \/ ledger # sup[s].held)
           \/ UNCHANGED <<ledger, torn>>
        /\ sup' = [sup EXCEPT ![s].launch = "idle", ![s].child = {}, ![s].held = {}]
    BY DEF RemoveEntry, Write
  <1>2. sup[s] \in SupState
    BY DEF LedgerInv, Types
  <1>3. /\ \A t \in Supervisors \ {s} : sup'[t] = sup[t]
        /\ sup'[s] = [sup[s] EXCEPT !.launch = "idle", !.child = {}, !.held = {}]
    BY <1>1 DEF LedgerInv, Types
  <1>4. /\ sup'[s].me = sup[s].me /\ sup'[s].child = {} /\ sup'[s].held = {}
        /\ sup'[s].launch = "idle" /\ sup'[s].seen = sup[s].seen
        /\ SameSweep(sup[s], sup'[s])
    BY <1>2, <1>3 DEF SupState, SameSweep
  <1>5. Types'
    BY <1>1, <1>2, <1>3 DEF LedgerInv, Types, SupState, Launches
  <1>6. Recorded' \subseteq Recorded
    <2>1. ledger \subseteq Recorded /\ sup[s].seen \subseteq Recorded /\ sup[s].held \subseteq Recorded
      BY DEF Recorded
    <2>2. ledger' \subseteq Recorded
      BY <1>1, <2>1
    <2> QED
      BY <1>3, <1>4, <2>1, <2>2, RecordedGrows, Zenon
  <1>7. Quiet(s)
    BY <1>1, <1>3, <1>4, <1>6, SameKidsStay DEF Quiet
  <1>8. Jobbed(sup[s])'
    BY <1>4 DEF Jobbed
  <1>9. Sweeps(sup[s])'
    BY <1>1, <1>4, SweepsStay
  <1>10. Noted'
    <2>1. CASE UNCHANGED <<ledger, torn>>
      BY <1>1, <2>1, SameNotes DEF LedgerInv
    <2>2. CASE ledger' = sup[s].held \ {EntryOf(s)} /\ torn' = (torn \/ ledger # sup[s].held)
      <3> SUFFICES ASSUME ~torn', NEW k \in kids, k.enrolled, k.id \notin missed
                   PROVE  [child |-> k.id, owner |-> k.owner] \in ledger'
        BY <1>1 DEF Noted
      <3>1. ~torn /\ ledger = sup[s].held
        BY <2>2 DEF LedgerInv, Types
      <3>2. EntryOf(s).child \in sup[s].child
        BY <1>1, EntryIsTrue
      <3>3. k.id # EntryOf(s).child
        BY <1>1, <3>2 DEF LedgerInv, KidsLive, Launching, Custody
      <3>4. [child |-> k.id, owner |-> k.owner] \in ledger
        BY <3>1 DEF LedgerInv, Noted
      <3>5. [child |-> k.id, owner |-> k.owner] # EntryOf(s)
        BY <3>3
      <3> QED
        BY <2>2, <3>1, <3>4, <3>5
    <2> QED
      BY <1>1, <2>1, <2>2
  <1> QED
    BY <1>5, <1>7, <1>8, <1>9, <1>10, QuietStep

LEMMA AssignJobKeeps ==
    ASSUME LedgerInv, NEW s \in Supervisors, AssignJob(s)
    PROVE  LedgerInv'
  <1>1. /\ sup[s].launch = "enrolled" /\ UNCHANGED <<holder, started, ledger, missed, torn>>
        /\ kids' = {IF IsMine(s, k) THEN [k EXCEPT !.jobbed = TRUE] ELSE k : k \in kids}
        /\ sup' = [sup EXCEPT ![s].launch = "assigned"]
    BY DEF AssignJob
  <1>2. sup[s] \in SupState
    BY DEF LedgerInv, Types
  <1>3. /\ \A t \in Supervisors \ {s} : sup'[t] = sup[t]
        /\ sup'[s] = [sup[s] EXCEPT !.launch = "assigned"]
    BY <1>1 DEF LedgerInv, Types
  <1>4. /\ sup'[s].me = sup[s].me /\ sup'[s].child = sup[s].child /\ sup'[s].held = sup[s].held
        /\ sup'[s].launch = "assigned" /\ sup'[s].seen = sup[s].seen
        /\ SameSweep(sup[s], sup'[s])
    BY <1>2, <1>3 DEF SupState, SameSweep
  <1>5. \A k \in kids : k \in Kid
    BY DEF LedgerInv, Types
  <1>6. /\ \A k \in kids' : \E j \in kids :
             /\ k.id = j.id /\ k.owner = j.owner /\ k.enrolled = j.enrolled /\ k.resumed = j.resumed
             /\ k \in Kid /\ (j.jobbed \/ IsMine(s, j) => k.jobbed)
        /\ \A j \in kids : \E k \in kids' : j.id = k.id /\ j.owner = k.owner
    <2> DEFINE Set(j) == IF IsMine(s, j) THEN [j EXCEPT !.jobbed = TRUE] ELSE j
    <2>1. kids' = {Set(k) : k \in kids}
      BY <1>1
    <2>2. ASSUME NEW j \in kids
          PROVE  /\ Set(j).id = j.id /\ Set(j).owner = j.owner
                 /\ Set(j).enrolled = j.enrolled /\ Set(j).resumed = j.resumed
                 /\ Set(j) \in Kid /\ (j.jobbed \/ IsMine(s, j) => Set(j).jobbed)
      BY <1>5 DEF Kid
    <2> HIDE DEF Set
    <2> QED
      BY <2>1, <2>2
  <1>7. Types'
    BY <1>1, <1>2, <1>3, <1>6 DEF LedgerInv, Types, SupState, Launches
  <1>8. Recorded' \subseteq Recorded
    <2>1. ledger \subseteq Recorded /\ sup[s].seen \subseteq Recorded /\ sup[s].held \subseteq Recorded
      BY DEF Recorded
    <2> QED
      BY <1>1, <1>3, <1>4, <2>1, RecordedGrows, Zenon
  <1>9. Quiet(s)
    <2>1. <<sup[s].launch, sup'[s].launch>> \in GoesOn
      BY <1>1, <1>4 DEF GoesOn
    <2>2. SameKids
      BY <1>6 DEF SameKids
    <2> QED
      BY <1>1, <1>3, <1>4, <1>8, <2>1, <2>2 DEF Quiet
  <1>10. Jobbed(sup[s])'
    BY <1>4, <1>6 DEF Jobbed, IsMine
  <1>11. Sweeps(sup[s])'
    BY <1>1, <1>4, SweepsStay
  <1>12. Noted'
    BY <1>1, <1>6 DEF LedgerInv, Noted
  <1> QED
    BY <1>7, <1>9, <1>10, <1>11, <1>12, QuietStep

\* The child runs only now: its supervisor is alive, and a job ties it to it.
LEMMA ResumeThreadKeeps ==
    ASSUME LedgerInv, NEW s \in Supervisors, ResumeThread(s)
    PROVE  LedgerInv'
  <1>1. /\ sup[s].launch = "named" /\ UNCHANGED <<holder, started, ledger, missed, torn>>
        /\ kids' = {IF IsMine(s, k) THEN [k EXCEPT !.resumed = TRUE] ELSE k : k \in kids}
        /\ sup' = [sup EXCEPT ![s].launch = "watching"]
    BY DEF ResumeThread
  <1>2. sup[s] \in SupState
    BY DEF LedgerInv, Types
  <1>3. /\ \A t \in Supervisors \ {s} : sup'[t] = sup[t]
        /\ sup'[s] = [sup[s] EXCEPT !.launch = "watching"]
    BY <1>1 DEF LedgerInv, Types
  <1>4. /\ sup'[s].me = sup[s].me /\ sup'[s].child = sup[s].child /\ sup'[s].held = sup[s].held
        /\ sup'[s].launch = "watching" /\ sup'[s].seen = sup[s].seen
        /\ SameSweep(sup[s], sup'[s])
    BY <1>2, <1>3 DEF SupState, SameSweep
  <1>5. \A k \in kids : k \in Kid
    BY DEF LedgerInv, Types
  <1>6. \A k \in kids : IsMine(s, k) => k.jobbed /\ Alive(k.owner)
    BY <1>1 DEF LedgerInv, Launching, Jobbed, Custody, Supervises, IsMine
  <1>7. /\ \A k \in kids' : \E j \in kids :
             /\ k.id = j.id /\ k.owner = j.owner /\ k.enrolled = j.enrolled /\ k.jobbed = j.jobbed
             /\ k \in Kid /\ (k.resumed => j.resumed \/ IsMine(s, j))
        /\ \A j \in kids : \E k \in kids' : j.id = k.id /\ j.owner = k.owner
    <2> DEFINE Set(j) == IF IsMine(s, j) THEN [j EXCEPT !.resumed = TRUE] ELSE j
    <2>1. kids' = {Set(k) : k \in kids}
      BY <1>1
    <2>2. ASSUME NEW j \in kids
          PROVE  /\ Set(j).id = j.id /\ Set(j).owner = j.owner
                 /\ Set(j).enrolled = j.enrolled /\ Set(j).jobbed = j.jobbed
                 /\ Set(j) \in Kid /\ (Set(j).resumed => j.resumed \/ IsMine(s, j))
      BY <1>5 DEF Kid
    <2> HIDE DEF Set
    <2> QED
      BY <2>1, <2>2
  <1>8. Types'
    BY <1>1, <1>2, <1>3, <1>7 DEF LedgerInv, Types, SupState, Launches
  <1>9. Recorded' \subseteq Recorded
    <2>1. ledger \subseteq Recorded /\ sup[s].seen \subseteq Recorded /\ sup[s].held \subseteq Recorded
      BY DEF Recorded
    <2> QED
      BY <1>1, <1>3, <1>4, <2>1, RecordedGrows, Zenon
  <1>10. Quiet(s)
    <2>1. <<sup[s].launch, sup'[s].launch>> \in GoesOn
      BY <1>1, <1>4 DEF GoesOn
    <2>2. SameKids
      BY <1>6, <1>7 DEF SameKids
    <2> QED
      BY <1>1, <1>3, <1>4, <1>9, <2>1, <2>2 DEF Quiet
  <1>11. Jobbed(sup[s])'
    BY <1>1, <1>4, <1>7 DEF LedgerInv, Launching, Jobbed
  <1>12. Sweeps(sup[s])'
    BY <1>1, <1>4, SweepsStay
  <1>13. Noted'
    BY <1>1, <1>7 DEF LedgerInv, Noted
  <1> QED
    BY <1>8, <1>10, <1>11, <1>12, <1>13, QuietStep

-----------------------------------------------------------------------------
(* Steps of a reconciliation in which nobody dies.                           *)

SameLaunch(x, y) == y.me = x.me /\ y.child = x.child /\ y.held = x.held /\ y.launch = x.launch

LEMMA SweepStep ==
    ASSUME LedgerInv, NEW s \in Supervisors, NEW y \in SupState,
           sup' = [sup EXCEPT ![s] = y], SameLaunch(sup[s], y),
           UNCHANGED <<holder, started, kids>>,
           ledger' \subseteq Recorded, y.seen \subseteq Recorded, torn' \in BOOLEAN,
           missed \subseteq missed', missed' \subseteq Identity,
           Sweeps(y)', Noted'
    PROVE  LedgerInv'
  <1>1. /\ \A t \in Supervisors \ {s} : sup'[t] = sup[t]
        /\ sup'[s] = y
    BY DEF LedgerInv, Types
  <1>2. Types'
    <2>1. Recorded \subseteq Entry
      BY Recordable DEF LedgerInv
    <2> QED
      BY <2>1 DEF LedgerInv, Types
  <1>3. Recorded' \subseteq Recorded
    <2>1. sup[s].held \subseteq Recorded
      BY DEF Recorded
    <2>2. sup'[s].held \subseteq Recorded /\ sup'[s].seen \subseteq Recorded
      BY <1>1, <2>1 DEF SameLaunch
    <2> QED
      BY <1>1, <2>2, RecordedGrows, Zenon
  <1>4. Quiet(s)
    BY <1>1, <1>3, SameKidsStay DEF Quiet, SameLaunch
  <1>5. Jobbed(sup[s])'
    BY <1>1 DEF LedgerInv, Launching, Jobbed, SameLaunch
  <1> QED
    BY <1>1, <1>2, <1>4, <1>5, QuietStep

LEMMA SweepReadsKeeps ==
    ASSUME LedgerInv, NEW s \in Supervisors, SweepReads(s)
    PROVE  LedgerInv'
  <1>1. PICK read \in {ledger, {}} :
            sup' = [sup EXCEPT ![s].sweep = "judging", ![s].seen = read, ![s].todo = read]
    BY DEF SweepReads
  <1>2. UNCHANGED <<holder, started, kids, ledger, missed, torn>> /\ sup[s].sweep = "unread"
    BY DEF SweepReads
  <1>3. PICK x, y : /\ x = sup[s]
                    /\ y = [sup[s] EXCEPT !.sweep = "judging", !.seen = read, !.todo = read]
    OBVIOUS
  <1>4. x \in SupState /\ Sweeps(x) /\ sup \in [Supervisors -> SupState] /\ read \subseteq Entry
    BY <1>1, <1>3 DEF LedgerInv, Types, Sweeping
  <1>5. sup' = [sup EXCEPT ![s] = y]
    BY <1>1, <1>3, <1>4 DEF SupState
  <1>6. /\ y \in SupState /\ SameLaunch(x, y)
        /\ y.seen = read /\ y.todo = read /\ y.sweep = "judging"
        /\ y.keep = x.keep /\ y.mark = x.mark /\ y.since = x.since /\ y.targets = x.targets
    BY <1>3, <1>4 DEF SupState, SameLaunch
  <1>7. Sweeps(y)'
    <2>1. x.me # {} /\ x.mark = {} /\ x.targets = {} /\ x.keep = {}
      BY <1>2, <1>3, <1>4 DEF Sweeps, Keeps, Hunts
    <2>2. Keeps(y)'
      BY <1>6, <2>1 DEF Keeps
    <2>3. Hunts(y)'
      BY <1>2, <1>4, <1>6, <2>1 DEF Hunts, Sweeps
    <2> QED
      BY <1>6, <2>1, <2>2, <2>3 DEF Sweeps, SameLaunch
  <1>8. ledger \subseteq Recorded
    BY DEF Recorded
  <1>9. Noted' /\ missed' \subseteq Identity /\ torn' \in BOOLEAN
    BY <1>2, SameNotes DEF LedgerInv, Types
  <1> QED
    BY <1>1, <1>2, <1>3, <1>5, <1>6, <1>7, <1>8, <1>9, SweepStep

\* What is written back is what was read, without what was seen dead or was killed.
LEMMA SweepWritesKeeps ==
    ASSUME LedgerInv, NEW s \in Supervisors, SweepWrites(s)
    PROVE  LedgerInv'
  <1>1. /\ sup[s].sweep = "judging" /\ sup[s].todo = {} /\ UNCHANGED <<holder, started, kids, missed>>
        /\ ledger' = sup[s].keep /\ torn' = (torn \/ ledger # sup[s].seen)
        /\ sup' = [sup EXCEPT ![s].sweep = "done", ![s].seen = {}, ![s].keep = {}]
    BY DEF SweepWrites, Write
  <1>2. PICK x, y : /\ x = sup[s]
                    /\ y = [sup[s] EXCEPT !.sweep = "done", !.seen = {}, !.keep = {}]
    OBVIOUS
  <1>3. x \in SupState /\ Sweeps(x) /\ sup \in [Supervisors -> SupState]
    BY <1>2 DEF LedgerInv, Types, Sweeping
  <1>4. sup' = [sup EXCEPT ![s] = y]
    BY <1>1, <1>2, <1>3 DEF SupState
  <1>5. /\ y \in SupState /\ SameLaunch(x, y)
        /\ y.seen = {} /\ y.todo = x.todo /\ y.sweep = "done"
        /\ y.keep = {} /\ y.mark = x.mark /\ y.since = x.since /\ y.targets = x.targets
    BY <1>2, <1>3 DEF SupState, SameLaunch
  <1>6. x.mark = {} /\ x.targets = {} /\ x.todo = {} /\ x.keep \subseteq x.seen
    BY <1>1, <1>2, <1>3 DEF Sweeps, Keeps, Hunts
  <1>7. Sweeps(y)'
    <2>1. Keeps(y)'
      BY <1>5, <1>6 DEF Keeps
    <2>2. Hunts(y)'
      BY <1>1, <1>3, <1>5, <1>6 DEF Hunts, Sweeps
    <2> QED
      BY <1>5, <2>1, <2>2 DEF Sweeps
  <1>8. ledger' \subseteq Recorded
    BY <1>1, <1>2, <1>6 DEF Recorded
  <1>9. Noted'
    <2> SUFFICES ASSUME ~torn', NEW k \in kids, k.enrolled, k.id \notin missed
                 PROVE  [child |-> k.id, owner |-> k.owner] \in ledger'
      BY <1>1 DEF Noted
    <2>1. ~torn /\ ledger = sup[s].seen
      BY <1>1 DEF LedgerInv, Types
    <2>2. PICK e \in x.seen : e = [child |-> k.id, owner |-> k.owner]
      BY <1>2, <2>1 DEF LedgerInv, Noted
    <2>3. Alive(e.child) /\ e.child \notin missed
      BY <2>2 DEF LedgerInv, KidsLive
    <2>4. e \in x.keep
      BY <1>3, <1>6, <2>3 DEF Sweeps, Keeps
    <2> QED
      BY <1>1, <1>2, <2>2, <2>4
  <1>10. missed' \subseteq Identity /\ torn' \in BOOLEAN
    BY <1>1 DEF LedgerInv, Types
  <1> QED
    BY <1>1, <1>2, <1>4, <1>5, <1>7, <1>8, <1>9, <1>10, SweepStep

\* An entry is spared, or dropped for a child that is dead.
LEMMA JudgedKeeps ==
    ASSUME LedgerInv, NEW s \in Supervisors, sup[s].sweep = "judging", NEW e \in sup[s].todo,
           NEW kept \in {{e}, {}}, Judged(s, e, kept), kept = {} => ~Alive(e.child),
           UNCHANGED <<holder, started, kids, ledger, missed, torn>>
    PROVE  LedgerInv'
  <1>1. PICK x, y : /\ x = sup[s]
                    /\ y = [sup[s] EXCEPT !.todo = @ \ {e}, !.keep = @ \cup kept]
    OBVIOUS
  <1>2. x \in SupState /\ Sweeps(x) /\ sup \in [Supervisors -> SupState]
    BY <1>1 DEF LedgerInv, Types, Sweeping
  <1>3. sup' = [sup EXCEPT ![s] = y]
    BY <1>1, <1>2 DEF SupState, Judged
  <1>4. x.todo \ {e} \subseteq Entry /\ x.keep \cup kept \subseteq Entry
    BY <1>1, <1>2 DEF SupState
  <1>5. /\ y \in SupState /\ SameLaunch(x, y)
        /\ y.seen = x.seen /\ y.todo = x.todo \ {e} /\ y.sweep = x.sweep
        /\ y.keep = x.keep \cup kept
        /\ y.mark = x.mark /\ y.since = x.since /\ y.targets = x.targets
    BY <1>1, <1>2, <1>4 DEF SupState, SameLaunch
  <1>6. Sweeps(y)'
    <2>1. x.me # {} /\ x.mark = {} /\ x.targets = {} /\ x.todo \cup x.keep \subseteq x.seen
      BY <1>1, <1>2 DEF Sweeps, Keeps, Hunts
    <2>2. y.todo \cup y.keep \cup y.mark \subseteq y.seen
      BY <1>1, <1>5, <2>1
    <2>3. \A d \in x.seen : Alive(d.child) => d \in y.todo \cup y.keep \/ d.child \in missed
      BY <1>2, <1>5, <2>1 DEF Sweeps, Keeps
    <2>4. Keeps(y)'
      BY <1>1, <1>5, <2>2, <2>3 DEF Keeps, Alive
    <2>5. Hunts(y)'
      BY <1>1, <1>2, <1>5, <2>1 DEF Hunts, Sweeps
    <2> QED
      BY <1>5, <2>1, <2>4, <2>5 DEF Sweeps, SameLaunch
  <1>7. ledger \subseteq Recorded /\ x.seen \subseteq Recorded
    BY <1>1 DEF Recorded
  <1>8. Noted' /\ missed' \subseteq Identity /\ torn' \in BOOLEAN
    BY SameNotes DEF LedgerInv, Types
  <1> QED
    BY <1>1, <1>3, <1>5, <1>6, <1>7, <1>8, SweepStep

\* At this moment the orphan is alive, and its supervisor is not.
LEMMA MarkKeeps ==
    ASSUME LedgerInv, NEW s \in Supervisors, sup[s].sweep = "judging", NEW e \in sup[s].todo,
           Mark(s, e), ~Alive(e.owner), Alive(e.child),
           UNCHANGED <<holder, started, kids, ledger, missed, torn>>
    PROVE  LedgerInv'
  <1>1. PICK x, y : /\ x = sup[s]
                    /\ y = [sup[s] EXCEPT !.todo = @ \ {e}, !.sweep = "killing",
                                          !.mark = {e}, !.since = started]
    OBVIOUS
  <1>2. x \in SupState /\ Sweeps(x) /\ sup \in [Supervisors -> SupState] /\ started \in 0 .. MaxStarts
    BY <1>1 DEF LedgerInv, Types, Sweeping
  <1>3. sup' = [sup EXCEPT ![s] = y]
    BY <1>1, <1>2 DEF SupState, Mark
  <1>4. x.todo \ {e} \subseteq Entry /\ {e} \subseteq Entry
    BY <1>1, <1>2 DEF SupState
  <1>5. /\ y \in SupState /\ SameLaunch(x, y)
        /\ y.seen = x.seen /\ y.todo = x.todo \ {e} /\ y.sweep = "killing" /\ y.keep = x.keep
        /\ y.mark = {e} /\ y.since = started /\ y.targets = x.targets
    BY <1>1, <1>2, <1>4 DEF SupState, SameLaunch
  <1>6. Sweeps(y)'
    <2>1. x.me # {} /\ x.mark = {} /\ x.targets = {} /\ x.todo \cup x.keep \subseteq x.seen
      BY <1>1, <1>2 DEF Sweeps, Keeps, Hunts
    <2>2. y.todo \cup y.keep \cup y.mark \subseteq y.seen
      BY <1>1, <1>5, <2>1
    <2>3. \A d \in x.seen : Alive(d.child) => d \in y.todo \cup y.keep \cup y.mark \/ d.child \in missed
      BY <1>2, <1>5, <2>1 DEF Sweeps, Keeps
    <2>4. Keeps(y)'
      BY <1>5, <2>2, <2>3 DEF Keeps, Alive
    <2>5. Held(e.child, started)
      BY DEF Alive, Held
    <2>6. Hunts(y)'
      BY <1>2, <1>5, <2>1, <2>5 DEF Hunts, Held, Alive
    <2> QED
      BY <1>5, <2>1, <2>4, <2>6 DEF Sweeps, SameLaunch
  <1>7. ledger \subseteq Recorded /\ x.seen \subseteq Recorded
    BY <1>1 DEF Recorded
  <1>8. Noted' /\ missed' \subseteq Identity /\ torn' \in BOOLEAN
    BY SameNotes DEF LedgerInv, Types
  <1> QED
    BY <1>1, <1>3, <1>5, <1>6, <1>7, <1>8, SweepStep

LEMMA JudgeKeeps ==
    ASSUME LedgerInv, NEW s \in Supervisors, Judge(s)
    PROVE  LedgerInv'
  <1>1. PICK e \in sup[s].todo : Verdict(s, e)
    BY DEF Judge
  <1>2. sup[s].sweep = "judging" /\ UNCHANGED <<holder, started, kids, ledger, missed, torn>>
    BY DEF Judge
  <1>3. CASE Spare(s, e)
    BY <1>2, <1>3, JudgedKeeps DEF Spare
  <1>4. CASE Drop(s, e) /\ ~Alive(e.child)
    BY <1>2, <1>4, JudgedKeeps DEF Drop
  <1>5. CASE Mark(s, e) /\ Alive(e.child) /\ ~Alive(e.owner)
    BY <1>2, <1>5, MarkKeeps
  <1> QED
    BY <1>1, <1>3, <1>4, <1>5 DEF Verdict

\* Who is to be killed is the orphan, and what has the pids below its own now.
LEMMA TakeSnapshotKeeps ==
    ASSUME LedgerInv, NEW s \in Supervisors, TakeSnapshot(s)
    PROVE  LedgerInv'
  <1>1. PICK T : /\ T = {Marked(s).child} \cup {Running(q) : q \in Below(Marked(s).child.pid)}
                 /\ sup' = [sup EXCEPT ![s].sweep = "walking", ![s].targets = T]
    BY DEF TakeSnapshot
  <1>2. UNCHANGED <<holder, started, kids, ledger, missed, torn>> /\ sup[s].sweep = "killing"
    BY DEF TakeSnapshot
  <1>3. PICK x, y : x = sup[s] /\ y = [sup[s] EXCEPT !.sweep = "walking", !.targets = T]
    OBVIOUS
  <1>4. /\ x \in SupState /\ Sweeps(x) /\ sup \in [Supervisors -> SupState]
        /\ holder \in [Pids -> 0 .. MaxStarts]
    BY <1>3 DEF LedgerInv, Types, Sweeping
  <1>5. Marked(s) \in x.mark
    <2>1. x.mark # {}
      BY <1>2, <1>3, <1>4 DEF Sweeps, Hunts
    <2> QED
      BY <1>3, <2>1 DEF Marked
  <1>6. \A t \in T : /\ t \in [pid : Pids, start : 0 .. MaxStarts]
                     /\ Held(t, x.since)
    <2>1. Marked(s).child \in Identity /\ Held(Marked(s).child, x.since)
      BY <1>4, <1>5 DEF SupState, Entry, Sweeps, Hunts
    <2>2. ASSUME NEW q \in Pids
          PROVE  Running(q) \in [pid : Pids, start : 0 .. MaxStarts] /\ Held(Running(q), x.since)
      BY <1>4 DEF Running, Held
    <2>3. \A q \in Below(Marked(s).child.pid) : q \in Pids
      BY DEF Below
    <2>4. Marked(s).child \in [pid : Pids, start : 0 .. MaxStarts]
      BY <2>1 DEF Identity
    <2> QED
      BY <1>1, <2>1, <2>2, <2>3, <2>4
  <1>7. sup' = [sup EXCEPT ![s] = y]
    BY <1>1, <1>3, <1>4 DEF SupState
  <1>8. /\ y \in SupState /\ SameLaunch(x, y)
        /\ y.seen = x.seen /\ y.todo = x.todo /\ y.sweep = "walking" /\ y.keep = x.keep
        /\ y.mark = x.mark /\ y.since = x.since /\ y.targets = T
    BY <1>3, <1>4, <1>6 DEF SupState, SameLaunch
  <1>9. Sweeps(y)'
    <2>1. x.me # {}
      BY <1>2, <1>3, <1>4 DEF Sweeps
    <2>2. Keeps(y)'
      BY <1>2, <1>3, <1>4, <1>8 DEF Sweeps, Keeps, Alive
    <2>3. Hunts(y)'
      BY <1>2, <1>3, <1>4, <1>6, <1>8 DEF Sweeps, Hunts, Held, Alive
    <2> QED
      BY <1>8, <2>1, <2>2, <2>3 DEF Sweeps, SameLaunch
  <1>10. ledger \subseteq Recorded /\ x.seen \subseteq Recorded
    BY <1>3 DEF Recorded
  <1>11. Noted' /\ missed' \subseteq Identity /\ torn' \in BOOLEAN
    BY <1>2, SameNotes DEF LedgerInv, Types
  <1> QED
    BY <1>2, <1>3, <1>7, <1>8, <1>9, <1>10, <1>11, SweepStep

LEMMA MissTargetKeeps ==
    ASSUME LedgerInv, NEW s \in Supervisors, NEW t \in sup[s].targets, MissTarget(s, t),
           UNCHANGED <<started, ledger, missed, torn>>
    PROVE  LedgerInv'
  <1>1. sup' = [sup EXCEPT ![s].targets = @ \ {t}] /\ UNCHANGED <<holder, kids>>
    BY DEF MissTarget
  <1>2. PICK x, y : x = sup[s] /\ y = [sup[s] EXCEPT !.targets = @ \ {t}]
    OBVIOUS
  <1>3. x \in SupState /\ sup \in [Supervisors -> SupState]
    BY <1>2 DEF LedgerInv, Types
  <1>4. sup' = [sup EXCEPT ![s] = y]
    BY <1>1, <1>2, <1>3 DEF SupState
  <1>5. y \in SupState /\ SameLaunch(x, y) /\ SameSweep(x, y)
    BY <1>2, <1>3 DEF SupState, SameLaunch, SameSweep
  <1>6. Sweeps(y)'
    BY <1>1, <1>2, <1>5, NobodyAges, SweepsAge
  <1>7. ledger \subseteq Recorded /\ y.seen \subseteq Recorded
    BY <1>2, <1>5 DEF Recorded, SameSweep
  <1>8. Noted' /\ missed' \subseteq Identity /\ torn' \in BOOLEAN
    BY <1>1, SameNotes DEF LedgerInv, Types
  <1> QED
    BY <1>1, <1>2, <1>4, <1>5, <1>6, <1>7, <1>8, SweepStep

\* The orphan goes back among the kept, or among the missed if it is alive.
LEMMA TreeWalkedKeeps ==
    ASSUME LedgerInv, NEW s \in Supervisors, TreeWalked(s)
    PROVE  LedgerInv'
  <1>1. PICK K : /\ K = IF sup[s].hit THEN sup[s].keep ELSE sup[s].keep \cup sup[s].mark
                 /\ sup' = [sup EXCEPT ![s].sweep = "judging", ![s].mark = {}, ![s].since = 0,
                                       ![s].hit = FALSE, ![s].keep = K]
    BY DEF TreeWalked
  <1>2. /\ sup[s].sweep = "walking" /\ sup[s].targets = {}
        /\ UNCHANGED <<holder, started, kids, ledger, torn>>
    BY DEF TreeWalked
  <1>3. PICK x, y : /\ x = sup[s]
                    /\ y = [sup[s] EXCEPT !.sweep = "judging", !.mark = {}, !.since = 0,
                                          !.hit = FALSE, !.keep = K]
    OBVIOUS
  <1>4. /\ x \in SupState /\ Sweeps(x) /\ sup \in [Supervisors -> SupState]
        /\ MaxStarts \in Nat /\ missed \subseteq Identity
    BY <1>3, LedgerAssumption DEF LedgerInv, Types, Sweeping, LedgerAssumption
  <1>5. sup' = [sup EXCEPT ![s] = y]
    BY <1>1, <1>3, <1>4 DEF SupState
  <1>6. /\ x.keep \subseteq K /\ K \subseteq x.keep \cup x.mark
        /\ missed \subseteq missed' /\ missed' \subseteq Identity
        /\ \A e \in x.mark : Alive(e.child) => e \in K \/ e.child \in missed'
    <2>1. \A e \in x.mark : e.child \in Identity
      BY <1>4 DEF SupState, Entry
    <2>2. CASE sup[s].hit
      <3>1. missed' = missed \cup {id \in {e.child : e \in sup[s].mark} : Alive(id)}
        BY <2>2 DEF TreeWalked
      <3> QED
        BY <1>1, <1>3, <1>4, <2>1, <2>2, <3>1
    <2>3. CASE ~sup[s].hit
      <3>1. missed' = missed
        BY <2>3 DEF TreeWalked
      <3> QED
        BY <1>1, <1>3, <1>4, <2>3, <3>1
    <2> QED
      BY <2>2, <2>3
  <1>7. /\ y \in SupState /\ SameLaunch(x, y)
        /\ y.seen = x.seen /\ y.todo = x.todo /\ y.sweep = "judging" /\ y.keep = K
        /\ y.mark = {} /\ y.since = 0 /\ y.targets = {}
    <2>1. K \subseteq Entry
      BY <1>4, <1>6 DEF SupState
    <2>2. 0 \in 0 .. MaxStarts
      BY <1>4
    <2> QED
      BY <1>2, <1>3, <1>4, <2>1, <2>2 DEF SupState, SameLaunch
  <1>8. Sweeps(y)'
    <2>1. x.me # {} /\ x.todo \cup x.keep \cup x.mark \subseteq x.seen
      BY <1>2, <1>3, <1>4 DEF Sweeps, Keeps
    <2>3. \A e \in x.seen : Alive(e.child) => e \in y.todo \cup y.keep \/ e.child \in missed'
      BY <1>4, <1>6, <1>7 DEF Sweeps, Keeps
    <2>4. y.todo \cup y.keep \subseteq y.seen
      BY <1>6, <1>7, <2>1
    <2>5. Keeps(y)'
      BY <1>2, <1>7, <2>3, <2>4 DEF Keeps, Alive
    <2>6. Hunts(y)'
      BY <1>2, <1>7 DEF Hunts, LedgerInv, Types
    <2> QED
      BY <1>7, <2>1, <2>5, <2>6 DEF Sweeps, SameLaunch
  <1>9. ledger \subseteq Recorded /\ x.seen \subseteq Recorded
    BY <1>3 DEF Recorded
  <1>10. torn' \in BOOLEAN
    BY <1>2 DEF LedgerInv, Types
  <1>11. Noted'
    BY <1>2, <1>6, SameNotes DEF LedgerInv
  <1> QED
    BY <1>2, <1>6, <1>3, <1>5, <1>7, <1>8, <1>9, <1>10, <1>11, SweepStep

-----------------------------------------------------------------------------
(* Steps in which somebody dies.                                             *)

\* A supervisor is down, or goes on to "terminated", forgets its child or has a target less.
Fares(x, y, gone) ==
    \/ y = Down /\ x.me \subseteq gone
    \/ /\ x.me \cap gone = {} /\ SameSweep(x, y) /\ y.held \in {x.held, {}}
       /\ \/ y.child = {} /\ y.launch = "idle"
          \/ y.child = x.child /\ y.launch = x.launch
          \/ /\ y.child = x.child /\ x.child \subseteq gone
             /\ x.launch # "idle" /\ y.launch = "terminated"

Buries(gone) ==
    /\ Die(gone) /\ UNCHANGED <<started, ledger, missed, torn>>
    /\ \A t \in Supervisors : Fares(sup[t], sup'[t], gone)
    /\ \A k \in kids : k.resumed /\ k.owner \in gone => k.id \in gone

LEMMA FaresOn ==
    ASSUME NEW x, NEW gone, x.me \cap gone = {}
    PROVE  Fares(x, x, gone)
  BY DEF Fares, SameSweep

LEMMA BurialKeeps ==
    ASSUME LedgerInv, NEW gone \in SUBSET Identity, Buries(gone), sup' \in [Supervisors -> SupState]
    PROVE  LedgerInv'
  <1>1. /\ started' = started /\ ledger' = ledger /\ missed' = missed /\ torn' = torn
        /\ kids' = {k \in kids : k.id \notin gone}
        /\ \A id \in Identity : Alive(id)' <=> Alive(id) /\ id \notin gone
        /\ holder' \in [Pids -> 0 .. MaxStarts]
        /\ \A p \in Pids : holder'[p] \in {0, holder[p]}
    BY DieKills DEF Buries, LedgerInv
  <1>2. /\ Recorded \subseteq Entry /\ \A e \in Entry : e.child \in Identity /\ e.owner \in Identity
        /\ \A k \in kids : k.id \in Identity /\ k.owner \in Identity
        /\ \A t \in Supervisors : sup[t].child \subseteq Identity /\ sup[t].me \subseteq Identity
                                  /\ sup[t].seen \subseteq Recorded
    BY Recordable DEF LedgerInv, Types, Kid, SupState, Entry, Recorded
  <1>3. \A t \in Supervisors : /\ sup'[t].me \subseteq sup[t].me /\ sup'[t].child \subseteq sup[t].child
                               /\ sup'[t].held \subseteq sup[t].held /\ sup'[t].seen \subseteq sup[t].seen
                               /\ sup[t].me \subseteq sup'[t].me \cup gone
    BY DEF Buries, Fares, SameSweep, Down
  <1>4. Recorded' \subseteq Recorded
    BY <1>1, <1>3 DEF Recorded
  <1>5. Children' \subseteq Children
    BY <1>1, <1>3, <1>4 DEF Children
  <1>6. Owners' \subseteq Owners
    BY <1>1, <1>3, <1>4 DEF Owners
  <1>7. Types' /\ Identities'
    <2>1. Types'
      BY <1>1 DEF LedgerInv, Types
    <2> QED
      BY <1>1, <1>5, <1>6, <2>1, NoNewIdentity DEF LedgerInv
  <1>8. Distinct'
    BY <1>3 DEF LedgerInv, Distinct
  <1>9. KidsLive' /\ Owned'
    <2>1. KidsLive'
      BY <1>1, <1>2 DEF LedgerInv, KidsLive, Buries
    <2>2. Owned'
      BY <1>1, <1>2, <1>3 DEF LedgerInv, Owned
    <2> QED
      BY <2>1, <2>2
  <1>10. Truthful'
    BY <1>1, <1>2, <1>4 DEF LedgerInv, Truthful
  <1>11. Noted'
    BY <1>1 DEF LedgerInv, Noted
  <1>12. Ages
    BY <1>1 DEF LedgerInv, Types, Ages
  <1>13. ASSUME NEW t \in Supervisors
         PROVE  Supervises(sup[t])' /\ Custody(sup[t])' /\ Jobbed(sup[t])' /\ Sweeps(sup[t])'
    <2>1. PICK x, y : x = sup[t] /\ y = sup'[t]
      OBVIOUS
    <2>2. Supervises(x) /\ Custody(x) /\ Jobbed(x)
      BY <2>1 DEF LedgerInv, Launching
    <2>3. CASE y = Down
      <3>1. started' \in Nat
        BY <1>1 DEF LedgerInv, Types
      <3>2. Supervises(y)' /\ Custody(y)' /\ Jobbed(y)'
        BY <2>3 DEF Down, Supervises, Custody, Jobbed
      <3>3. Sweeps(y)'
        BY <2>3, <3>1 DEF Down, Sweeps, Keeps, Hunts
      <3> QED
        BY <2>1, <3>2, <3>3
    <2>4. CASE /\ x.me \cap gone = {} /\ SameSweep(x, y)
               /\ \/ y.child = {} /\ y.launch = "idle"
                  \/ y.child = x.child /\ y.launch = x.launch
                  \/ /\ y.child = x.child /\ x.child \subseteq gone
                     /\ x.launch # "idle" /\ y.launch = "terminated"
      <3>1. x.child \subseteq Identity /\ x.me \subseteq Identity /\ y.me = x.me
        BY <1>2, <2>1, <2>4 DEF SameSweep
      <3>2. Supervises(y)'
        BY <1>1, <2>2, <2>4, <3>1 DEF Supervises
      <3>3. Custody(y)'
        BY <1>1, <2>2, <2>4, <3>1 DEF Custody
      <3>4. Jobbed(y)'
        BY <1>1, <2>2, <2>4 DEF Jobbed
      <3>5. Sweeps(y)'
        BY <1>1, <1>12, <2>1, <2>4, SweepsAge
      <3> QED
        BY <2>1, <3>2, <3>3, <3>4, <3>5
    <2> QED
      BY <2>1, <2>3, <2>4 DEF Buries, Fares
  <1> QED
    BY <1>7, <1>8, <1>9, <1>10, <1>11, <1>13 DEF LedgerInv, Launching, Sweeping

LEMMA ChildIsNoSupervisor ==
    ASSUME LedgerInv, NEW c \in Children
    PROVE  /\ \A t \in Supervisors : c \notin sup[t].me
           /\ \A k \in kids : k.owner # c
  BY DEF LedgerInv, Identities, Owners

\* Whoever dies without a supervisor dying leaves the supervisors as they are.
LEMMA NoSupervisorDies ==
    ASSUME LedgerInv, NEW gone \in SUBSET Children, Die(gone), UNCHANGED <<started, ledger, missed, torn>>,
           \A t \in Supervisors : sup[t].me \cap gone = {} => Fares(sup[t], sup'[t], gone),
           sup' \in [Supervisors -> SupState]
    PROVE  LedgerInv'
  <1>1. /\ \A t \in Supervisors : sup[t].me \cap gone = {}
        /\ \A j \in kids : j.owner \notin gone
    BY ChildIsNoSupervisor
  <1>2. gone \in SUBSET Identity
    BY Recordable DEF LedgerInv
  <1>3. Buries(gone)
    BY <1>1 DEF Buries
  <1> QED
    BY <1>2, <1>3, BurialKeeps

\* The child of a launch is terminated, or goes with the handle of its job.
LEMMA AssignFailsKeeps ==
    ASSUME LedgerInv, NEW s \in Supervisors, AssignFails(s) \/ Terminate(s)
    PROVE  LedgerInv'
  <1>1. /\ sup[s].launch # "idle" /\ Die(sup[s].child) /\ UNCHANGED <<started, ledger, missed, torn>>
        /\ sup' = [sup EXCEPT ![s].launch = "terminated"]
    BY DEF AssignFails, Terminate
  <1>2. sup[s] \in SupState
    BY DEF LedgerInv, Types
  <1>3. /\ \A t \in Supervisors \ {s} : sup'[t] = sup[t]
        /\ sup'[s] = [sup[s] EXCEPT !.launch = "terminated"]
    BY <1>1 DEF LedgerInv, Types
  <1>4. /\ sup'[s].child = sup[s].child /\ sup'[s].held = sup[s].held
        /\ sup'[s].launch = "terminated" /\ SameSweep(sup[s], sup'[s])
    BY <1>2, <1>3 DEF SupState, SameSweep
  <1>5. sup' \in [Supervisors -> SupState]
    BY <1>1, <1>2 DEF LedgerInv, Types, SupState, Launches
  <1>6. PICK gone \in SUBSET Children : gone = sup[s].child
    BY DEF Children
  <1>7. \A t \in Supervisors : sup[t].me \cap gone = {} => Fares(sup[t], sup'[t], gone)
    <2> SUFFICES ASSUME NEW t \in Supervisors, sup[t].me \cap gone = {}
                 PROVE  Fares(sup[t], sup'[t], gone)
      OBVIOUS
    <2>1. CASE t = s
      BY <1>1, <1>4, <1>6, <2>1 DEF Fares
    <2>2. CASE t # s
      BY <1>3, <2>2, FaresOn
    <2> QED
      BY <2>1, <2>2
  <1> QED
    BY <1>1, <1>5, <1>6, <1>7, NoSupervisorDies

LEMMA NameFailsKeeps ==
    ASSUME LedgerInv, NEW s \in Supervisors, NameFails(s)
    PROVE  LedgerInv'
  <1>1. /\ Die(sup[s].child) /\ UNCHANGED <<started, ledger, missed, torn>>
        /\ sup' = [sup EXCEPT ![s].launch = "idle", ![s].child = {}, ![s].held = {}]
    BY DEF NameFails
  <1>2. sup[s] \in SupState
    BY DEF LedgerInv, Types
  <1>3. /\ \A t \in Supervisors \ {s} : sup'[t] = sup[t]
        /\ sup'[s] = [sup[s] EXCEPT !.launch = "idle", !.child = {}, !.held = {}]
    BY <1>1 DEF LedgerInv, Types
  <1>4. /\ sup'[s].child = {} /\ sup'[s].held = {}
        /\ sup'[s].launch = "idle" /\ SameSweep(sup[s], sup'[s])
    BY <1>2, <1>3 DEF SupState, SameSweep
  <1>5. sup' \in [Supervisors -> SupState]
    BY <1>1, <1>2 DEF LedgerInv, Types, SupState, Launches
  <1>6. PICK gone \in SUBSET Children : gone = sup[s].child
    BY DEF Children
  <1>7. \A t \in Supervisors : sup[t].me \cap gone = {} => Fares(sup[t], sup'[t], gone)
    <2> SUFFICES ASSUME NEW t \in Supervisors, sup[t].me \cap gone = {}
                 PROVE  Fares(sup[t], sup'[t], gone)
      OBVIOUS
    <2>1. CASE t = s
      BY <1>4, <2>1 DEF Fares
    <2>2. CASE t # s
      BY <1>3, <2>2, FaresOn
    <2> QED
      BY <2>1, <2>2
  <1> QED
    BY <1>1, <1>5, <1>6, <1>7, NoSupervisorDies

LEMMA ChildExitsKeeps ==
    ASSUME LedgerInv, NEW k \in kids, ChildExits(k)
    PROVE  LedgerInv'
  <1>1. UNCHANGED <<started, ledger, sup, missed, torn>> /\ Die({k.id})
    BY DEF ChildExits
  <1>2. PICK gone \in SUBSET Children : gone = {k.id}
    BY DEF Children
  <1>3. sup' \in [Supervisors -> SupState]
    BY <1>1 DEF LedgerInv, Types
  <1>4. \A t \in Supervisors : sup[t].me \cap gone = {} => Fares(sup[t], sup'[t], gone)
    BY <1>1, FaresOn
  <1> QED
    BY <1>1, <1>2, <1>3, <1>4, NoSupervisorDies

\* Whatever process dies, the jobs of it take their children with them.
LEMMA ProcessDies ==
    ASSUME LedgerInv, NEW id \in Identity, Die(WithJobs({id})), UNCHANGED <<started, ledger, missed, torn>>,
           sup' \in [Supervisors -> SupState],
           \A t \in Supervisors :
               IF id \in sup[t].me THEN sup'[t] = Down
               ELSE SameSweep(sup[t], sup'[t]) /\ SameLaunch(sup[t], sup'[t])
    PROVE  LedgerInv'
  <1>1. PICK gone : gone = {id} \cup {k.id : k \in {j \in kids : j.owner \in {id} /\ j.jobbed}}
    OBVIOUS
  <1>2. Die(gone)
    BY <1>1 DEF WithJobs
  <1>3. \A k \in kids : /\ k.id \in Identity /\ k.id \in Children
                        /\ \A t \in Supervisors : k.id \notin sup[t].me
                        /\ \A j \in kids : j.owner # k.id
    BY ChildIsNoSupervisor DEF LedgerInv, Types, Kid, Children
  <1>4. gone \in SUBSET Identity
    BY <1>1, <1>3
  <1>5. \A g \in gone : g = id \/ \E k \in kids : g = k.id /\ k.owner = id /\ k.jobbed
    BY <1>1
  <1>6. ASSUME NEW t \in Supervisors PROVE Fares(sup[t], sup'[t], gone)
    <2>1. CASE id \in sup[t].me
      <3>1. \A a \in sup[t].me : a = id
        BY <2>1 DEF LedgerInv, Launching, Supervises
      <3>2. sup[t].me \subseteq gone
        BY <1>1, <3>1
      <3> QED
        BY <2>1, <3>2 DEF Fares
    <2>2. CASE id \notin sup[t].me
      <3>1. sup[t].me \cap gone = {}
        BY <1>3, <1>5, <2>2
      <3> QED
        BY <2>2, <3>1 DEF Fares, SameLaunch
    <2> QED
      BY <2>1, <2>2
  <1>7. ASSUME NEW k \in kids, k.resumed, k.owner \in gone PROVE k.id \in gone
    <2>1. k.owner = id
      BY <1>3, <1>5, <1>7
    <2>2. k.jobbed
      BY <1>7 DEF LedgerInv, KidsLive
    <2> QED
      BY <1>1, <2>1, <2>2
  <1>8. Buries(gone)
    BY <1>2, <1>6, <1>7 DEF Buries
  <1> QED
    BY <1>4, <1>8, BurialKeeps

LEMMA SupervisorDiesKeeps ==
    ASSUME LedgerInv, NEW s \in Supervisors, SupervisorDies(s)
    PROVE  LedgerInv'
  <1>1. /\ UNCHANGED <<started, ledger, missed, torn>> /\ sup' = [sup EXCEPT ![s] = Down]
        /\ Die(WithJobs(sup[s].me)) /\ sup[s].me # {}
    BY DEF SupervisorDies
  <1>2. PICK id \in sup[s].me : sup[s].me = {id}
    BY <1>1 DEF LedgerInv, Launching, Supervises
  <1>3. id \in Identity /\ Die(WithJobs({id}))
    BY <1>1, <1>2 DEF LedgerInv, Types, SupState
  <1>4. sup' \in [Supervisors -> SupState]
    <2>1. Down \in SupState
      BY DEF Down, SupState, Launches
    <2> QED
      BY <1>1, <2>1 DEF LedgerInv, Types
  <1>5. ASSUME NEW t \in Supervisors
        PROVE  IF id \in sup[t].me THEN sup'[t] = Down
               ELSE SameSweep(sup[t], sup'[t]) /\ SameLaunch(sup[t], sup'[t])
    <2>1. id \in sup[t].me => t = s
      BY <1>2 DEF LedgerInv, Distinct
    <2>2. sup'[t] = IF t = s THEN Down ELSE sup[t]
      BY <1>1 DEF LedgerInv, Types
    <2> QED
      BY <1>2, <2>1, <2>2 DEF SameSweep, SameLaunch
  <1> QED
    BY <1>1, <1>3, <1>4, <1>5, ProcessDies

\* What has no part in this is nobody's supervisor, and owns no child that runs.
LEMMA StrangerExitsKeeps ==
    ASSUME LedgerInv, NEW p \in Strangers, StrangerExits(p)
    PROVE  LedgerInv'
  <1>1. UNCHANGED <<started, ledger, sup, missed, torn>> /\ Die({Running(p)})
    BY DEF StrangerExits
  <1>2. PICK id : id = Running(p)
    OBVIOUS
  <1>3. /\ p \in Pids /\ holder[p] # 0 /\ holder \in [Pids -> 0 .. MaxStarts]
        /\ \A t \in Supervisors : id \notin sup[t].me
    BY <1>2 DEF Strangers, LedgerInv, Types
  <1>4. id \in Identity /\ Alive(id)
    BY <1>2, <1>3 DEF Running, Identity, Alive
  <1>5. \A k \in kids : k.owner # id
    BY <1>3, <1>4 DEF LedgerInv, Owned
  <1>6. Buries({id})
    BY <1>1, <1>2, <1>3, <1>5, FaresOn DEF Buries
  <1>7. sup' \in [Supervisors -> SupState]
    BY <1>1 DEF LedgerInv, Types
  <1> QED
    BY <1>4, <1>6, <1>7, BurialKeeps

\* The pid is all that a kill goes by, so it may be a supervisor's.
LEMMA KillTargetKeeps ==
    ASSUME LedgerInv, NEW s \in Supervisors, NEW t \in sup[s].targets, KillTarget(s, t),
           UNCHANGED <<started, ledger, missed, torn>>
    PROVE  LedgerInv'
  <1>1. PICK id : id = Running(t.pid)
    OBVIOUS
  <1>2. PICK y : y = [sup[s] EXCEPT !.targets = @ \ {t}, !.hit = TRUE]
    OBVIOUS
  <1>3. /\ id.start # 0 /\ Die(WithJobs({id}))
        /\ sup' = [x \in Supervisors |->
                     IF id \in sup[x].me THEN Down ELSE IF x = s THEN y ELSE sup[x]]
    BY <1>1, <1>2 DEF KillTarget
  <1>4. sup \in [Supervisors -> SupState] /\ holder \in [Pids -> 0 .. MaxStarts] /\ sup[s] \in SupState
    BY DEF LedgerInv, Types
  <1>5. id \in Identity
    <2>1. t.pid \in Pids
      BY <1>4 DEF SupState
    <2> QED
      BY <1>1, <1>3, <1>4, <2>1 DEF Running, Identity
  <1>6. y \in SupState /\ SameSweep(sup[s], y) /\ SameLaunch(sup[s], y)
    BY <1>2, <1>4 DEF SupState, SameSweep, SameLaunch
  <1>7. sup' \in [Supervisors -> SupState]
    <2>1. Down \in SupState
      BY DEF Down, SupState, Launches
    <2> QED
      BY <1>3, <1>4, <1>6, <2>1
  <1>8. ASSUME NEW x \in Supervisors
        PROVE  IF id \in sup[x].me THEN sup'[x] = Down
               ELSE SameSweep(sup[x], sup'[x]) /\ SameLaunch(sup[x], sup'[x])
    <2>1. sup'[x] = IF id \in sup[x].me THEN Down ELSE IF x = s THEN y ELSE sup[x]
      BY <1>3
    <2>2. SameSweep(sup[x], sup[x]) /\ SameLaunch(sup[x], sup[x])
      BY DEF SameSweep, SameLaunch
    <2> QED
      BY <1>6, <2>1, <2>2
  <1> QED
    BY <1>3, <1>5, <1>7, <1>8, ProcessDies

LEMMA KillTreeKeeps ==
    ASSUME LedgerInv, NEW s \in Supervisors, KillTree(s)
    PROVE  LedgerInv'
  BY KillTargetKeeps, MissTargetKeeps DEF KillTree

-----------------------------------------------------------------------------
(* Steps in which a process starts.                                          *)

Born(p, from, new) ==
    /\ Starts(p, from) /\ new = NewIdentity(p)
    /\ UNCHANGED <<ledger, missed, torn>> /\ Recorded' = Recorded
    /\ kids \subseteq kids'
    /\ \A k \in kids' \ kids : k.id = new /\ ~k.resumed /\ ~k.enrolled
    /\ \A k \in kids' \ kids : \E s \in Supervisors : k.owner \in sup'[s].me
    /\ \A s \in Supervisors : sup[s].me \subseteq sup'[s].me
    /\ \/ Children' \subseteq Children \cup {new} /\ Owners' \subseteq Owners
       \/ Children' \subseteq Children /\ Owners' \subseteq Owners \cup {new}

LEMMA NewIsNew ==
    ASSUME LedgerInv, NEW p \in Pids, NEW from, Starts(p, from), NEW new, new = NewIdentity(p)
    PROVE  /\ new \notin Children /\ new \notin Owners /\ new \in Identity
           /\ started' \in 0 .. MaxStarts /\ holder' \in [Pids -> 0 .. MaxStarts]
           /\ \A id \in Children \cup Owners : Alive(id)' <=> Alive(id)
           /\ Alive(new)'
  <1>1. \A id \in Children \cup Owners : id \in Identity /\ id.start <= started
    BY Recordable DEF LedgerInv, Identities
  <1>2. /\ new.start = started + 1 /\ started \in Nat
    BY StartsSpares DEF LedgerInv, Types
  <1>3. new \notin Children /\ new \notin Owners
    BY <1>1, <1>2
  <1> QED
    BY <1>1, <1>3, StartsSpares DEF LedgerInv

LEMMA BirthKeeps ==
    ASSUME LedgerInv, NEW p \in Pids, NEW from, NEW new, Born(p, from, new)
    PROVE  /\ Identities' /\ KidsLive' /\ Owned' /\ Truthful' /\ Noted'
           /\ \A t \in Supervisors : sup'[t] = sup[t] =>
                Supervises(sup[t])' /\ Custody(sup[t])' /\ Jobbed(sup[t])' /\ Sweeps(sup[t])'
  <1>1. /\ new \notin Children /\ new \notin Owners /\ new \in Identity
        /\ \A id \in Children \cup Owners : Alive(id)' <=> Alive(id)
        /\ Alive(new)'
    BY NewIsNew DEF Born
  <1>2. /\ \A k \in kids : k.id \in Children /\ k.owner \in Owners
        /\ \A e \in Recorded : e.child \in Children
        /\ \A t \in Supervisors : /\ sup[t].child \subseteq Children /\ sup[t].me \subseteq Owners
                                  /\ sup[t].seen \subseteq Recorded
    BY DEF Children, Owners, Recorded
  <1>3. Identities'
    <2>1. started' = started + 1 /\ new.start = started + 1 /\ started \in Nat
      BY StartsSpares DEF Born, LedgerInv, Types
    <2>2. \A id \in Children' \cup Owners' : id \in Children \cup Owners \/ id = new
      BY DEF Born
    <2>3. \A id \in Children \cup Owners : id.start <= started /\ id.start \in Nat
      BY Recordable DEF LedgerInv, Identities, Identity
    <2>4. \A id \in Children' \cup Owners' : id.start <= started'
      BY <2>1, <2>2, <2>3
    <2>5. \A c \in Children', o \in Owners' : c # o
      BY <1>1 DEF LedgerInv, Identities, Born
    <2> QED
      BY <2>4, <2>5 DEF Identities
  <1>4. KidsLive'
    BY <1>1, <1>2 DEF LedgerInv, KidsLive, Born
  <1>5. Truthful'
    BY <1>1, <1>2 DEF LedgerInv, Truthful, Born
  <1>6. Noted'
    BY DEF LedgerInv, Noted, Born
  <1>8. Ages
    BY StartsSpares DEF Born, LedgerInv
  <1>9. Owned'
    BY <1>1, <1>2 DEF LedgerInv, Owned, Born
  <1>7. ASSUME NEW t \in Supervisors, sup'[t] = sup[t]
        PROVE  Supervises(sup[t])' /\ Custody(sup[t])' /\ Jobbed(sup[t])' /\ Sweeps(sup[t])'
    <2>1. PICK x : x = sup[t] /\ x = sup'[t]
      BY <1>7
    <2>2. Supervises(x) /\ Custody(x) /\ Jobbed(x)
      BY <2>1 DEF LedgerInv, Launching
    <2>3. x.child \subseteq Children /\ x.me \subseteq Owners /\ x.seen \subseteq Recorded
      BY <1>2, <2>1
    <2>4. Supervises(x)'
      BY <1>1, <2>2, <2>3 DEF Supervises
    <2>5. Custody(x)'
      BY <1>1, <2>2, <2>3 DEF Custody, Born
    <2>6. Jobbed(x)'
      BY <1>1, <2>2, <2>3 DEF Jobbed, Born
    <2>7. Sweeps(x)'
      BY <1>8, <2>1, SweepsAge DEF SameSweep, Born
    <2> QED
      BY <2>1, <2>4, <2>5, <2>6, <2>7
  <1> QED
    BY <1>3, <1>4, <1>5, <1>6, <1>7, <1>9

LEMMA StrangerStartsKeeps ==
    ASSUME LedgerInv, NEW p \in Pids, StrangerStarts(p)
    PROVE  LedgerInv'
  <1>1. PICK from \in Strangers \cup {0} : UNCHANGED <<kids, ledger, sup, missed, torn>> /\ Starts(p, from)
    BY DEF StrangerStarts
  <1>2. PICK new : new = NewIdentity(p)
    OBVIOUS
  <1>3. Recorded' = Recorded /\ Children' = Children /\ Owners' = Owners
    BY <1>1 DEF Recorded, Children, Owners
  <1>4. Born(p, from, new)
    BY <1>1, <1>2, <1>3 DEF Born
  <1>5. Types' /\ Distinct'
    BY <1>1, <1>2, NewIsNew DEF LedgerInv, Types, Distinct
  <1> QED
    BY <1>1, <1>4, <1>5, BirthKeeps DEF LedgerInv, Launching, Sweeping

LEMMA StartSupervisorKeeps ==
    ASSUME LedgerInv, NEW s \in Supervisors, StartSupervisor(s)
    PROVE  LedgerInv'
  <1>1. /\ sup[s].me = {} /\ UNCHANGED <<kids, ledger, missed, torn>>
    BY DEF StartSupervisor
  <1>2. PICK p \in Pids, from \in Strangers \cup {0} : Starts(p, from) /\ sup' = [sup EXCEPT ![s].me = {NewIdentity(p)}, ![s].sweep = "unread"]
    BY DEF StartSupervisor
  <1>3. PICK new : new = NewIdentity(p)
    OBVIOUS
  <1>4. /\ new \in Identity /\ new \notin Children /\ new \notin Owners /\ Alive(new)'
        /\ started' \in 0 .. MaxStarts /\ holder' \in [Pids -> 0 .. MaxStarts]
    BY <1>2, <1>3, NewIsNew
  <1>5. sup[s] \in SupState /\ Supervises(sup[s]) /\ Sweeps(sup[s])
    BY DEF LedgerInv, Types, Launching, Sweeping
  <1>6. /\ \A t \in Supervisors \ {s} : sup'[t] = sup[t]
        /\ sup'[s] = [sup[s] EXCEPT !.me = {new}, !.sweep = "unread"]
    BY <1>2, <1>3 DEF LedgerInv, Types
  <1>7. /\ sup'[s].me = {new} /\ sup'[s].child = sup[s].child /\ sup'[s].held = sup[s].held
        /\ sup'[s].launch = sup[s].launch /\ sup'[s].seen = sup[s].seen
        /\ sup'[s].todo = sup[s].todo /\ sup'[s].keep = sup[s].keep /\ sup'[s].sweep = "unread"
        /\ sup'[s].mark = sup[s].mark /\ sup'[s].since = sup[s].since
        /\ sup'[s].targets = sup[s].targets
    BY <1>5, <1>6 DEF SupState
  <1>8. Types'
    <2>0. PICK y : y = [sup[s] EXCEPT !.me = {new}, !.sweep = "unread"]
      OBVIOUS
    <2>1. sup' = [sup EXCEPT ![s] = y] /\ y \in SupState
      <3>1. y \in SupState
        BY <1>4, <1>5, <2>0 DEF SupState
      <3>2. sup' = [sup EXCEPT ![s] = y]
        BY <1>2, <1>3, <1>5, <2>0 DEF LedgerInv, Types, SupState
      <3> QED
        BY <3>1, <3>2
    <2>2. sup' \in [Supervisors -> SupState]
      BY <2>1 DEF LedgerInv, Types
    <2> QED
      BY <1>1, <1>4, <2>2 DEF LedgerInv, Types
  <1>9. Recorded' = Recorded
    <2>1. \A t \in Supervisors : sup'[t].held = sup[t].held /\ sup'[t].seen = sup[t].seen
      BY <1>6, <1>7
    <2> QED
      BY <1>1, <2>1 DEF Recorded
  <1>10. \A t \in Supervisors : sup'[t].child = sup[t].child /\ sup'[t].me \subseteq sup[t].me \cup {new}
    BY <1>6, <1>7
  <1>11. Children' \subseteq Children
    BY <1>1, <1>9, <1>10 DEF Children
  <1>12. Owners' \subseteq Owners \cup {new}
    BY <1>1, <1>9, <1>10 DEF Owners
  <1>13. Born(p, from, new)
    <2>1. \A t \in Supervisors : sup[t].me \subseteq sup'[t].me
      BY <1>1, <1>6
    <2> QED
      BY <1>1, <1>2, <1>3, <1>9, <1>11, <1>12, <2>1 DEF Born
  <1>14. Distinct'
    <2>1. \A t \in Supervisors : new \notin sup[t].me
      BY <1>4 DEF Owners
    <2> SUFFICES ASSUME NEW t \in Supervisors, NEW u \in Supervisors, t # u
                 PROVE  sup'[t].me \cap sup'[u].me = {}
      BY DEF Distinct
    <2>2. sup[t].me \cap sup[u].me = {}
      BY DEF LedgerInv, Distinct
    <2>3. CASE t = s
      BY <1>6, <1>7, <2>1, <2>3
    <2>4. CASE u = s
      <3>1. sup'[u].me = {new} /\ sup'[t].me = sup[t].me /\ new \notin sup[t].me
        BY <1>6, <1>7, <2>1, <2>4
      <3> QED
        BY <3>1
    <2>5. CASE t # s /\ u # s
      BY <1>6, <2>2, <2>5
    <2> QED
      BY <2>3, <2>4, <2>5
  <1>15. sup[s].launch = "idle" /\ sup[s].child = {}
    BY <1>1, <1>5 DEF Supervises
  <1>16. Supervises(sup[s])' /\ Custody(sup[s])' /\ Jobbed(sup[s])'
    BY <1>4, <1>7, <1>15 DEF Supervises, Custody, Jobbed
  <1>17. Sweeps(sup[s])'
    <2>1. /\ sup[s].sweep = "done" /\ sup[s].seen = {} /\ sup[s].mark = {} /\ sup[s].targets = {}
          /\ sup[s].todo \cup sup[s].keep \subseteq {} /\ sup[s].since <= started
      BY <1>1, <1>5 DEF Sweeps, Keeps, Hunts
    <2>2. sup[s].since <= started'
      BY <1>2, <1>5, <2>1 DEF Starts, SupState, LedgerInv, Types
    <2> QED
      BY <1>7, <2>1, <2>2 DEF Sweeps, Keeps, Hunts
  <1> QED
    BY <1>6, <1>8, <1>13, <1>14, <1>16, <1>17, BirthKeeps DEF LedgerInv, Launching, Sweeping

LEMMA CreateSuspendedKeeps ==
    ASSUME LedgerInv, NEW s \in Supervisors, CreateSuspended(s)
    PROVE  LedgerInv'
  <1>1. /\ sup[s].me # {} /\ sup[s].launch = "idle" /\ UNCHANGED <<ledger, missed, torn>>
    BY DEF CreateSuspended
  <1>0. PICK from : from = Owner(s).pid
    OBVIOUS
  <1>2. PICK p \in Pids :
            /\ Starts(p, from)
            /\ sup' = [sup EXCEPT ![s].child = {NewIdentity(p)}, ![s].launch = "created"]
            /\ kids' = kids \cup {[id |-> NewIdentity(p), owner |-> Owner(s),
                                   enrolled |-> FALSE, jobbed |-> FALSE, resumed |-> FALSE]}
    BY <1>0 DEF CreateSuspended
  <1>3. PICK new : new = NewIdentity(p)
    OBVIOUS
  <1>4. /\ new \in Identity /\ new \notin Children /\ new \notin Owners /\ Alive(new)'
        /\ started' \in 0 .. MaxStarts /\ holder' \in [Pids -> 0 .. MaxStarts]
        /\ \A id \in Owners : Alive(id)' <=> Alive(id)
    BY <1>2, <1>3, NewIsNew
  <1>5. sup[s] \in SupState /\ Supervises(sup[s]) /\ Sweeps(sup[s])
    BY DEF LedgerInv, Types, Launching, Sweeping
  <1>6. /\ \A t \in Supervisors \ {s} : sup'[t] = sup[t]
        /\ sup'[s] = [sup[s] EXCEPT !.child = {new}, !.launch = "created"]
    BY <1>2, <1>3 DEF LedgerInv, Types
  <1>7. /\ sup'[s].me = sup[s].me /\ sup'[s].child = {new} /\ sup'[s].held = sup[s].held
        /\ sup'[s].launch = "created" /\ sup'[s].seen = sup[s].seen
        /\ SameSweep(sup[s], sup'[s])
    BY <1>5, <1>6 DEF SupState, SameSweep
  <1>8. Owner(s) \in sup[s].me
    BY <1>1 DEF Owner
  <1>9. PICK kid : kid = [id |-> new, owner |-> Owner(s),
                          enrolled |-> FALSE, jobbed |-> FALSE, resumed |-> FALSE]
    OBVIOUS
  <1>10. /\ kid \in Kid /\ kid.id = new /\ kid.owner \in sup[s].me
         /\ ~kid.resumed /\ ~kid.enrolled /\ kids' = kids \cup {kid}
    BY <1>2, <1>3, <1>4, <1>5, <1>8, <1>9 DEF SupState, Kid
  <1>11. Types'
    BY <1>1, <1>2, <1>3, <1>4, <1>5, <1>6, <1>10 DEF LedgerInv, Types, SupState, Launches
  <1>12. Recorded' = Recorded
    <2>1. \A t \in Supervisors : sup'[t].held = sup[t].held /\ sup'[t].seen = sup[t].seen
      BY <1>6, <1>7
    <2> QED
      BY <1>1, <2>1 DEF Recorded
  <1>13. \A t \in Supervisors : sup'[t].me = sup[t].me /\ sup'[t].child \subseteq sup[t].child \cup {new}
    BY <1>6, <1>7
  <1>14. Children' \subseteq Children \cup {new}
    BY <1>10, <1>12, <1>13 DEF Children
  <1>15. Owners' \subseteq Owners
    BY <1>10, <1>12, <1>13 DEF Owners
  <1>16. Born(p, from, new)
    BY <1>1, <1>2, <1>3, <1>7, <1>10, <1>12, <1>13, <1>14, <1>15 DEF Born
  <1>17. Distinct'
    BY <1>13 DEF LedgerInv, Distinct
  <1>18. Supervises(sup[s])'
    BY <1>1, <1>4, <1>5, <1>7 DEF Supervises, Owners
  <1>19. Custody(sup[s])'
    <2>1. \A k \in kids : k.id # new
      BY <1>4 DEF Children
    <2> QED
      BY <1>7, <1>10, <2>1 DEF Custody
  <1>20. Jobbed(sup[s])'
    BY <1>7 DEF Jobbed
  <1>21. Sweeps(sup[s])'
    <2>1. PICK y : y = sup'[s]
      OBVIOUS
    <2>2. Ages
      BY <1>2, <1>3, StartsSpares DEF LedgerInv
    <2> QED
      BY <1>1, <1>7, <2>1, <2>2, SweepsAge
  <1> QED
    BY <1>6, <1>11, <1>16, <1>17, <1>18, <1>19, <1>20, <1>21, BirthKeeps DEF LedgerInv, Launching, Sweeping

-----------------------------------------------------------------------------
(* The theorems.                                                             *)

LEMMA LedgerNextKeeps ==
    ASSUME LedgerInv, [LedgerNext]_ledgerVars
    PROVE  LedgerInv'
  <1>1. CASE UNCHANGED ledgerVars
    <2>1. UNCHANGED <<holder, started, kids, ledger, sup, missed, torn>>
      BY <1>1 DEF ledgerVars
    <2>2. Recorded' = Recorded /\ Children' = Children /\ Owners' = Owners
      BY <2>1 DEF Recorded, Children, Owners
    <2>3. Types' /\ Identities' /\ Distinct' /\ KidsLive' /\ Owned' /\ Truthful' /\ Noted'
      BY <2>1, <2>2 DEF LedgerInv, Types, Identities, Distinct, KidsLive, Owned, Truthful, Noted, Alive
    <2>4. Launching' /\ Sweeping'
      BY <2>1 DEF LedgerInv, Launching, Sweeping, Supervises, Custody, Jobbed, Sweeps, Keeps, Hunts, Held, Alive
    <2> QED
      BY <2>3, <2>4 DEF LedgerInv
  <1>2. CASE LedgerNext
    BY <1>2, StartSupervisorKeeps, CreateSuspendedKeeps, ReadLedgerKeeps, EnrolKeeps, EnrolFailsKeeps,
       AssignJobKeeps, AssignFailsKeeps, NameJobKeeps, NameFailsKeeps, ResumeThreadKeeps, RemoveEntryKeeps,
       SweepReadsKeeps, JudgeKeeps, TakeSnapshotKeeps, KillTreeKeeps, TreeWalkedKeeps, SweepWritesKeeps,
       SupervisorDiesKeeps, ChildExitsKeeps, StrangerStartsKeeps, StrangerExitsKeeps DEF LedgerNext
  <1> QED
    BY <1>1, <1>2

\* The invariant of the supervisors, their children and the file: identities are never
\* shared, a launch's child is in custody, and the entries of the living are true.
THEOREM LedgerInvariant == LedgerSpec => []LedgerInv
  <1>1. LedgerInit => LedgerInv
    <2> SUFFICES ASSUME LedgerInit PROVE LedgerInv
      OBVIOUS
    <2>1. /\ holder = [p \in Pids |-> 0] /\ started = 0 /\ kids = {} /\ ledger = {}
          /\ missed = {} /\ torn = FALSE /\ sup = [s \in Supervisors |-> Down]
      BY DEF LedgerInit
    <2>2. Down \in SupState
      BY DEF Down, SupState, Launches
    <2>3. Types
      <3>1. 0 \in 0 .. MaxStarts
        OBVIOUS
      <3>2. holder \in [Pids -> 0 .. MaxStarts] /\ started \in 0 .. MaxStarts
        BY <2>1, <3>1
      <3>3. sup \in [Supervisors -> SupState]
        BY <2>1, <2>2
      <3> QED
        BY <2>1, <3>2, <3>3 DEF Types
    <2>4. Recorded = {}
      BY <2>1 DEF Recorded, Down
    <2>5. Children = {} /\ Owners = {}
      BY <2>1, <2>4 DEF Children, Owners, Down
    <2>6. Identities /\ Distinct /\ KidsLive /\ Owned /\ Truthful /\ Noted
      BY <2>1, <2>4, <2>5 DEF Identities, Distinct, KidsLive, Owned, Truthful, Noted, Down
    <2>7. Launching /\ Sweeping
      BY <2>1 DEF Launching, Sweeping, Supervises, Custody, Jobbed, Sweeps, Keeps, Hunts, Down
    <2> QED
      BY <2>3, <2>6, <2>7 DEF LedgerInv
  <1>2. LedgerInv /\ [LedgerNext]_ledgerVars => LedgerInv'
    BY LedgerNextKeeps
  <1> QED
    BY <1>1, <1>2, PTL DEF LedgerSpec

\* No crawler runs its own code without the process that launched it, for any number of
\* supervisors, crashes at any step of launch_supervised and pids used again.
THEOREM CrawlersDoNotOutliveSupervisors == LedgerSpec => []RunningChildHasSupervisor
  <1>1. LedgerInv => RunningChildHasSupervisor
    BY DEF LedgerInv, KidsLive, RunningChildHasSupervisor
  <1> QED
    BY <1>1, LedgerInvariant, PTL

\* Unless a write replaced what its writer had not read, or a reconciliation killed some of
\* its tree without it, every recorded child that lives is in the file, and so is every orphan.
THEOREM OrphansStayRecorded == LedgerSpec => []EnrolledOrphanIsRecorded
  <1>1. LedgerInv => EnrolledOrphanIsRecorded
    BY DEF LedgerInv, Noted, EnrolledOrphanIsRecorded
  <1> QED
    BY <1>1, LedgerInvariant, PTL

\* What a reconciliation kills, whatever happens between its check of an identity and its
\* kills by pid, is the child of a dead supervisor, a process that started since the check, or
\* one that the recorded parents put below the child.
THEOREM SweepsKillOnlyOrphans == LedgerSpec => ReapsOnlyOrphans
  <1>1. ASSUME LedgerInv, NEW s \in Supervisors, NEW t \in sup[s].targets, KillTarget(s, t)
        PROVE  \/ \E k \in kids : k.id = Running(t.pid) /\ ~Alive(k.owner)
               \/ holder[t.pid] > sup[s].since
               \/ Alive(t) /\ t # Marked(s).child
    <2>1. sup[s] \in SupState /\ Sweeps(sup[s])
      BY <1>1 DEF LedgerInv, Types, Sweeping
    <2>2. Held(t, sup[s].since) /\ holder[t.pid] # 0
      BY <1>1, <2>1 DEF Sweeps, Hunts, KillTarget, Running
    <2>3. CASE holder[t.pid] > sup[s].since
      BY <2>3
    <2>4. CASE holder[t.pid] = t.start /\ t # Marked(s).child
      BY <2>4 DEF Alive
    <2>5. CASE holder[t.pid] = t.start /\ t = Marked(s).child
      <3>1. PICK e \in sup[s].mark : sup[s].mark = {e}
        BY <1>1, <2>1 DEF Sweeps, Hunts
      <3>2. Marked(s) = e
        BY <3>1 DEF Marked
      <3>3. e \in Recorded /\ ~Alive(e.owner)
        BY <2>1, <3>1 DEF Sweeps, Keeps, Hunts, Recorded
      <3>4. PICK k \in kids : k.id = e.child /\ k.owner = e.owner
        BY <1>1, <2>5, <3>2, <3>3 DEF LedgerInv, Truthful, Alive
      <3>5. Running(t.pid) = t
        BY <2>1, <2>5 DEF Running, SupState
      <3> QED
        BY <2>5, <3>2, <3>3, <3>4, <3>5
    <2> QED
      BY <2>2, <2>3, <2>4, <2>5 DEF Held
  <1>2. LedgerInv /\ [LedgerNext]_ledgerVars =>
            [\A s \in Supervisors : \A t \in sup[s].targets :
               KillTarget(s, t)
                  => \/ \E k \in kids : k.id = Running(t.pid) /\ ~Alive(k.owner)
                     \/ holder[t.pid] > sup[s].since
                     \/ Alive(t) /\ t # Marked(s).child]_ledgerVars
    BY <1>1
  <1> QED
    BY <1>2, LedgerInvariant, PTL DEF LedgerSpec, ReapsOnlyOrphans
=============================================================================
