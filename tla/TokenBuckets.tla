---------------------------- MODULE TokenBuckets ---------------------------
(* One token bucket and the threads, or coroutines, that acquire from it     *)
(* (TokenBucket and AsyncTokenBucket of src/src/core/rate_limiter.py).  Time *)
(* is counted in ticks, and a token in the ticks it takes to accrue.         *)
EXTENDS Naturals, Sequences

CONSTANTS
    Takers,       \* who calls acquire
    Timeout,      \* timeout_s of those who have one
    Capacity,     \* in tokens
    TokenTicks,   \* 1 / refill_per_second
    MaxTime       \* bound on the clock

ASSUME BucketAssumption ==
    /\ {Capacity, TokenTicks} \subseteq Nat \ {0} /\ MaxTime \in Nat
    /\ \A t \in DOMAIN Timeout : t \in Takers /\ Timeout[t] \in Nat

VARIABLES
    clock,
    bucket,   \* its level in ticks, and when that was computed
    taker,    \* each caller: where it is, its deadline, its wait, when it wakes
    grants    \* when tokens were granted

bucketVars == <<clock, bucket, taker, grants>>

BucketInit ==
    /\ clock = 0 /\ bucket = [level |-> Capacity * TokenTicks, updated |-> 0] /\ grants = <<>>
    /\ taker = [t \in Takers |-> [at |-> "idle", deadline |-> 0, wait |-> 0, wakes |-> 0]]

\* _accrued_tokens.
Accrued ==
    IF bucket.level + (clock - bucket.updated) > Capacity * TokenTicks
    THEN Capacity * TokenTicks ELSE bucket.level + (clock - bucket.updated)

StartAcquire(t) ==
    /\ taker[t].at = "idle"
    /\ taker' = [taker EXCEPT ![t].at = "trying",
                              ![t].deadline = IF t \in DOMAIN Timeout THEN clock + Timeout[t] ELSE 0]
    /\ UNCHANGED <<clock, bucket, grants>>

\* Mistake: the level is computed anew, but not when.
TakeKeepingStamp(t) ==
    /\ taker[t].at = "trying" /\ Accrued >= TokenTicks
    /\ bucket' = [bucket EXCEPT !.level = Accrued - TokenTicks]
    /\ grants' = Append(grants, clock)
    /\ taker' = [taker EXCEPT ![t].at = "idle"]
    /\ UNCHANGED clock

\* try_acquire, under the bucket's lock.
Take(t) ==
    /\ taker[t].at = "trying" /\ Accrued >= TokenTicks
    /\ bucket' = [level |-> Accrued - TokenTicks, updated |-> clock]
    /\ grants' = Append(grants, clock)
    /\ taker' = [taker EXCEPT ![t].at = "idle"]
    /\ UNCHANGED clock

Short(t) ==
    /\ taker[t].at = "trying" /\ Accrued < TokenTicks
    /\ bucket' = [level |-> Accrued, updated |-> clock]
    /\ taker' = [taker EXCEPT ![t].at = "short"]
    /\ UNCHANGED <<clock, grants>>

\* time_until_available takes the lock again: others may have been here.
Measure(t) ==
    /\ taker[t].at = "short"
    /\ bucket' = [level |-> Accrued, updated |-> clock]
    /\ taker' = [taker EXCEPT ![t].at = "measured",
                              ![t].wait = IF Accrued >= TokenTicks THEN 0 ELSE TokenTicks - Accrued]
    /\ UNCHANGED <<clock, grants>>

TooLong(t) ==
    /\ t \in DOMAIN Timeout
    /\ clock >= taker[t].deadline \/ clock + taker[t].wait > taker[t].deadline

\* RateLimitExceededError.
TimesOut(t) ==
    /\ taker[t].at = "measured" /\ TooLong(t)
    /\ taker' = [taker EXCEPT ![t].at = "idle"]
    /\ UNCHANGED <<clock, bucket, grants>>

\* For a tick at least.
Sleep(t) ==
    /\ taker[t].at = "measured" /\ ~TooLong(t)
    /\ taker' = [taker EXCEPT ![t].at = "asleep",
                              ![t].wakes = clock + (IF taker[t].wait = 0 THEN 1 ELSE taker[t].wait)]
    /\ UNCHANGED <<clock, bucket, grants>>

Wake(t) ==
    /\ taker[t].at = "asleep" /\ clock >= taker[t].wakes
    /\ taker' = [taker EXCEPT ![t].at = "trying"]
    /\ UNCHANGED <<clock, bucket, grants>>

Tick ==
    /\ clock < MaxTime /\ clock' = clock + 1
    /\ UNCHANGED <<bucket, taker, grants>>

BucketNext ==
    \/ \E t \in Takers : \/ StartAcquire(t) \/ Take(t) \/ Short(t) \/ Measure(t)
                         \/ TimesOut(t) \/ Sleep(t) \/ Wake(t)
    \/ Tick

BucketSpec == BucketInit /\ [][BucketNext]_bucketVars

-----------------------------------------------------------------------------
(* Properties.                                                               *)

\* In no stretch of time are more tokens granted than the capacity and what accrues in it,
\* however many take from the bucket and however they interleave.
GrantsWithinRate ==
    \A i \in DOMAIN grants : \A k \in i .. Len(grants) :
        (k - i + 1) * TokenTicks <= Capacity * TokenTicks + (grants[k] - grants[i])
=============================================================================
