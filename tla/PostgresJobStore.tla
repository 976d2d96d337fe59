-------------------------- MODULE PostgresJobStore --------------------------
(* src/src/core/postgres_store.py: the job store of a hosted deployment, its *)
(* circuit breaker and the disk store it falls back to.  A caller is a       *)
(* request handler or a crawl's thread in the middle of one store method.    *)
(* The connection may die at any point of a transaction, its COMMIT          *)
(* included, and a redeploy replaces the process and wipes its disk.         *)
EXTENDS CircuitBreaker

CONSTANTS
    Callers,
    Methods,          \* the methods each caller calls
    Sources,          \* the jobs of other instances that are imported
    MaxIds,           \* bound on the ids that are minted
    MaxOutages,       \* bound on the outages of the database
    MaxRestarts       \* bound on the restarts and redeploys

ASSUME StoreAssumption ==
    /\ DOMAIN Methods = Callers
    /\ MaxIds \in Nat \ {0} /\ MaxOutages \in Nat /\ MaxRestarts \in Nat

VARIABLES
    up,               \* the database answers
    rows,             \* tables jobs and job_payloads
    disk,             \* the fallback store, `.jobs/` on the container
    minted,           \* how many ids were minted
    caller,
    promised,         \* the imports and fetches whose callers were told: saved
    gone,             \* the ids and sources of rows that were deleted
    outages, restarts

stores == <<rows, disk, minted, gone>>
world == <<up, outages, restarts>>
vars == <<breaker, stores, world, caller, promised>>

Ids == 1 .. MaxIds
None == 0
\* A row: the job it was imported from, and whether a fetch was written to it.
Created == [source |-> None, fetched |-> FALSE]
Import(s) == [source |-> s, fetched |-> FALSE]

\* "get" is every read and list_jobs.  "work" is every other method on one job: mark_running,
\* update_telemetry, finish, mark_failed, write_checkpoint, write_homepage,
\* write_reconciliation, write_performance.  What they write is told apart only by the store
\* it is written to, and would be all that store holds of the job if Found did not come first.
OnJob == {"work", "write_gsc_queries", "delete"}
Strict == {"import_terminal", "write_gsc_queries", "delete"}
Op ==
    [name : OnJob, of : Ids] \cup [name : {"create", "get"}, of : {None}]
        \cup [name : {"import_terminal"}, of : Sources]

\* A busy caller: a step, its operation, and whether _import_once runs again.
Idle == [at |-> "idle"]

Init ==
    /\ breaker = FreshBreaker
    /\ up = TRUE
    /\ rows = <<>> /\ disk = <<>> /\ minted = 0
    /\ caller = [c \in Callers |-> Idle]
    /\ promised = {} /\ gone = {}
    /\ outages = 0 /\ restarts = 0

-----------------------------------------------------------------------------
(* What a method does to a store, be it the database or the disk.            *)

Found(store, op) == op.name \in OnJob => op.of \in DOMAIN store
Minting(op) == op.name \in {"create", "import_terminal"}

\* An INSERT, which leaves a row that is there alone.
With(store, id, row) ==
    [i \in DOMAIN store \cup {id} |-> IF i \in DOMAIN store THEN store[i] ELSE row]

Result(store, op) ==
    CASE op.name = "create" -> With(store, minted + 1, Created)
      [] op.name = "import_terminal" -> With(store, minted + 1, Import(op.of))
      [] op.name = "delete" -> [i \in DOMAIN store \ {op.of} |-> store[i]]
      [] op.name = "write_gsc_queries" -> [store EXCEPT ![op.of].fetched = TRUE]
      [] op.name = "work" -> With(store, op.of, Created)
      [] OTHER -> store

Mint(op) ==
    /\ Minting(op) => minted < MaxIds
    /\ minted' = IF Minting(op) THEN minted + 1 ELSE minted

-----------------------------------------------------------------------------
(* Every method asks the breaker, runs a transaction and reports to it.      *)

Go(c, step) == caller' = [caller EXCEPT ![c].at = step]
Return(c) == caller' = [caller EXCEPT ![c] = Idle]

Acknowledge(c) ==
    /\ Return(c)
    /\ promised' = IF caller[c].op.name \in {"import_terminal", "write_gsc_queries"}
                   THEN promised \cup {caller[c].op} ELSE promised

\* A method only the database serves raises, the others go to the disk.
Refuse(c, op) ==
    IF op.name \in Strict THEN Return(c)
    ELSE caller' = [caller EXCEPT ![c] = [at |-> "fallback", op |-> op, again |-> FALSE]]

Admit(c, op) ==
    caller' = [caller EXCEPT ![c] = [at |-> "connected", op |-> op, again |-> FALSE]]

Call(c, op) ==
    /\ caller[c] = Idle
    /\ op.name \in Methods[c]
    /\ op.name \in OnJob => op.of <= minted
    /\ IsOpen
    /\ IF Passing' THEN Admit(c, op) ELSE Refuse(c, op)
    /\ UNCHANGED <<stores, up, outages, restarts, promised>>

ImportsOf(s) == {i \in DOMAIN rows : rows[i].source = s}
IsImport(c) == caller[c].op.name = "import_terminal"

\* JobNotFoundError, an organization without a budget or one that is not provisioned:
\* the transaction is rolled back and the breaker hears of nothing.
RollBack(c) ==
    /\ caller[c].at \in {"connected", "inserting"} /\ up
    /\ Found(rows, caller[c].op) => Minting(caller[c].op)
    /\ Return(c)
    /\ UNCHANGED <<breaker, stores, world, promised>>

\* Mistake: the import does not ask for an earlier one of its source, nor does an index.
LooksFresh(s) == TRUE

\* _import_once looks the source up; the same bundle is a duplicate, another a conflict.
FreshSource(s) == ImportsOf(s) = {}

LookUp(c) ==
    /\ caller[c].at = "connected" /\ IsImport(c) /\ up
    /\ IF FreshSource(caller[c].op.of)
       THEN Go(c, "inserting")
       ELSE Go(c, "succeeded") \/ Return(c)
    /\ UNCHANGED <<breaker, stores, world, promised>>

\* The unique index refuses the loser of two imports, which looks once more.
UniqueViolation(c) ==
    /\ caller[c].at = "inserting" /\ up
    /\ ~FreshSource(caller[c].op.of)
    /\ IF caller[c].again THEN Return(c)
       ELSE caller' = [caller EXCEPT ![c] = [at |-> "connected", op |-> caller[c].op, again |-> TRUE]]
    /\ UNCHANGED <<breaker, stores, world, promised>>

Statements(c) ==
    LET op == caller[c].op IN
    /\ caller[c].at \in {"connected", "inserting"} /\ up
    /\ IF IsImport(c) THEN caller[c].at = "inserting" /\ FreshSource(op.of)
       ELSE caller[c].at = "connected" /\ Found(rows, op)
    /\ Mint(op)
    /\ rows' = Result(rows, op)
    /\ gone' = IF op.name = "delete" THEN gone \cup {op.of, rows[op.of].source} ELSE gone
    /\ UNCHANGED disk

Commit(c) ==
    /\ Statements(c)
    /\ Go(c, "succeeded")
    /\ UNCHANGED <<breaker, world, promised>>

\* The second run of _import_once is outside of the handlers: its error is not counted.
Fail(c) == IF IsImport(c) /\ caller[c].again THEN Return(c) ELSE Go(c, "failing")

GoDown == outages < MaxOutages /\ up' = FALSE /\ outages' = outages + 1

\* The COMMIT is done and its answer lost.
CommitUnheard(c) ==
    /\ Statements(c)
    /\ GoDown
    /\ Fail(c)
    /\ UNCHANGED <<breaker, restarts, promised>>

ConnectionFails(c) ==
    /\ caller[c].at \in {"connected", "inserting"} /\ ~up
    /\ Fail(c)
    /\ UNCHANGED <<breaker, stores, world, promised>>

\* Mistake: a fetch is written as write_performance writes, which logs the error.
RecordFailureQuietly(c) ==
    /\ caller[c].at = "failing"
    /\ CountFailure
    /\ IF Passing' /\ ~IsImport(c) THEN Acknowledge(c)
       ELSE Refuse(c, caller[c].op) /\ UNCHANGED promised
    /\ UNCHANGED <<stores, world>>

\* An open breaker sends the call to the disk, a closed one raises the error.
RecordFailure(c) ==
    /\ caller[c].at = "failing"
    /\ CountFailure
    /\ IF Passing' THEN Return(c) ELSE Refuse(c, caller[c].op)
    /\ UNCHANGED <<stores, world, promised>>

RecordSuccess(c) ==
    /\ caller[c].at = "succeeded"
    /\ IF breaker.state = "half_open"
       THEN CloseHalfOpen /\ Go(c, "resetting") /\ UNCHANGED promised
       ELSE Acknowledge(c) /\ UNCHANGED breaker
    /\ UNCHANGED <<stores, world>>

ResetCount(c) ==
    /\ caller[c].at = "resetting"
    /\ ForgetFailures
    /\ Acknowledge(c)
    /\ UNCHANGED <<stores, world>>

\* Mistake: the disk store writes a sidecar without its record.
FallbackUnchecked(c) ==
    /\ caller[c].at = "fallback"
    /\ Mint(caller[c].op)
    /\ disk' = Result(disk, caller[c].op)
    /\ Acknowledge(c)
    /\ UNCHANGED <<breaker, rows, gone, world>>

\* The same method of the disk store.
Fallback(c) ==
    /\ caller[c].at = "fallback"
    /\ Found(disk, caller[c].op)
    /\ Mint(caller[c].op)
    /\ disk' = Result(disk, caller[c].op)
    /\ Acknowledge(c)
    /\ UNCHANGED <<breaker, rows, gone, world>>

\* The disk does not hold the job, or does not take the write.
FallbackFails(c) ==
    /\ caller[c].at = "fallback"
    /\ Return(c)
    /\ UNCHANGED <<breaker, stores, world, promised>>

-----------------------------------------------------------------------------
GoesDown == up /\ GoDown /\ UNCHANGED <<breaker, stores, caller, restarts, promised>>

ComesBack ==
    /\ ~up /\ up' = TRUE
    /\ UNCHANGED <<breaker, stores, caller, outages, restarts, promised>>

TimePasses == RecoveryTimeoutElapses /\ UNCHANGED <<stores, world, caller, promised>>

\* A crash keeps the disk, a redeploy does not.
Restart ==
    /\ restarts < MaxRestarts /\ restarts' = restarts + 1
    /\ breaker' = FreshBreaker
    /\ caller' = [c \in Callers |-> Idle]
    /\ disk' \in {disk, <<>>}
    /\ UNCHANGED <<up, outages, rows, minted, gone, promised>>

Step(c) ==
    \/ RollBack(c) \/ LookUp(c) \/ UniqueViolation(c)
    \/ Commit(c) \/ CommitUnheard(c) \/ ConnectionFails(c) \/ RecordFailure(c)
    \/ RecordSuccess(c) \/ ResetCount(c) \/ Fallback(c) \/ FallbackFails(c)

Next ==
    \/ \E c \in Callers : Step(c) \/ \E op \in Op : Call(c, op)
    \/ GoesDown \/ ComesBack \/ TimePasses \/ Restart

\* Threads run, time passes, and somebody polls: the dashboard asks for a job again and again.
Fairness ==
    /\ \A c \in Callers :
        /\ WF_vars(Step(c))
        /\ WF_vars(Call(c, [name |-> "get", of |-> None]))
    /\ WF_vars(TimePasses)

Spec == Init /\ [][Next]_vars
FairSpec == Spec /\ Fairness

-----------------------------------------------------------------------------
(* Properties.                                                               *)

\* No two racing or repeated imports of one source job make two jobs, a lost COMMIT and
\* an outage in between included.
SourceImportedOnce ==
    \A i, k \in DOMAIN rows :
        rows[i].source = rows[k].source /\ rows[i].source # None => i = k

\* What a client was told is imported is in the database, and a Search Console fetch that
\* spent quota and was said to be saved is with its job, whatever the breaker said when it
\* asked and however often the container was replaced; only a delete removes them.
AcknowledgedIsKept ==
    \A op \in promised : op.of \notin gone =>
        IF op.name = "import_terminal" THEN ImportsOf(op.of) # {}
        ELSE op.of \in DOMAIN rows /\ rows[op.of].fetched

\* No job has a part in either store: an outage in the middle of a crawl does not leave
\* a result on disk for a job of the database.
JobIsWhole == DOMAIN rows \cap DOMAIN disk = {}

\* After the last outage the breaker does not refuse for ever.  It could if its time were
\* lost: see OpenBreakerProbes.
DatabaseIsUsedAgain == <>[]up => []<>(Passing \/ breaker.stamp = "none")

\* "After 30 seconds in the open state, the circuit transitions to half-open".
OpenBreakerProbes == (breaker.state = "open") ~> (breaker.state # "open")
=============================================================================
