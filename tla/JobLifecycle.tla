---------------------------- MODULE JobLifecycle ----------------------------
(***************************************************************************)
(* The life of a background job in the API process (api/server.py): the    *)
(* handlers that start, cancel, delete, retry, resume and reparse jobs,    *)
(* the worker thread that runs each one, and the recovery thread of a      *)
(* restarted process, all sharing the disk job store and the slots.        *)
(*                                                                         *)
(* Who runs where.  Handlers and the end of _dispatch run on the event     *)
(* loop, so the code between two awaits is one step.  A handler that       *)
(* checks a password reads the record, awaits the check on a worker        *)
(* thread, and then acts on the record it read before.  _run_job and the   *)
(* recovery run on threads of their own, so each of their store calls is a *)
(* step.  Any call that writes a file may raise instead (a full disk), and *)
(* a crash loses everything but the files.                                 *)
(***************************************************************************)
EXTENDS DiskJobStore, ApiState, Integers

CONSTANTS
    Requests,       \* operator requests that can be in flight together
    Operations,     \* the operations those requests may ask for
    NewJobLocks,    \* whether a new job carries a password: a set of Locks
    Sinks,          \* what is saved on the way: a crawl's "checkpoint" and
                    \* "homepage", the "delete_lockout" of a wrong password
    Keys,           \* Idempotency-Key header values of one org
    WritesFail,     \* whether the disk may refuse a write
    EarlyRequests,  \* whether requests arrive before the recovery has ended
    MaxCrashes      \* bound: how often the process is killed

VARIABLES
    slots,          \* ApiState's registries
    cancelled,      \* jobs whose cancel Event is set
    thread,         \* what the worker thread of each job is doing
    taskFacet,      \* the facet_id argument of each job's _dispatch task
    classifiers,    \* jobs whose task is _dispatch; the others' is _dispatch_sf_job
    accounts,       \* open accounts of the shared memory budget
    req,            \* the handlers in flight
    registry,       \* _idempotency_registry
    recovery,       \* the recovery thread of this process
    crashes,        \* how often the process was killed so far
    abandoned       \* open jobs that a writer of this process raised on and left
                    \* behind; no action reads it

apiVars == <<slots, cancelled, thread, taskFacet, classifiers, accounts>>
vars == <<records, sidecars, nextId, slots, cancelled, thread, taskFacet,
          classifiers, accounts, req, registry, recovery, crashes, abandoned>>

ASSUME OperationsAssumption ==
    Operations \subseteq {"create", "sf", "cancel", "delete", "retry", "resume", "reparse"}
ASSUME NewJobLocksAssumption == NewJobLocks \subseteq Locks
ASSUME WritesFailAssumption == WritesFail \in BOOLEAN
ASSUME EarlyRequestsAssumption == EarlyRequests \in BOOLEAN
ASSUME MaxCrashesAssumption == MaxCrashes \in Nat

NoJob == 0
NoKey == "no key"
Pending == 0    \* the provisional id of a reservation

\* The places a worker thread can be, in _run_job and in its _dispatch.
InTool == {"crawling", "flagging"}
InRun == InTool \cup {"opened", "finishing", "publishing", "failing", "crashing", "closing",
                      "raising"}
Live == InRun \cup {"submitted", "ended", "raised"}
Threads == Live \cup {"none"}

Idle == [op |-> "none", at |-> "idle", job |-> NoJob, key |-> NoKey,
         status |-> "absent", facet |-> DefaultFacet, lock |-> "none", carry |-> {}]
Request ==
    [op     : Operations \cup {"none"},
     at     : {"idle", "hash", "gate", "admitted", "reparse blob", "reparse record",
               "reparse homepage"},
     job    : Jobs \cup {NoJob},
     key    : Keys \cup {NoKey},
     status : Open \cup Terminal \cup {"absent"},
     facet  : Facets,
     lock   : Locks,
     carry  : SUBSET {"homepage"}]

\* No handler is between two of its synchronous store calls: the event loop
\* can run the next piece of another handler.
LoopFree ==
    \A r \in Requests : req[r].at \notin {"reparse blob", "reparse record", "reparse homepage"}

TypeOK ==
    /\ StoreTypeOK
    /\ slots \in [active : SUBSET Jobs, facet : [Facets -> SUBSET Jobs], flags : SUBSET Jobs]
    /\ cancelled \subseteq Jobs
    /\ thread \in [Jobs -> Threads]
    /\ taskFacet \in [Jobs -> Facets]
    /\ classifiers \subseteq Jobs
    /\ accounts \subseteq Jobs
    /\ req \in [Requests -> Request]
    /\ registry \in [Keys -> Jobs \cup {NoJob}]
    /\ recovery \in [at : {"listing", "failing", "done"}, todo : SUBSET Jobs]
    /\ crashes \in 0 .. MaxCrashes
    /\ abandoned \subseteq Jobs

Init ==
    /\ StoreInit
    /\ slots = NoSlots
    /\ cancelled = {}
    /\ thread = [j \in Jobs |-> "none"]
    /\ taskFacet = [j \in Jobs |-> DefaultFacet]
    /\ classifiers = {}
    /\ accounts = {}
    /\ req = [r \in Requests |-> Idle]
    /\ registry = [k \in Keys |-> NoJob]
    /\ recovery = [at |-> "listing", todo |-> {}]
    /\ crashes = 0
    /\ abandoned = {}

\* The server answers while the recovery thread runs; an instance may leave
\* the requests for afterwards.
Serving == LoopFree /\ (EarlyRequests \/ recovery.at = "done")

\* A store call on job j may raise: JobNotFoundError when its record is gone,
\* OSError when the file cannot be written.
MayRaise(j) == ~Exists(j) \/ WritesFail

-----------------------------------------------------------------------------
(* Starting a job.                                                         *)

\* _start once the payload is admitted: reserve under a provisional id,
\* create the record, move the reservation onto its id, and hand _run_job to
\* a thread.  No other handler can name the new id before _dispatch's first
\* step has looked up the cancel event, so that step is part of this one.
StartJob(f, l, t) ==
    /\ HasCapacity(slots, f)
    /\ Create(f, l, t)
    /\ slots' = Rekey(Reserve(slots, Pending, f), Pending, nextId, f)
    /\ thread' = [thread EXCEPT ![nextId] = "submitted"]
    /\ taskFacet' = [taskFacet EXCEPT ![nextId] = f]
    /\ classifiers' = IF t = "classifier" THEN classifiers \cup {nextId} ELSE classifiers
    /\ UNCHANGED <<cancelled, accounts>>

\* The store failed to create the record: the reservation is given back.
StartFails(f) ==
    /\ HasCapacity(slots, f)
    /\ slots' = Release(Reserve(slots, Pending, f), Pending, f)
    /\ UNCHANGED <<storeVars, cancelled, thread, taskFacet, classifiers, accounts>>

\* 429: no slot is free, and nothing was written.
StartRefused(f) ==
    /\ ~HasCapacity(slots, f)
    /\ UNCHANGED <<storeVars, apiVars>>

Start(f, l, t) == StartJob(f, l, t) \/ StartFails(f) \/ StartRefused(f)

\* _check_idempotency_key: the key's job, when that job still exists.
KnownKey(k) == k # NoKey /\ registry[k] # NoJob /\ Exists(registry[k])

\* The registry once the check has failed: a stale entry is dropped.
Unclaimed(k) == [h \in Keys |-> IF h = k THEN NoJob ELSE registry[h]]

\* _store_idempotency_key, when the start created a job.
StoreKey(reg, k) ==
    registry' = IF k # NoKey /\ nextId' # nextId THEN [reg EXCEPT ![k] = nextId] ELSE reg

\* create_job up to its only await.  A known key answers with the existing
\* job; a stale one is dropped.  Without a password nothing is awaited and
\* the job starts in this step.  The facet is the caller's: any one it names,
\* the Screaming Frog one included, runs the page classifier.
CreateJob(r, k, l, f) ==
    /\ Serving
    /\ req[r].at = "idle"
    /\ "create" \in Operations
    /\ ~KnownKey(k)
    /\ \/ /\ l = "none"
          /\ Start(f, l, "classifier")
          /\ StoreKey(Unclaimed(k), k)
          /\ UNCHANGED req
       \/ /\ l = "password"
          /\ req' = [req EXCEPT ![r] = [Idle EXCEPT !.op = "create", !.at = "hash", !.key = k,
                                                   !.facet = f, !.lock = l]]
          /\ registry' = Unclaimed(k)
          /\ UNCHANGED <<storeVars, apiVars>>
    /\ UNCHANGED <<recovery, crashes, abandoned>>

\* create_job after the password was hashed on a worker thread.
CreateJobHashed(r) ==
    /\ LoopFree
    /\ req[r].at = "hash"
    /\ Start(req[r].facet, req[r].lock, "classifier")
    /\ StoreKey(registry, req[r].key)
    /\ req' = [req EXCEPT ![r] = Idle]
    /\ UNCHANGED <<recovery, crashes, abandoned>>

\* create_screaming_frog_job, with a preview token that peek accepts.
CreateSFJob(f) ==
    /\ Serving
    /\ "sf" \in Operations
    /\ Start(f, "none", "frog")
    /\ UNCHANGED <<req, registry, recovery, crashes, abandoned>>

-----------------------------------------------------------------------------
(* The worker thread: _run_job, or _run_sf_job for a Screaming Frog job.   *)

IsCrawl(j) == j \in classifiers

\* A store call of the thread: what it does, or where the exception takes it
\* when it raises.
StoreCall(j, call, next, raises) ==
    \/ call /\ thread' = [thread EXCEPT ![j] = next]
    \/ /\ MayRaise(j)
       /\ thread' = [thread EXCEPT ![j] = raises]
       /\ UNCHANGED storeVars

\* Whoever was to end the jobs of J raises, and leaves those still open.
Abandon(J) == abandoned' = abandoned \cup {j \in J : records[j].status \in Open}

ThreadOnly ==
    UNCHANGED <<slots, cancelled, taskFacet, classifiers, req, registry, recovery, crashes>>

\* memory_budget.open; a Screaming Frog run has no account.
RunOpen(j) ==
    /\ thread[j] = "submitted"
    /\ accounts' = IF IsCrawl(j) THEN accounts \cup {j} ELSE accounts
    /\ thread' = [thread EXCEPT ![j] = "opened"]
    /\ UNCHANGED <<storeVars, abandoned>> /\ ThreadOnly

RunMarkRunning(j) ==
    /\ thread[j] = "opened"
    /\ StoreCall(j, MarkRunning(j), "crawling", "crashing")
    /\ UNCHANGED <<accounts, abandoned>> /\ ThreadOnly

\* The checkpoint sink.  Called on the thread that crawls, so one write of a
\* job ends before the next begins; the crawl logs what it raises and goes on.
CheckpointSaves(j) ==
    /\ thread[j] = "crawling" /\ IsCrawl(j) /\ "checkpoint" \in Sinks
    /\ StoreCall(j, CheckpointBlob(j), "flagging", "crawling")
    /\ UNCHANGED <<accounts, abandoned>> /\ ThreadOnly
CheckpointFlags(j) ==
    /\ thread[j] = "flagging"
    /\ StoreCall(j, CheckpointRecord(j), "crawling", "crawling")
    /\ UNCHANGED <<accounts, abandoned>> /\ ThreadOnly

\* The homepage sink; write_homepage never raises.
HomepageSaves(j) ==
    /\ thread[j] = "crawling" /\ IsCrawl(j) /\ "homepage" \in Sinks
    /\ WriteSidecar(j, "homepage")
    /\ UNCHANGED <<thread, accounts, abandoned>> /\ ThreadOnly

\* tool.run comes back: with output, with an error, or by raising.  A crawl
\* that sees its cancel event stops early and comes back with output too.
ToolReturns(j) ==
    /\ thread[j] = "crawling"
    /\ \E next \in {"finishing", "failing", "crashing"} :
           thread' = [thread EXCEPT ![j] = next]
    /\ UNCHANGED <<storeVars, accounts, abandoned>> /\ ThreadOnly

\* store.finish: the blob, ...
RunFinishBlob(j) ==
    /\ thread[j] = "finishing"
    /\ StoreCall(j, FinishBlob(j), "publishing", "crashing")
    /\ UNCHANGED <<accounts, abandoned>> /\ ThreadOnly

\* ... and then the record; PARTIAL when the crawl was cut short, which a
\* Screaming Frog run never reports.
RunFinishRecord(j) ==
    /\ thread[j] = "publishing"
    /\ \E status \in IF IsCrawl(j) THEN {"succeeded", "partial"} ELSE {"succeeded"} :
           StoreCall(j, FinishRecord(j, status), "closing", "crashing")
    /\ UNCHANGED <<accounts, abandoned>> /\ ThreadOnly

\* Mistake: the except clause logs the crash and does not fail the job.
RunMarkFailedOnError(j) ==
    /\ thread[j] \in {"failing", "crashing"}
    /\ IF thread[j] = "failing" THEN StoreCall(j, MarkFailed(j), "closing", "crashing")
       ELSE thread' = [thread EXCEPT ![j] = "closing"] /\ UNCHANGED storeVars
    /\ UNCHANGED <<accounts, abandoned>> /\ ThreadOnly

\* mark_failed, for a tool error and from the except clause.  In the except
\* clause nothing catches what it raises, and a job that is still there is
\* left behind as it is.
RunMarkFailed(j) ==
    /\ thread[j] \in {"failing", "crashing"}
    /\ StoreCall(j, MarkFailed(j), "closing",
                 IF thread[j] = "failing" THEN "crashing" ELSE "raising")
    /\ IF thread'[j] = "raising" THEN Abandon({j}) ELSE UNCHANGED abandoned
    /\ UNCHANGED accounts /\ ThreadOnly

\* Mistake: the account is closed only when _run_job returns.
RunCloseOnReturn(j) ==
    /\ thread[j] \in {"closing", "raising"}
    /\ accounts' = IF thread[j] = "closing" THEN accounts \ {j} ELSE accounts
    /\ thread' = [thread EXCEPT ![j] = IF @ = "closing" THEN "ended" ELSE "raised"]
    /\ UNCHANGED <<storeVars, abandoned>> /\ ThreadOnly

\* The finally clause: the account is closed on every path.
RunClose(j) ==
    /\ thread[j] \in {"closing", "raising"}
    /\ accounts' = accounts \ {j}
    /\ thread' = [thread EXCEPT ![j] = IF @ = "closing" THEN "ended" ELSE "raised"]
    /\ UNCHANGED <<storeVars, abandoned>> /\ ThreadOnly

\* The task is over: nobody refers to its arguments and its event any more.
TaskEnds(j) ==
    /\ thread' = [thread EXCEPT ![j] = "none"]
    /\ cancelled' = cancelled \ {j}
    /\ taskFacet' = [taskFacet EXCEPT ![j] = DefaultFacet]
    /\ classifiers' = classifiers \ {j}
    /\ UNCHANGED <<storeVars, accounts, req, registry, recovery, crashes, abandoned>>

\* Mistake: no finally around the await, so a raising run keeps its slot.
DispatchReleasesOnReturn(j) ==
    /\ LoopFree
    /\ thread[j] \in {"ended", "raised"}
    /\ slots' = IF thread[j] = "ended" THEN Release(slots, j, taskFacet[j]) ELSE slots
    /\ TaskEnds(j)

\* Back on the event loop, _dispatch releases the slot whatever happened.
DispatchReleases(j) ==
    /\ LoopFree
    /\ thread[j] \in {"ended", "raised"}
    /\ slots' = Release(slots, j, taskFacet[j])
    /\ TaskEnds(j)

RunStep(j) ==
    \/ RunOpen(j) \/ RunMarkRunning(j) \/ CheckpointFlags(j) \/ RunFinishBlob(j)
    \/ RunFinishRecord(j) \/ RunMarkFailed(j) \/ RunClose(j) \/ DispatchReleases(j)

-----------------------------------------------------------------------------
(* Requests on an existing job.                                            *)

\* The first part of cancel_job, delete_job, retry_job, resume_job and
\* reparse_job: read the record, and hand the password check to a thread.
\* Delete refuses an unprotected job; reparse needs a stored result, and
\* one of the page classifier.
ReadRecord(r, op, j) ==
    /\ Serving
    /\ req[r].at = "idle"
    /\ op \in Operations \ {"create", "sf"}
    /\ Exists(j)
    /\ op = "delete" => records[j].lock = "password"
    /\ op = "reparse" => "result" \in sidecars[j] /\ records[j].tool = "classifier"
    /\ req' = [req EXCEPT ![r] =
                  [Idle EXCEPT !.op = op, !.at = "gate", !.job = j,
                               !.status = records[j].status, !.facet = records[j].facet,
                               !.lock = records[j].lock]]
    /\ UNCHANGED <<storeVars, apiVars, registry, recovery, crashes, abandoned>>

GateOnly == UNCHANGED <<apiVars, registry, recovery, crashes, abandoned>>

\* require_job_password on its thread: nothing to check, or the right
\* password, which clears the wrong-password history.
GatePasses(r) ==
    /\ req[r].at = "gate"
    /\ IF req[r].lock = "password" THEN ClearDeleteLockout(req[r].job) ELSE UNCHANGED storeVars
    /\ req' = [req EXCEPT ![r].at = "admitted"]
    /\ GateOnly

\* A wrong password is counted in the job's lockout sidecar.
GateCountsFailure(r) ==
    /\ req[r].at = "gate" /\ req[r].lock = "password" /\ "delete_lockout" \in Sinks
    /\ RecordFailedDelete(req[r].job)
    /\ req' = [req EXCEPT ![r] = Idle]
    /\ GateOnly

\* Rate limited, no password given, or locked: refused without a write.  So
\* is a wrong password whose count cannot be written.
GateRefuses(r) ==
    /\ req[r].at = "gate" /\ req[r].lock = "password"
    /\ req' = [req EXCEPT ![r] = Idle]
    /\ UNCHANGED storeVars /\ GateOnly

\* The handler r is back on the event loop, to act on what it read.
Acts(r, op) ==
    /\ LoopFree
    /\ req[r].at = "admitted" /\ req[r].op = op
    /\ UNCHANGED <<registry, recovery, crashes, abandoned>>
Answers(r) == req' = [req EXCEPT ![r] = Idle]

\* Mistake: the slot goes first, and the event can no longer be looked up.
StopCrawlReleaseFirst(j, f) ==
    /\ slots' = Release(slots, j, f)
    /\ cancelled' = IF j \in slots'.flags THEN cancelled \cup {j} ELSE cancelled
    /\ UNCHANGED <<thread, taskFacet, classifiers, accounts>>

\* Set the job's cancel event, if it still holds a slot, then release it.
StopCrawl(j, f) ==
    /\ cancelled' = IF j \in slots.flags THEN cancelled \cup {j} ELSE cancelled
    /\ slots' = Release(slots, j, f)
    /\ UNCHANGED <<thread, taskFacet, classifiers, accounts>>

\* Mistake: a job that has ended can be cancelled.
CancelJobUnguarded(r) ==
    /\ Acts(r, "cancel") /\ Answers(r)
    /\ StopCrawl(req[r].job, req[r].facet)
    /\ MarkFailed(req[r].job) \/ (MayRaise(req[r].job) /\ UNCHANGED storeVars)

\* cancel_job: refused on the status read before the await; the job is
\* failed without looking at its status again, unless mark_failed raises
\* once the slot is gone.
CancelJob(r) ==
    /\ Acts(r, "cancel") /\ Answers(r)
    /\ IF req[r].status \in Open
       THEN /\ StopCrawl(req[r].job, req[r].facet)
            /\ MarkFailed(req[r].job) \/ (MayRaise(req[r].job) /\ UNCHANGED storeVars)
       ELSE UNCHANGED <<storeVars, apiVars>>

\* delete_job: the crawl is told to stop only when it was read as running.
DeleteJob(r) ==
    /\ Acts(r, "delete") /\ Answers(r)
    /\ IF req[r].status = "running" THEN StopCrawl(req[r].job, req[r].facet)
                                    ELSE UNCHANGED apiVars
    /\ IF Exists(req[r].job) THEN Delete(req[r].job) ELSE UNCHANGED storeVars

\* _stored_payload: the job is still there and its request is a crawl's.
Replayable(r) == Exists(req[r].job) /\ records[req[r].job].tool = "classifier"

\* retry_job: the same crawl as a new job under the same facet and password.
RetryJob(r) ==
    /\ Acts(r, "retry") /\ Answers(r)
    /\ IF Replayable(r) THEN Start(req[r].facet, req[r].lock, "classifier")
                       ELSE UNCHANGED <<storeVars, apiVars>>

\* resume_job: a new job over what the checkpoint had not fetched, refused
\* unless the record was read as terminal and a checkpoint is there; a
\* checkpoint with nothing left is refused too.
ResumeJob(r) ==
    /\ Acts(r, "resume") /\ Answers(r)
    /\ \/ /\ Replayable(r)
          /\ req[r].status \in Terminal
          /\ "checkpoint" \in sidecars[req[r].job]
          /\ Start(req[r].facet, req[r].lock, "classifier")
       \/ UNCHANGED <<storeVars, apiVars>>

\* reparse_job: create, finish and write_homepage in one go on the event
\* loop, without a slot, but as separate store calls.  When one of the first
\* two raises, the request fails, and a record that is there stays as it is.
ReparseCreates(r) ==
    /\ Acts(r, "reparse")
    /\ \/ /\ Create(DefaultFacet, req[r].lock, "classifier")
          /\ req' = [req EXCEPT ![r].at = "reparse blob", ![r].job = nextId,
                                ![r].carry = sidecars[req[r].job] \cap {"homepage"}]
       \/ WritesFail /\ UNCHANGED storeVars /\ Answers(r)
    /\ UNCHANGED apiVars
ReparseStores(r) ==
    /\ \/ /\ req[r].at = "reparse blob"
          /\ FinishBlob(req[r].job)
          /\ req' = [req EXCEPT ![r].at = "reparse record"]
       \/ /\ req[r].at = "reparse record"
          /\ FinishRecord(req[r].job, "succeeded")
          /\ req' = [req EXCEPT ![r].at = "reparse homepage"]
       \/ /\ req[r].at = "reparse homepage"
          /\ \/ req[r].carry # {} /\ WriteSidecar(req[r].job, "homepage")
             \/ (req[r].carry = {} \/ MayRaise(req[r].job)) /\ UNCHANGED storeVars
          /\ Answers(r)
    /\ UNCHANGED <<apiVars, registry, recovery, crashes, abandoned>>
ReparseRaises(r) ==
    /\ req[r].at \in {"reparse blob", "reparse record"}
    /\ MayRaise(req[r].job)
    /\ Abandon({req[r].job})
    /\ Answers(r)
    /\ UNCHANGED <<storeVars, apiVars, registry, recovery, crashes>>

\* Other endpoints attach a sidecar to a job that exists.
Attach(j, kind) ==
    /\ WriteSidecar(j, kind)
    /\ UNCHANGED <<apiVars, req, registry, recovery, crashes, abandoned>>

-----------------------------------------------------------------------------
(* Restart and recovery.                                                   *)

\* The process dies and another one boots: only the files survive.
Restart ==
    /\ crashes < MaxCrashes
    /\ crashes' = crashes + 1
    /\ slots' = NoSlots
    /\ cancelled' = {}
    /\ thread' = [j \in Jobs |-> "none"]
    /\ taskFacet' = [j \in Jobs |-> DefaultFacet]
    /\ classifiers' = {}
    /\ accounts' = {}
    /\ req' = [r \in Requests |-> Idle]
    /\ registry' = [k \in Keys |-> NoJob]
    /\ recovery' = [at |-> "listing", todo |-> {}]
    /\ abandoned' = {}

Crash == Restart /\ UNCHANGED storeVars
CrashInDelete(r) ==
    /\ LoopFree
    /\ req[r].at = "admitted" /\ req[r].op = "delete"
    /\ DeleteInterrupted(req[r].job)
    /\ Restart

RecoveryOnly == UNCHANGED <<apiVars, req, registry, crashes>>

\* Mistake: a job that was still queued is not taken for an orphan.
RecoverListRunning ==
    /\ recovery.at = "listing"
    /\ recovery' = [at |-> "failing", todo |-> {j \in Jobs : records[j].status = "running"}]
    /\ UNCHANGED <<storeVars, abandoned>> /\ RecoveryOnly

\* recover_orphans, on a thread of its own while requests are served: it
\* lists the records that are not terminal, ...
RecoverList ==
    /\ recovery.at = "listing"
    /\ recovery' = [at |-> "failing", todo |-> {j \in Jobs : records[j].status \in Open}]
    /\ UNCHANGED <<storeVars, abandoned>> /\ RecoveryOnly

\* ... then fails them one by one, newest first.  A record that is gone by
\* then, or that cannot be written, raises, which ends the recovery and
\* leaves the rest of the list behind.
RecoverOne ==
    /\ recovery.at = "failing"
    /\ \E j \in recovery.todo :
          /\ \A i \in recovery.todo : i <= j
          /\ \/ /\ MarkFailed(j)
                /\ recovery' = [recovery EXCEPT !.todo = @ \ {j}]
                /\ UNCHANGED abandoned
             \/ /\ MayRaise(j)
                /\ recovery' = [at |-> "done", todo |-> {}]
                /\ Abandon(recovery.todo)
                /\ UNCHANGED storeVars
    /\ RecoveryOnly
RecoverEnds ==
    /\ recovery.at = "failing" /\ recovery.todo = {}
    /\ recovery' = [at |-> "done", todo |-> {}]
    /\ UNCHANGED <<storeVars, abandoned>> /\ RecoveryOnly

-----------------------------------------------------------------------------
Next ==
    \/ \E r \in Requests, k \in Keys \cup {NoKey}, l \in NewJobLocks, f \in Facets :
           CreateJob(r, k, l, f)
    \/ \E f \in SFFacets : CreateSFJob(f)
    \/ \E r \in Requests, op \in Operations, j \in Jobs : ReadRecord(r, op, j)
    \/ \E r \in Requests :
           \/ CreateJobHashed(r)
           \/ GatePasses(r) \/ GateCountsFailure(r) \/ GateRefuses(r)
           \/ CancelJob(r) \/ DeleteJob(r) \/ RetryJob(r) \/ ResumeJob(r)
           \/ ReparseCreates(r) \/ ReparseStores(r) \/ ReparseRaises(r)
           \/ CrashInDelete(r)
    \/ \E j \in Jobs :
           \/ RunStep(j)
           \/ CheckpointSaves(j) \/ HomepageSaves(j) \/ ToolReturns(j)
    \/ \E j \in Jobs, kind \in Attachments : Attach(j, kind)
    \/ RecoverList \/ RecoverOne \/ RecoverEnds
    \/ Crash

\* A thread that was handed work runs it; a crawl ends because its page
\* budget and the deadline of each request are finite, however often it
\* checkpoints in between; a handler that holds the event loop goes on; the
\* recovery thread runs.  Nothing makes operators send requests or gates
\* answer, and nothing makes the process crash.
Fairness ==
    /\ \A j \in Jobs : WF_vars(RunStep(j)) /\ SF_vars(ToolReturns(j))
    /\ \A r \in Requests : WF_vars(ReparseStores(r) \/ ReparseRaises(r))
    /\ WF_vars(RecoverList) /\ WF_vars(RecoverOne) /\ WF_vars(RecoverEnds)

Spec == Init /\ [][Next]_vars
FairSpec == Spec /\ Fairness

-----------------------------------------------------------------------------
(* Safety.                                                                 *)

\* The three registries of ApiState agree and no limit is exceeded, through
\* the provisional ids of _start and every order of cancels and releases.
SlotBookkeeping == SlotsConsistent(slots) /\ WithinLimits(slots)

\* A held slot belongs to a job whose _dispatch is still there to release
\* it, under the facet that _dispatch will name: no slot leaks.
EverySlotHasADispatch ==
    \A j \in Jobs : j \in slots.active => thread[j] \in Live /\ j \in slots.facet[taskFacet[j]]

\* A crawl that lost its slot before it ended has its cancel event set:
\* cancel_job and delete_job set the event before they drop it.
EvictedCrawlIsCancelled ==
    \A j \in Jobs : thread[j] \in Live /\ j \notin slots.active => j \in cancelled

\* The page-HTML budget counts exactly the crawls whose thread is running,
\* cancelled and failed ones included (the finally of _run_job).
BudgetCountsRunningCrawls ==
    accounts = {j \in Jobs : thread[j] \in InRun /\ IsCrawl(j)}

\* An open job has somebody who will end it: the thread that runs it, which
\* has not reached its closing code; the reparse that is writing it; or, when
\* a process before this one left it, the recovery.  The only open jobs
\* without one are those whose writer raised: mark_failed in the except
\* clause, a reparse, or a recovery, on a file that could not be written or,
\* in the recovery, a job deleted meanwhile.
HasWriter(j) ==
    \/ thread[j] \in (InRun \cup {"submitted"}) \ {"closing", "raising"}
    \/ \E r \in Requests :
          req[r].at \in {"reparse blob", "reparse record"} /\ req[r].job = j
    \/ thread[j] = "none" /\ (recovery.at = "listing" \/ j \in recovery.todo)
    \/ j \in abandoned
OpenJobHasAWriter == \A j \in Jobs : records[j].status \in Open => HasWriter(j)

\* Once a job is deleted its record never comes back, and no writer that
\* was already under way leaves a sidecar of it behind; only a wrong
\* password still being checked can.
DeletedStaysDeleted ==
    [][\A j \in Jobs :
          j < nextId /\ ~Exists(j) =>
              /\ ~Exists(j)'
              /\ sidecars'[j] \subseteq sidecars[j] \cup {"delete_lockout"}]_vars

\* Who may still change the status of a job that reads as terminal: its own
\* thread, a cancel that read it before it ended, a recovery that had not
\* gone past it, or the reparse that is writing it.
Unsettled(j) ==
    \/ thread[j] \in Live
    \/ \E r \in Requests : req[r].op = "cancel" /\ req[r].job = j /\ req[r].status \in Open
    \/ \E r \in Requests : req[r].op = "reparse" /\ req[r].job = j /\ ~LoopFree
    \/ j \in recovery.todo

\* A terminal job nobody is still working on keeps its status until it is
\* deleted: what a poller that stopped polling was shown stays true.
SettledJobKeepsItsStatus ==
    [][\A j \in Jobs :
          records[j].status \in Terminal /\ ~Unsettled(j) =>
              records'[j].status \in {records[j].status, "absent"}]_vars

-----------------------------------------------------------------------------
(* What the safety invariants need to be inductive.                        *)

\* A handler past its first read names a job that was minted.
HandlersNameJobs ==
    \A r \in Requests : req[r].at \notin {"idle", "hash"} => req[r].job \in 1 .. (nextId - 1)

\* An id that is not minted yet has no record and no thread.
FreshIds ==
    \A j \in Jobs : j >= nextId => records[j] = NoRecord /\ thread[j] = "none"

\* Between the two lock regions of finish and of write_checkpoint the blob
\* is there, unless the job was deleted meanwhile.
BlobBeforeRecord ==
    /\ \A j \in Jobs :
          Exists(j) => /\ thread[j] = "publishing" => "result" \in sidecars[j]
                       /\ thread[j] = "flagging" => "checkpoint" \in sidecars[j]
    /\ \A r \in Requests :
          req[r].at = "reparse record" /\ Exists(req[r].job) => "result" \in sidecars[req[r].job]

\* The record, the dispatch task and the handlers know a job by one facet.
FacetsAgree ==
    \A j \in Jobs : thread[j] \in Live =>
        /\ Exists(j) => records[j].facet = taskFacet[j]
        /\ \A r \in Requests :
              req[r].at \in {"gate", "admitted"} /\ req[r].job = j => req[r].facet = taskFacet[j]

StoreInv == HandlersNameJobs /\ FreshIds /\ BlobBeforeRecord /\ AdvertisedIsOnDisk
SlotInv ==
    /\ SlotBookkeeping /\ EverySlotHasADispatch /\ EvictedCrawlIsCancelled
    /\ FacetsAgree

-----------------------------------------------------------------------------
(* Liveness.                                                               *)

\* Every accepted job ends: it reaches a terminal status or is deleted,
\* whoever cancels, deletes, retries or reparses meanwhile.  A job whose
\* writer raised may stay open, but only in this process: the next one
\* starts with nothing abandoned and owes it an end again.
EveryJobEnds ==
    \A j \in Jobs : records[j].status \in Open ~> records[j].status \notin Open \/ j \in abandoned

\* A slot that is held is given back.
EverySlotComesBack ==
    \A j \in Jobs : j \in slots.active ~> j \notin slots.active

-----------------------------------------------------------------------------
(* Statements of the repository that the code does not keep.               *)

\* "Fail every job left non-terminal by a previous process": a job whose
\* thread runs in this process is not one of those.
RecoveryFailsOnlyOrphans ==
    [][\A j \in Jobs :
          j \in recovery.todo /\ recovery'.at = "failing" /\ j \notin recovery'.todo =>
              thread[j] = "none"]_vars

\* "Duplicate requests with the same key return the existing job instead of
\* creating a new one": a key is given to another job only once its job is
\* gone.
KeyKeepsItsJob ==
    [][\A k \in Keys :
          registry[k] # NoJob /\ registry'[k] \notin {NoJob, registry[k]} =>
              ~Exists(registry[k])]_vars
=============================================================================
