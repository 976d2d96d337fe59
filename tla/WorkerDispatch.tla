--------------------------- MODULE WorkerDispatch ---------------------------
(* A Screaming Frog crawl dispatched from the cloud to an operator's desktop *)
(* (src/src/api/worker_dashboard_routes.py, worker_routes.py, the dispatch   *)
(* store in core/postgres_worker_dispatch_store.py, and the daemon of        *)
(* modules/seo/screaming_frog_control/worker_daemon.py).  Every store method *)
(* is one transaction and one action.  A request may be lost, and one the    *)
(* daemon has given up on is still handled later.                            *)
EXTENDS Naturals, Sequences, FiniteSets

CONSTANTS
    Tokens,           \* the preview tokens that are minted
    ListTokens,       \* those bound to a stored URL list
    Confirms,         \* confirm requests in flight at a time
    MaxCrashes,       \* bound on the daemon's crashes
    MaxAbandoned      \* bound on the requests the daemon gives up on

ASSUME DispatchAssumption ==
    /\ IsFiniteSet(Tokens)
    /\ ListTokens \subseteq Tokens
    /\ MaxCrashes \in Nat /\ MaxAbandoned \in Nat

VARIABLES
    token,            \* worker_dispatch_previews: the state of each token
    jobs,             \* worker_jobs in the order of created_at
    seen,             \* the worker has checked in
    confirm,          \* the confirm handlers: idle, or past find_active_job
    daemon,           \* where the daemon's one thread is, and with which job
    ledger,           \* the ids in the ConsumedJobLedger's file
    requests,         \* the daemon's requests the cloud has not answered
    reply,            \* the answer the daemon's thread has not looked at
    launches,         \* how often Screaming Frog was started for each job
    crashes, abandoned

cloud == <<token, jobs, seen, confirm>>
desktop == <<daemon, ledger, launches>>
network == <<requests, reply>>
bounds == <<crashes, abandoned>>
vars == <<cloud, desktop, network, bounds>>

JobIds == 1 .. Cardinality(Tokens)
NoJob == 0
Claimable == {"queued", "dispatched"}
Uploaded == {"succeeded", "partial"}
Statuses == Claimable \cup Uploaded \cup {"failed"}

Job == [status : Statuses, token : Tokens, bundle : BOOLEAN]

DaemonSteps ==
    {"down", "idle", "polling", "assigned", "fetching", "approving", "consumed",
     "crawling", "exported", "settling"}

Request ==
    [op : {"poll", "list", "failed", "upload"}, job : JobIds \cup {NoJob},
     what : {"none"} \cup Uploaded, at : {"sent", "halfway"}, awaited : BOOLEAN]

Assigned(j) == [is |-> "assignment", job |-> j]
NoReply == [is |-> "none", job |-> NoJob]
Ok == [is |-> "ok", job |-> NoJob]
Refused == [is |-> "error", job |-> NoJob]
Replies == {NoReply, Ok, Refused} \cup {Assigned(j) : j \in JobIds}

Init ==
    /\ token = [t \in Tokens |-> "none"]
    /\ jobs = <<>> /\ seen = FALSE
    /\ confirm = [c \in Confirms |-> [at |-> "idle"]]
    /\ daemon = [at |-> "down", job |-> NoJob]
    /\ ledger = {} /\ requests = {} /\ reply = NoReply
    /\ launches = [j \in JobIds |-> 0]
    /\ crashes = 0 /\ abandoned = 0

-----------------------------------------------------------------------------
(* The dashboard.                                                            *)

Preview(t) ==
    /\ token[t] = "none"
    /\ token' = [token EXCEPT ![t] = "live"]
    /\ UNCHANGED <<jobs, seen, confirm, desktop, network, bounds>>

ActiveJobs == {j \in DOMAIN jobs : jobs[j].status \in Claimable}

\* The route looks before the store's transaction and outside of it.  It may also
\* refuse: a worker not seen lately, a URL list past its retention.
CheckConfirm(c, t) ==
    /\ confirm[c].at = "idle"
    /\ token[t] # "none"
    /\ seen
    /\ ActiveJobs = {}
    /\ confirm' = [confirm EXCEPT ![c] = [at |-> "checked", token |-> t]]
    /\ UNCHANGED <<token, jobs, seen, desktop, network, bounds>>

\* Mistake: the UPDATE does not ask for `consumed_at IS NULL`.
QueueJobOfAnyToken(t) ==
    /\ token' = [token EXCEPT ![t] = "consumed"]
    /\ jobs' = Append(jobs, [status |-> "queued", token |-> t, bundle |-> FALSE])

\* The UPDATE of an unconsumed token and the INSERT of its job.
QueueJob(t) ==
    /\ token[t] = "live"
    /\ token' = [token EXCEPT ![t] = "consumed"]
    /\ jobs' = Append(jobs, [status |-> "queued", token |-> t, bundle |-> FALSE])

ConfirmDispatch(c) ==
    /\ confirm[c].at = "checked"
    /\ QueueJob(confirm[c].token)
    /\ confirm' = [confirm EXCEPT ![c] = [at |-> "idle"]]
    /\ UNCHANGED <<seen, desktop, network, bounds>>

\* 403 for a token that is consumed or past its expiry, 503 for a store that does not answer, or
\* the process dies.
ConfirmRefused(c) ==
    /\ confirm[c].at = "checked"
    /\ confirm' = [confirm EXCEPT ![c] = [at |-> "idle"]]
    /\ UNCHANGED <<token, jobs, seen, desktop, network, bounds>>

Dispatched == {j \in DOMAIN jobs : jobs[j].status = "dispatched"}

\* Mistake: the sweep asks for the wrong status.
ExpireStaleQueued(old) ==
    jobs' = [j \in DOMAIN jobs |->
        IF j \in old /\ jobs[j].status = "queued"
        THEN [jobs[j] EXCEPT !.status = "failed"] ELSE jobs[j]]

\* The sweep of the jobs that were dispatched longer ago than the timeout.
ExpireStaleDispatched(old) ==
    jobs' = [j \in DOMAIN jobs |->
        IF j \in old THEN [jobs[j] EXCEPT !.status = "failed"] ELSE jobs[j]]

ListWorkerJobs(old) ==
    /\ old \subseteq Dispatched
    /\ ExpireStaleDispatched(old)
    /\ UNCHANGED <<token, seen, confirm, desktop, network, bounds>>

-----------------------------------------------------------------------------
(* The worker's routes.                                                      *)

\* The cloud is done with a request; a daemon that went on does not hear of it.
Answer(r, answer) ==
    /\ requests' = requests \ {r}
    /\ reply' = IF r.awaited THEN answer ELSE reply

Halfway(r) ==
    /\ requests' = (requests \ {r}) \cup {[r EXCEPT !.at = "halfway"]}
    /\ UNCHANGED reply

SetStatus(j, status) == jobs' = [jobs EXCEPT ![j].status = status]
SetBundle(j, stored) == jobs' = [jobs EXCEPT ![j].bundle = stored]

PollTouchesAndExpires(r) ==
    /\ r.op = "poll" /\ r.at = "sent"
    /\ seen' = TRUE
    /\ \E old \in SUBSET Dispatched : ExpireStaleDispatched(old)
    /\ Halfway(r)
    /\ UNCHANGED <<token, confirm, desktop, bounds>>

Queued == {j \in DOMAIN jobs : jobs[j].status = "queued"}

PollClaims(r) ==
    /\ r.op = "poll" /\ r.at = "halfway"
    /\ \/ /\ Queued = {}
          /\ Answer(r, Ok)
          /\ UNCHANGED jobs
       \/ \E j \in Queued :
          /\ \A k \in Queued : j <= k
          /\ SetStatus(j, "dispatched")
          /\ Answer(r, Assigned(j))
    /\ UNCHANGED <<token, seen, confirm, desktop, bounds>>

\* A list past its retention is a 404, which `RequestFails` stands for.
DownloadUrlList(r) ==
    /\ r.op = "list"
    /\ Answer(r, Ok)
    /\ UNCHANGED <<cloud, desktop, bounds>>

\* `_transition` writes the status whatever it was.
ReportFailure(r) ==
    /\ r.op = "failed"
    /\ SetStatus(r.job, "failed")
    /\ Answer(r, Ok)
    /\ UNCHANGED <<token, seen, confirm, desktop, bounds>>

\* Mistake: the bundle of a job that expired meanwhile is not stored.
StoreUploadOfDispatched(r) ==
    /\ r.op = "upload" /\ r.at = "sent"
    /\ SetBundle(r.job, jobs[r.job].status = "dispatched")
    /\ Halfway(r)
    /\ UNCHANGED <<token, seen, confirm, desktop, bounds>>

StoreUpload(r) ==
    /\ r.op = "upload" /\ r.at = "sent"
    /\ SetBundle(r.job, TRUE)
    /\ Halfway(r)
    /\ UNCHANGED <<token, seen, confirm, desktop, bounds>>

MarkUploaded(r) ==
    /\ r.op = "upload" /\ r.at = "halfway"
    /\ SetStatus(r.job, r.what)
    /\ Answer(r, Ok)
    /\ UNCHANGED <<token, seen, confirm, desktop, bounds>>

\* The connection breaks, the cloud's process dies, the store is unavailable or
\* the body is refused: at any point, with nothing of the rest done.
RequestFails(r) ==
    /\ Answer(r, Refused)
    /\ UNCHANGED <<cloud, desktop, bounds>>

Handle(r) ==
    \/ PollTouchesAndExpires(r) \/ PollClaims(r) \/ DownloadUrlList(r)
    \/ ReportFailure(r) \/ StoreUpload(r) \/ MarkUploaded(r)
    \/ RequestFails(r)

-----------------------------------------------------------------------------
(* The daemon's one thread.  Progress reports, which it sends best effort and *)
(* which never touch a status, are left out.                                 *)

DaemonAt(step) == daemon.at = step
GoTo(step, j) == daemon' = [at |-> step, job |-> j]

Send(op, j, what, awaited) ==
    requests' = requests \cup
        {[op |-> op, job |-> j, what |-> what, at |-> "sent", awaited |-> awaited]}

\* A call of the client, the thread waiting at `step`.
Call(op, what, step) ==
    /\ Send(op, daemon.job, what, TRUE)
    /\ reply' = NoReply
    /\ GoTo(step, daemon.job)

StartDaemon ==
    /\ DaemonAt("down")
    /\ GoTo("idle", NoJob)
    /\ UNCHANGED <<cloud, ledger, launches, network, bounds>>

Poll ==
    /\ DaemonAt("idle")
    /\ Call("poll", "none", "polling")
    /\ UNCHANGED <<cloud, ledger, launches, bounds>>

\* A failed poll backs off and polls again.
PollReturns ==
    /\ DaemonAt("polling") /\ reply # NoReply
    /\ GoTo(IF reply.is = "assignment" THEN "assigned" ELSE "idle", reply.job)
    /\ reply' = NoReply
    /\ UNCHANGED <<cloud, ledger, launches, requests, bounds>>

\* A ledger file that cannot be read counts as empty.
LedgerReads == {ledger, {}}

\* The check and the write under the ledger's lock: what the write replaces is
\* what was read.
Consume(j) == \E entries \in LedgerReads :
    /\ j \notin entries
    /\ ledger' = entries \cup {j}

AlreadyConsumed(j) == j \in ledger /\ UNCHANGED ledger

\* The assignment has expired, or its job is in the ledger.  Nothing is reported.
DropAssignment ==
    /\ DaemonAt("assigned")
    /\ GoTo("idle", NoJob)
    /\ UNCHANGED <<cloud, ledger, launches, network, bounds>>

AdmitAssignment ==
    /\ DaemonAt("assigned")
    /\ \E entries \in LedgerReads : daemon.job \notin entries
    /\ IF jobs[daemon.job].token \in ListTokens
       THEN Call("list", "none", "fetching")
       ELSE GoTo("approving", daemon.job) /\ UNCHANGED network
    /\ UNCHANGED <<cloud, ledger, launches, bounds>>

UrlListVerified ==
    /\ DaemonAt("fetching") /\ reply = Ok
    /\ GoTo("approving", daemon.job)
    /\ reply' = NoReply
    /\ UNCHANGED <<cloud, ledger, launches, requests, bounds>>

\* `_report_and_consume`: an envelope or a URL list the daemon does not accept.
RejectEnvelope ==
    /\ DaemonAt("assigned") \/ (DaemonAt("fetching") /\ reply # NoReply)
    /\ Consume(daemon.job) \/ AlreadyConsumed(daemon.job)
    /\ Call("failed", "none", "settling")
    /\ UNCHANGED <<cloud, launches, bounds>>

\* The approval callback verifies again and consumes.
ApproveAssignment ==
    /\ DaemonAt("approving")
    /\ Consume(daemon.job)
    /\ GoTo("consumed", daemon.job)
    /\ UNCHANGED <<cloud, launches, network, bounds>>

LaunchSupervised ==
    /\ DaemonAt("consumed")
    /\ launches' = [launches EXCEPT ![daemon.job] = @ + 1]
    /\ GoTo("crawling", daemon.job)
    /\ UNCHANGED <<cloud, ledger, network, bounds>>

\* The assignment expired meanwhile or is consumed, Screaming Frog cannot be
\* started, runs out of time or of licence, or exports nothing to send.
ToolFails ==
    /\ daemon.at \in {"approving", "consumed", "crawling", "exported"}
    /\ Call("failed", "none", "settling")
    /\ UNCHANGED <<cloud, ledger, launches, bounds>>

CrawlCompletes ==
    /\ DaemonAt("crawling")
    /\ GoTo("exported", daemon.job)
    /\ UNCHANGED <<cloud, ledger, launches, network, bounds>>

UploadBundle ==
    /\ DaemonAt("exported")
    /\ \E status \in Uploaded : Call("upload", status, "settling")
    /\ UNCHANGED <<cloud, ledger, launches, bounds>>

\* Mistake: an upload that fails is reported as a failed crawl.
OutcomeReturnsReported ==
    /\ DaemonAt("settling") /\ reply # NoReply
    /\ IF reply = Ok
       THEN GoTo("idle", NoJob) /\ reply' = NoReply /\ UNCHANGED requests
       ELSE Call("failed", "none", "settling")
    /\ UNCHANGED <<cloud, ledger, launches, bounds>>

\* Nobody catches the error of a report or an upload: the daemon ends.
OutcomeReturns ==
    /\ DaemonAt("settling") /\ reply # NoReply
    /\ GoTo(IF reply = Ok THEN "idle" ELSE "down", NoJob)
    /\ reply' = NoReply
    /\ UNCHANGED <<cloud, ledger, launches, requests, bounds>>

\* The thread stops waiting for its request, which goes on without it.
Unawaited ==
    requests' = {[r EXCEPT !.awaited = FALSE] : r \in requests}

\* The request's timeout.
GiveUp ==
    /\ abandoned < MaxAbandoned
    /\ \E r \in requests : r.awaited
    /\ Unawaited
    /\ reply' = Refused
    /\ abandoned' = abandoned + 1
    /\ UNCHANGED <<cloud, desktop, crashes>>

\* The kernel ends the supervised process with the daemon.
DaemonCrash ==
    /\ crashes < MaxCrashes
    /\ ~DaemonAt("down")
    /\ GoTo("down", NoJob)
    /\ Unawaited
    /\ reply' = NoReply
    /\ crashes' = crashes + 1
    /\ UNCHANGED <<cloud, ledger, launches, abandoned>>

DaemonStep ==
    \/ StartDaemon \/ Poll \/ PollReturns
    \/ DropAssignment \/ AdmitAssignment \/ UrlListVerified \/ RejectEnvelope
    \/ ApproveAssignment \/ LaunchSupervised \/ ToolFails
    \/ CrawlCompletes \/ UploadBundle \/ OutcomeReturns

Next ==
    \/ \E t \in Tokens : Preview(t)
    \/ \E c \in Confirms : \/ \E t \in Tokens : CheckConfirm(c, t)
                           \/ ConfirmDispatch(c) \/ ConfirmRefused(c)
    \/ \E old \in SUBSET JobIds : ListWorkerJobs(old)
    \/ \E r \in requests : Handle(r)
    \/ DaemonStep \/ GiveUp \/ DaemonCrash

Spec == Init /\ [][Next]_vars

\* Somebody looks at the dashboard's list now and then, so that a job that stays
\* dispatched is one day swept.
FairSpec ==
    /\ Spec
    /\ \A j \in JobIds :
          WF_vars(\E old \in SUBSET JobIds : j \in old /\ ListWorkerJobs(old))

-----------------------------------------------------------------------------
\* The refinement: a job is an order, a launch of Screaming Frog its start.
Outcome == [j \in JobIds |->
    CASE j \notin DOMAIN jobs -> "absent"
      [] j \in DOMAIN jobs /\ jobs[j].status \in Claimable -> "open"
      [] j \in DOMAIN jobs /\ jobs[j].status \in Uploaded -> "delivered"
      [] OTHER -> "failed"]

Order == INSTANCE CrawlOrders
    WITH Orders <- JobIds, outcome <- Outcome, starts <- launches

\* Every behaviour of cloud, network and desktop is one of the abstract orders:
\* an approval is crawled at most once, nothing is delivered that was not
\* crawled, and a delivered job stays delivered although `_transition` writes
\* any status over any other.
ImplementsCrawlOrders == Order!OrdersSpec

\* An approval is consumed exactly when it has its one job: two confirms of the
\* same token, whatever they read before, queue it once.
OneJobPerApproval ==
    \A t \in Tokens :
        Cardinality({j \in DOMAIN jobs : jobs[j].token = t})
            = IF token[t] = "consumed" THEN 1 ELSE 0

\* A job shown as uploaded has its bundle, wherever the upload stopped.
UploadedHasBundle ==
    \A j \in DOMAIN jobs : jobs[j].status \in Uploaded => jobs[j].bundle

\* A claimed job ends, although the answer to the poll was lost, the desktop
\* was switched off, or the upload never came.
ClaimedJobSettles ==
    \A j \in JobIds :
        (j \in DOMAIN jobs /\ jobs[j].status = "dispatched")
            ~> (j \in DOMAIN jobs /\ jobs[j].status \notin Claimable)
=============================================================================
