------------------------ MODULE WorkerDispatchProofs ------------------------
(* A dispatched crawl keeps what CrawlOrders promises.  No id is remembered  *)
(* anywhere that all of cloud, network and desktop could be trusted to know: *)
(* a job leaves "queued" once, so its one assignment, wherever it is, is the *)
(* only right there will ever be to crawl it and to report of it.  Held and  *)
(* Reported say so, of the daemon and of what is on its way to the cloud.    *)
EXTENDS WorkerDispatch, FiniteSetTheorems, SequenceTheorems, TLAPS

Confirming == [at : {"idle"}] \cup [at : {"checked"}, token : Tokens]

DispatchTypeOK ==
    /\ token \in [Tokens -> {"none", "live", "consumed"}]
    /\ jobs \in Seq(Job)
    /\ confirm \in [Confirms -> Confirming]
    /\ daemon \in [at : DaemonSteps, job : JobIds \cup {NoJob}]
    /\ requests \subseteq Request
    /\ reply \in Replies
    /\ launches \in [JobIds -> {0, 1}]

JobsOf(t) == {j \in DOMAIN jobs : jobs[j].token = t}
Consumed == {t \in Tokens : token[t] = "consumed"}

Approvals == OneJobPerApproval /\ Len(jobs) = Cardinality(Consumed)

\* A job that has left the queue and has not delivered.
Pending(j) == j \in DOMAIN jobs /\ jobs[j].status \in {"dispatched", "failed"}
Holding == {"assigned", "fetching", "approving", "consumed", "crawling", "exported"}
Crawled == {"crawling", "exported"}
Holds(j) == daemon.job = j /\ daemon.at \in Holding
Offered(j) == reply = Assigned(j)
Final(r) == r.op \in {"failed", "upload"}

\* The daemon waits for one request at most, and an assignment only answers a poll.
WaitsAt(r) ==
    CASE r.op = "poll" -> "polling" [] r.op = "list" -> "fetching" [] OTHER -> "settling"
Quiet ==
    /\ reply.is = "assignment" => daemon.at = "polling"
    /\ \A r \in requests : r.awaited =>
         /\ reply = NoReply /\ daemon.at = WaitsAt(r)
         /\ \A q \in requests : q.awaited => q = r

Settled ==
    \A j \in JobIds :
        /\ j \in DOMAIN jobs /\ jobs[j].status \in Uploaded => jobs[j].bundle /\ launches[j] = 1
        /\ j \notin DOMAIN jobs \/ jobs[j].status = "queued" => launches[j] = 0

Held ==
    /\ daemon.at \in Holding => daemon.job \in JobIds
    /\ \A j \in JobIds : Holds(j) \/ Offered(j) =>
         /\ Pending(j)
         /\ launches[j] = IF daemon.at \in Crawled THEN 1 ELSE 0

Reported ==
    \A r \in requests : Final(r) =>
        /\ Pending(r.job) /\ r.job \in JobIds /\ ~Holds(r.job) /\ ~Offered(r.job)
        /\ \A q \in requests : Final(q) /\ q.job = r.job => q = r
        /\ r.op = "upload" => /\ launches[r.job] = 1 /\ r.what \in Uploaded
                              /\ r.at = "halfway" => jobs[r.job].bundle

DispatchInv == DispatchTypeOK /\ Approvals /\ Quiet /\ Settled /\ Held /\ Reported

-----------------------------------------------------------------------------
(* The jobs are a sequence, and it never outgrows the tokens.                *)

LEMMA JobFacts ==
    ASSUME DispatchTypeOK
    PROVE  /\ Len(jobs) \in Nat /\ DOMAIN jobs = 1 .. Len(jobs)
           /\ \A j \in DOMAIN jobs : /\ jobs[j] \in Job /\ jobs[j].status \in Statuses
                                     /\ jobs[j].token \in Tokens /\ jobs[j].bundle \in BOOLEAN
  <1>1. Len(jobs) \in Nat /\ DOMAIN jobs = 1 .. Len(jobs) /\ jobs \in [1 .. Len(jobs) -> Job]
    BY LenProperties DEF DispatchTypeOK
  <1> QED
    BY <1>1 DEF Job

LEMMA TokensAreCounted ==
    /\ IsFiniteSet(Tokens) /\ Cardinality(Tokens) \in Nat
    /\ \A S \in SUBSET Tokens : IsFiniteSet(S) /\ Cardinality(S) \in Nat
                                /\ Cardinality(S) <= Cardinality(Tokens)
  BY DispatchAssumption, FS_Subset, FS_CardinalityType DEF DispatchAssumption

LEMMA JobsAreIds ==
    ASSUME DispatchTypeOK, Approvals
    PROVE  DOMAIN jobs \subseteq JobIds
  <1>1. Consumed \in SUBSET Tokens
    BY DEF Consumed
  <1>2. Len(jobs) <= Cardinality(Tokens) /\ Cardinality(Tokens) \in Nat
    BY <1>1, TokensAreCounted DEF Approvals
  <1> QED
    BY <1>2, JobFacts DEF JobIds

\* What every step but QueueJob does to the sequence of jobs.
JobsKept ==
    /\ jobs' \in Seq(Job) /\ Len(jobs') = Len(jobs) /\ DOMAIN jobs' = DOMAIN jobs
    /\ \A j \in DOMAIN jobs : jobs'[j].token = jobs[j].token

LEMMA ApprovalsKept ==
    ASSUME DispatchTypeOK, Approvals, JobsKept,
           \A t \in Tokens : token'[t] = "consumed" <=> token[t] = "consumed"
    PROVE  Approvals'
  <1>1. Consumed' = Consumed
    BY DEF Consumed
  <1>2. \A t \in Tokens : {j \in DOMAIN jobs' : jobs'[j].token = t} = {j \in DOMAIN jobs : jobs[j].token = t}
    BY DEF JobsKept
  <1> QED
    BY <1>1, <1>2 DEF Approvals, OneJobPerApproval, JobsKept

\* SetStatus, and the other assignments to a field of one job.
LEMMA StatusSet ==
    ASSUME DispatchTypeOK, NEW j \in DOMAIN jobs, NEW status \in Statuses, SetStatus(j, status)
    PROVE  /\ JobsKept
           /\ \A k \in DOMAIN jobs : /\ jobs'[k].bundle = jobs[k].bundle
                                     /\ jobs'[k].status = IF k = j THEN status ELSE jobs[k].status
  <1>1. jobs' = [jobs EXCEPT ![j] = [jobs[j] EXCEPT !.status = status]]
    BY DEF SetStatus
  <1>2. jobs[j] \in Job /\ j \in 1 .. Len(jobs) /\ DOMAIN jobs = 1 .. Len(jobs)
    BY JobFacts
  <1> DEFINE job == [jobs[j] EXCEPT !.status = status]
  <1>3. job \in Job /\ job.status = status /\ job.token = jobs[j].token /\ job.bundle = jobs[j].bundle
    BY <1>2 DEF Job
  <1> HIDE DEF job
  <1>4. /\ jobs' \in Seq(Job) /\ Len(jobs') = Len(jobs)
        /\ \A k \in 1 .. Len(jobs) : jobs'[k] = IF k = j THEN job ELSE jobs[k]
    <2>1. jobs' = [jobs EXCEPT ![j] = job]
      BY <1>1 DEF job
    <2> QED
      BY <1>2, <1>3, <2>1, ExceptSeq DEF DispatchTypeOK
  <1> QED
    BY <1>2, <1>3, <1>4, LenProperties DEF JobsKept

LEMMA BundleSet ==
    ASSUME DispatchTypeOK, NEW j \in DOMAIN jobs, SetBundle(j, TRUE)
    PROVE  /\ JobsKept
           /\ \A k \in DOMAIN jobs :
                /\ jobs'[k].status = jobs[k].status
                /\ jobs'[k].bundle = IF k = j THEN TRUE ELSE jobs[k].bundle
  <1>1. jobs' = [jobs EXCEPT ![j] = [jobs[j] EXCEPT !.bundle = TRUE]]
    BY DEF SetBundle
  <1>2. jobs[j] \in Job /\ j \in 1 .. Len(jobs) /\ DOMAIN jobs = 1 .. Len(jobs)
    BY JobFacts
  <1> DEFINE job == [jobs[j] EXCEPT !.bundle = TRUE]
  <1>3. job \in Job /\ job.status = jobs[j].status /\ job.token = jobs[j].token /\ job.bundle = TRUE
    BY <1>2 DEF Job
  <1> HIDE DEF job
  <1>4. /\ jobs' \in Seq(Job) /\ Len(jobs') = Len(jobs)
        /\ \A k \in 1 .. Len(jobs) : jobs'[k] = IF k = j THEN job ELSE jobs[k]
    <2>1. jobs' = [jobs EXCEPT ![j] = job]
      BY <1>1 DEF job
    <2> QED
      BY <1>2, <1>3, <2>1, ExceptSeq DEF DispatchTypeOK
  <1> QED
    BY <1>2, <1>3, <1>4, LenProperties DEF JobsKept

\* ExpireStaleDispatched.
LEMMA StaleExpired ==
    ASSUME DispatchTypeOK, NEW old \in SUBSET Dispatched, ExpireStaleDispatched(old)
    PROVE  /\ JobsKept
           /\ \A k \in DOMAIN jobs :
                /\ jobs'[k].bundle = jobs[k].bundle
                /\ jobs'[k].status = IF k \in old THEN "failed" ELSE jobs[k].status
                /\ k \in old => jobs[k].status = "dispatched"
  <1>1. Len(jobs) \in Nat /\ DOMAIN jobs = 1 .. Len(jobs) /\ \A k \in 1 .. Len(jobs) : jobs[k] \in Job
    BY JobFacts
  <1>2. jobs' = [k \in 1 .. Len(jobs) |->
                   IF k \in old THEN [jobs[k] EXCEPT !.status = "failed"] ELSE jobs[k]]
    BY <1>1 DEF ExpireStaleDispatched
  <1>3. ASSUME NEW k \in 1 .. Len(jobs)
        PROVE  /\ jobs'[k] \in Job
               /\ jobs'[k].token = jobs[k].token /\ jobs'[k].bundle = jobs[k].bundle
               /\ jobs'[k].status = IF k \in old THEN "failed" ELSE jobs[k].status
    BY <1>1, <1>2 DEF Job, Statuses, Claimable, Uploaded
  <1>4. jobs' \in [1 .. Len(jobs) -> Job]
    BY <1>2, <1>3
  <1>5. jobs' \in Seq(Job) /\ Len(jobs') = Len(jobs) /\ DOMAIN jobs' = 1 .. Len(jobs)
    BY <1>1, <1>4
  <1> QED
    BY <1>1, <1>3, <1>5 DEF JobsKept, Dispatched

-----------------------------------------------------------------------------
(* The daemon's own steps.                                                   *)

\* Nothing changed for any job.
LEMMA JobsAlone ==
    ASSUME DispatchInv, UNCHANGED <<jobs, launches>>,
           \A t \in Tokens : token'[t] = "consumed" <=> token[t] = "consumed"
    PROVE  Approvals' /\ Settled'
  <1>1. Settled'
    BY DEF DispatchInv, Settled
  <1>2. JobsKept
    BY DEF DispatchInv, DispatchTypeOK, JobsKept
  <1> QED
    BY <1>1, <1>2, ApprovalsKept DEF DispatchInv

LEMMA NobodyWaits ==
    ASSUME DispatchInv, reply # NoReply \/ daemon.at \notin {"polling", "fetching", "settling"}
    PROVE  \A r \in requests : ~r.awaited
  BY DEF DispatchInv, Quiet, WaitsAt

LEMMA NoOffer ==
    ASSUME DispatchInv, daemon.at # "polling"
    PROVE  \A j \in JobIds : ~Offered(j)
  BY DEF DispatchInv, Quiet, Offered, Assigned

LEMMA DaemonMoves ==
    ASSUME DispatchInv, NEW at \in DaemonSteps, NEW j \in JobIds \cup {NoJob}, GoTo(at, j),
           UNCHANGED <<token, jobs, confirm, requests, launches>>,
           reply' \in {reply, NoReply},
           \A r \in requests : ~r.awaited,
           reply'.is # "assignment",
           at \in Holding => /\ j \in JobIds /\ Pending(j)
                             /\ launches[j] = IF at \in Crawled THEN 1 ELSE 0
                             /\ \A r \in requests : Final(r) => r.job # j
    PROVE  DispatchInv'
  <1>1. daemon' = [at |-> at, job |-> j]
    BY DEF GoTo
  <1>2. DispatchTypeOK'
    BY <1>1 DEF DispatchInv, DispatchTypeOK, Replies
  <1>3. Approvals' /\ Settled'
    BY JobsAlone
  <1>4. Quiet'
    BY DEF Quiet
  <1>5. \A k \in JobIds : ~Offered(k)'
    BY DEF Offered, Assigned
  <1>6. \A k : Holds(k)' => k = j /\ at \in Holding
    BY <1>1 DEF Holds
  <1>7. Held'
    BY <1>1, <1>5, <1>6 DEF Held, Pending
  <1>8. Reported'
    BY <1>5, <1>6 DEF DispatchInv, Reported, Pending, Final
  <1> QED
    BY <1>2, <1>3, <1>4, <1>7, <1>8 DEF DispatchInv

LEMMA DaemonCalls ==
    ASSUME DispatchInv, NEW op \in {"poll", "list", "failed", "upload"},
           NEW what \in {"none"} \cup Uploaded, NEW step \in {"polling", "fetching", "settling"},
           Call(op, what, step), UNCHANGED <<token, jobs, confirm, launches>>,
           \A r \in requests : ~r.awaited,
           op = "poll" => step = "polling",
           op = "list" => step = "fetching",
           op \in {"failed", "upload"} => step = "settling",
           op # "poll" => Holds(daemon.job) /\ daemon.job \in JobIds,
           op = "list" => daemon.at = "assigned",
           op = "upload" => daemon.at = "exported" /\ what \in Uploaded
    PROVE  DispatchInv'
  <1> DEFINE new == [op |-> op, job |-> daemon.job, what |-> what, at |-> "sent", awaited |-> TRUE]
  <1>1. /\ requests' = requests \cup {new} /\ reply' = NoReply
        /\ daemon' = [at |-> step, job |-> daemon.job]
    BY DEF Call, Send, GoTo
  <1>2. daemon.job \in JobIds \cup {NoJob}
    BY DEF DispatchInv, DispatchTypeOK
  <1>3. /\ new \in Request /\ new.op = op /\ new.job = daemon.job /\ new.what = what
        /\ new.at = "sent" /\ new.awaited
    BY <1>2 DEF Request
  <1> HIDE DEF new
  <1>4. DispatchTypeOK'
    BY <1>1, <1>2, <1>3 DEF DispatchInv, DispatchTypeOK, Replies, DaemonSteps
  <1>5. Approvals' /\ Settled'
    BY JobsAlone
  <1>6. Quiet'
    <2>1. reply'.is # "assignment"
      BY <1>1 DEF NoReply
    <2>2. \A r \in requests' : r.awaited => r = new
      BY <1>1
    <2>3. daemon'.at = WaitsAt(new)
      BY <1>1, <1>3 DEF WaitsAt
    <2> QED
      BY <1>1, <2>1, <2>2, <2>3 DEF Quiet, WaitsAt
  <1>7. \A k \in JobIds : ~Offered(k)'
    <2>1. reply'.is # "assignment"
      BY <1>1 DEF NoReply
    <2> QED
      BY <2>1 DEF Offered, Assigned
  <1>10. \A k \in JobIds : Holds(k)' => op = "list" /\ k = daemon.job /\ Holds(k)
    BY <1>1 DEF Holds, Holding
  <1>8. Held'
    <2> SUFFICES ASSUME NEW j \in JobIds, (Holds(j) \/ Offered(j))'
                 PROVE  (Pending(j) /\ launches[j] = IF daemon.at \in Crawled THEN 1 ELSE 0)'
      <3>1. (daemon.at \in Holding => daemon.job \in JobIds)'
        BY <1>1 DEF Holding
      <3> QED
        BY <3>1 DEF Held
    <2>1. op = "list" /\ Holds(j) /\ daemon.at = "assigned" /\ daemon'.at = "fetching"
      BY <1>1, <1>7, <1>10
    <2>2. Pending(j) /\ launches[j] = 0
      BY <2>1 DEF DispatchInv, Held, Crawled
    <2> QED
      BY <2>1, <2>2 DEF Pending, Crawled
  <1>9. Reported'
    <2>1. ASSUME NEW r \in requests, Final(r) PROVE Pending(r.job) /\ r.job \in JobIds /\ ~Holds(r.job)
      BY <2>1 DEF DispatchInv, Reported
    <2>2. ASSUME Final(new)
          PROVE  /\ Pending(new.job) /\ new.job \in JobIds
                 /\ \A r \in requests : Final(r) => r.job # new.job
                 /\ new.op = "upload" => launches[new.job] = 1 /\ new.what \in Uploaded
      <3>1. op \in {"failed", "upload"} /\ Holds(new.job) /\ new.job \in JobIds
        BY <1>3, <2>2 DEF Final
      <3>2. Pending(new.job) /\ (daemon.at = "exported" => launches[new.job] = 1)
        BY <3>1 DEF DispatchInv, Held, Crawled
      <3> QED
        BY <1>3, <2>1, <3>1, <3>2
    <2>3. /\ \A r \in requests' : Pending(r.job)' <=> Pending(r.job)
          /\ \A r \in requests' : Final(r) => Pending(r.job)' /\ r.job \in JobIds
      BY <1>1, <2>1, <2>2 DEF Pending
    <2>4. ASSUME NEW r \in requests', NEW q \in requests', Final(r), Final(q), q.job = r.job
          PROVE  q = r
      BY <1>1, <2>2, <2>4 DEF DispatchInv, Reported
    <2>5. ASSUME NEW r \in requests', Final(r), r.op = "upload"
          PROVE  /\ launches[r.job] = 1 /\ r.what \in Uploaded
                 /\ r.at = "halfway" => jobs[r.job].bundle
      BY <1>1, <1>3, <2>2, <2>5 DEF DispatchInv, Reported
    <2>6. ASSUME NEW r \in requests', Final(r) PROVE ~Holds(r.job)'
      BY <1>1, <1>3, <1>10, <2>1, <2>3, <2>6 DEF Final
    <2> QED
      BY <1>7, <2>3, <2>4, <2>5, <2>6 DEF Reported
  <1> QED
    BY <1>4, <1>5, <1>6, <1>8, <1>9 DEF DispatchInv

\* The crash of the daemon, and its giving up on a request.
LEMMA DaemonLetsGo ==
    ASSUME DispatchInv, Unawaited, reply' \in {NoReply, Refused},
           daemon' \in {daemon, [at |-> "down", job |-> NoJob]},
           UNCHANGED <<token, jobs, confirm, launches>>
    PROVE  DispatchInv'
  <1>1. \A q \in requests' : /\ q \in Request /\ ~q.awaited
                             /\ \E r \in requests :
                                  /\ q = [r EXCEPT !.awaited = FALSE]
                                  /\ q.op = r.op /\ q.job = r.job /\ q.what = r.what /\ q.at = r.at
    <2>1. ASSUME NEW r \in requests
          PROVE  LET q == [r EXCEPT !.awaited = FALSE] IN
                   /\ q \in Request /\ q.awaited = FALSE
                   /\ q.op = r.op /\ q.job = r.job /\ q.what = r.what /\ q.at = r.at
      <3>1. r \in Request
        BY DEF DispatchInv, DispatchTypeOK
      <3> QED
        BY <3>1 DEF Request
    <2> QED
      BY <2>1 DEF Unawaited
  <1>2. DispatchTypeOK'
    BY <1>1 DEF DispatchInv, DispatchTypeOK, Replies, DaemonSteps
  <1>3. Approvals' /\ Settled'
    BY JobsAlone
  <1>4. reply'.is # "assignment"
    BY DEF NoReply, Refused
  <1>5. Quiet'
    BY <1>1, <1>4 DEF Quiet
  <1>6. \A k \in JobIds : ~Offered(k)'
    BY <1>4 DEF Offered, Assigned
  <1>9. \A k \in JobIds : Holds(k)' => Holds(k) /\ daemon' = daemon
    <2>1. CASE daemon' = daemon
      BY <2>1 DEF Holds
    <2>2. CASE daemon' = [at |-> "down", job |-> NoJob]
      <3>1. daemon'.at \notin Holding
        BY <2>2 DEF Holding
      <3> QED
        BY <3>1 DEF Holds
    <2> QED
      BY <2>1, <2>2
  <1>7. Held'
    <2> SUFFICES ASSUME NEW j \in JobIds, (Holds(j) \/ Offered(j))'
                 PROVE  (Pending(j) /\ launches[j] = IF daemon.at \in Crawled THEN 1 ELSE 0)'
      <3>1. (daemon.at \in Holding => daemon.job \in JobIds)'
        BY DEF DispatchInv, Held, Holding
      <3> QED
        BY <3>1 DEF Held
    <2>1. Holds(j) /\ daemon' = daemon
      BY <1>6, <1>9
    <2>2. Pending(j) /\ launches[j] = IF daemon.at \in Crawled THEN 1 ELSE 0
      BY <2>1 DEF DispatchInv, Held
    <2> QED
      BY <2>1, <2>2 DEF Pending
  <1>8. Reported'
    <2>1. ASSUME NEW q \in requests', Final(q)
          PROVE  /\ Pending(q.job)' /\ q.job \in JobIds /\ ~Holds(q.job)' /\ ~Offered(q.job)'
                 /\ q.op = "upload" => /\ launches'[q.job] = 1 /\ q.what \in Uploaded
                                       /\ q.at = "halfway" => jobs'[q.job].bundle
      <3>1. PICK r \in requests : q.op = r.op /\ q.job = r.job /\ q.what = r.what /\ q.at = r.at
        BY <1>1
      <3>2. Final(r)
        BY <2>1, <3>1 DEF Final
      <3> QED
        BY <1>6, <1>9, <3>1, <3>2 DEF DispatchInv, Reported, Pending
    <2>2. ASSUME NEW q \in requests', NEW p \in requests', Final(q), Final(p), p.job = q.job
          PROVE  p = q
      <3>1. PICK r \in requests : q = [r EXCEPT !.awaited = FALSE] /\ q.op = r.op /\ q.job = r.job
        BY <1>1
      <3>2. PICK o \in requests : p = [o EXCEPT !.awaited = FALSE] /\ p.op = o.op /\ p.job = o.job
        BY <1>1
      <3>3. o = r
        BY <2>2, <3>1, <3>2 DEF Final, DispatchInv, Reported
      <3> QED
        BY <3>1, <3>2, <3>3
    <2> QED
      BY <2>1, <2>2 DEF Reported
  <1> QED
    BY <1>2, <1>3, <1>5, <1>7, <1>8 DEF DispatchInv

LEMMA HolderFacts ==
    ASSUME DispatchInv, daemon.at \in Holding
    PROVE  /\ daemon.job \in JobIds /\ Holds(daemon.job) /\ Pending(daemon.job)
           /\ launches[daemon.job] = IF daemon.at \in Crawled THEN 1 ELSE 0
           /\ \A r \in requests : Final(r) => r.job # daemon.job
           /\ daemon.at \notin {"fetching"} => \A r \in requests : ~r.awaited
           /\ reply.is # "assignment"
  <1>1. daemon.job \in JobIds /\ Holds(daemon.job)
    BY DEF DispatchInv, Held, Holds
  <1>2. Pending(daemon.job) /\ launches[daemon.job] = IF daemon.at \in Crawled THEN 1 ELSE 0
    BY <1>1 DEF DispatchInv, Held
  <1>3. \A r \in requests : Final(r) => r.job # daemon.job
    BY <1>1 DEF DispatchInv, Reported
  <1>4. daemon.at \notin {"fetching"} => \A r \in requests : ~r.awaited
    BY NobodyWaits DEF Holding
  <1>5. reply.is # "assignment"
    BY DEF DispatchInv, Quiet, Holding
  <1> QED
    BY <1>1, <1>2, <1>3, <1>4, <1>5

\* From one step that holds a job to the next.
LEMMA HolderMoves ==
    ASSUME DispatchInv, daemon.at \in Holding, NEW at \in Holding, GoTo(at, daemon.job),
           UNCHANGED <<token, jobs, confirm, requests, launches>>,
           reply' \in {reply, NoReply},
           daemon.at = "fetching" => reply # NoReply,
           at \in Crawled <=> daemon.at \in Crawled
    PROVE  DispatchInv'
  <1>1. \A r \in requests : ~r.awaited
    BY HolderFacts, NobodyWaits
  <1>2. reply'.is # "assignment"
    BY HolderFacts DEF NoReply
  <1>3. at \in DaemonSteps
    BY DEF Holding, DaemonSteps
  <1> QED
    BY <1>1, <1>2, <1>3, HolderFacts, DaemonMoves

LEMMA DaemonRests ==
    ASSUME DispatchInv, NEW at \in {"down", "idle"}, GoTo(at, NoJob),
           UNCHANGED <<token, jobs, confirm, requests, launches>>,
           reply' \in {reply, NoReply},
           reply # NoReply \/ daemon.at \notin {"polling", "fetching", "settling"},
           daemon.at # "polling" \/ reply' = NoReply
    PROVE  DispatchInv'
  <1>1. \A r \in requests : ~r.awaited
    BY NobodyWaits
  <1>2. reply'.is # "assignment"
    BY DEF NoReply, DispatchInv, Quiet
  <1>3. at \in DaemonSteps /\ at \notin Holding
    BY DEF Holding, DaemonSteps
  <1> QED
    BY <1>1, <1>2, <1>3, DaemonMoves

LEMMA PollKeeps ==
    ASSUME DispatchInv, PollReturns
    PROVE  DispatchInv'
  <1>1. /\ daemon.at = "polling" /\ reply # NoReply /\ reply' = NoReply
        /\ GoTo(IF reply.is = "assignment" THEN "assigned" ELSE "idle", reply.job)
        /\ UNCHANGED <<token, jobs, confirm, requests, launches>>
    BY DEF PollReturns, DaemonAt, cloud
  <1>2. CASE reply.is = "assignment"
    <2>1. PICK j \in JobIds : reply = Assigned(j)
      BY <1>2 DEF DispatchInv, DispatchTypeOK, Replies, NoReply, Ok, Refused
    <2>2. GoTo("assigned", j)
      BY <1>1, <1>2, <2>1 DEF Assigned
    <2>3. Offered(j)
      BY <2>1 DEF Offered
    <2>4. Pending(j) /\ launches[j] = 0
      BY <1>1, <2>3 DEF DispatchInv, Held, Crawled
    <2>5. \A r \in requests : Final(r) => r.job # j
      BY <2>3 DEF DispatchInv, Reported
    <2>6. /\ \A r \in requests : ~r.awaited
          /\ reply'.is # "assignment"
          /\ "assigned" \in DaemonSteps /\ "assigned" \notin Crawled
      BY <1>1, NobodyWaits DEF NoReply, DaemonSteps, Crawled
    <2> QED
      BY <1>1, <2>2, <2>4, <2>5, <2>6, DaemonMoves
  <1>3. CASE reply.is # "assignment"
    <2>1. reply.job = NoJob
      BY <1>3 DEF DispatchInv, DispatchTypeOK, Replies, NoReply, Ok, Refused, Assigned
    <2> QED
      BY <1>1, <1>3, <2>1, DaemonRests
  <1> QED
    BY <1>2, <1>3

LEMMA LaunchKeeps ==
    ASSUME DispatchInv, LaunchSupervised
    PROVE  /\ DispatchInv'
           /\ daemon.job \in JobIds /\ Pending(daemon.job) /\ launches[daemon.job] = 0
           /\ launches' = [launches EXCEPT ![daemon.job] = 1] /\ jobs' = jobs
  <1>1. /\ daemon.at = "consumed" /\ GoTo("crawling", daemon.job)
        /\ launches' = [launches EXCEPT ![daemon.job] = @ + 1]
        /\ UNCHANGED <<token, jobs, confirm, requests, reply>>
    BY DEF LaunchSupervised, DaemonAt, cloud, network
  <1>2. daemon.at \in Holding /\ daemon.at \notin Crawled /\ daemon.at # "fetching"
    BY <1>1 DEF Holding, Crawled
  <1>3. PICK j \in JobIds :
          /\ j = daemon.job /\ Pending(j) /\ launches[j] = 0
          /\ \A r \in requests : Final(r) => r.job # j
          /\ \A r \in requests : ~r.awaited
          /\ reply.is # "assignment"
    BY <1>2, HolderFacts
  <1>4. daemon' = [at |-> "crawling", job |-> j]
    BY <1>1, <1>3 DEF GoTo
  <1>5. /\ launches \in [JobIds -> {0, 1}] /\ launches' \in [JobIds -> {0, 1}]
        /\ launches'[j] = 1 /\ \A k \in JobIds : k # j => launches'[k] = launches[k]
    BY <1>1, <1>3 DEF DispatchInv, DispatchTypeOK
  <1>6. DispatchTypeOK'
    BY <1>1, <1>3, <1>4, <1>5 DEF DispatchInv, DispatchTypeOK, DaemonSteps
  <1>7. Approvals'
    <2>1. JobsKept
      BY <1>1 DEF JobsKept, DispatchInv, DispatchTypeOK
    <2> QED
      BY <1>1, <2>1, ApprovalsKept DEF DispatchInv
  <1>8. Quiet'
    BY <1>1, <1>3 DEF Quiet
  <1>9. Settled'
    <2> SUFFICES ASSUME NEW k \in JobIds
                 PROVE  /\ k \in DOMAIN jobs /\ jobs[k].status \in Uploaded
                             => jobs[k].bundle /\ launches'[k] = 1
                        /\ k \notin DOMAIN jobs \/ jobs[k].status = "queued" => launches'[k] = 0
      BY <1>1 DEF Settled
    <2>1. CASE k = j
      BY <1>3, <2>1 DEF Pending, Uploaded
    <2>2. CASE k # j
      BY <1>5, <2>2 DEF DispatchInv, Settled
    <2> QED
      BY <2>1, <2>2
  <1>10. \A k \in JobIds : ~Offered(k)' /\ (Holds(k)' => k = j)
    <2>1. \A k \in JobIds : ~Offered(k)'
      BY <1>1, <1>3 DEF Offered, Assigned
    <2>2. \A k \in JobIds : Holds(k)' => k = j
      BY <1>4 DEF Holds
    <2> QED
      BY <2>1, <2>2
  <1>11. Held'
    <2>1. daemon'.at \in Crawled /\ daemon'.job = j
      BY <1>4 DEF Crawled
    <2>2. Pending(j)'
      BY <1>1, <1>3 DEF Pending
    <2> QED
      BY <1>3, <1>5, <1>10, <2>1, <2>2 DEF Held
  <1>12. Reported'
    <2> SUFFICES ASSUME NEW r \in requests, Final(r)
                 PROVE  (/\ Pending(r.job) /\ r.job \in JobIds /\ ~Holds(r.job) /\ ~Offered(r.job)
                         /\ \A q \in requests : Final(q) /\ q.job = r.job => q = r
                         /\ r.op = "upload" => /\ launches[r.job] = 1 /\ r.what \in Uploaded
                                               /\ r.at = "halfway" => jobs[r.job].bundle)'
      BY <1>1 DEF Reported, Final
    <2>1. r.job # j /\ r.job \in JobIds
      BY <1>3 DEF DispatchInv, Reported
    <2>2. /\ Pending(r.job)
          /\ \A q \in requests : Final(q) /\ q.job = r.job => q = r
          /\ r.op = "upload" => /\ launches[r.job] = 1 /\ r.what \in Uploaded
                                /\ r.at = "halfway" => jobs[r.job].bundle
      BY DEF DispatchInv, Reported
    <2> QED
      BY <1>1, <1>5, <1>10, <2>1, <2>2 DEF Pending, Final
  <1>13. launches' = [launches EXCEPT ![j] = 1]
    BY <1>1, <1>3, <1>5
  <1> QED
    BY <1>1, <1>3, <1>6, <1>7, <1>8, <1>9, <1>11, <1>12, <1>13 DEF DispatchInv

LEMMA HolderReports ==
    ASSUME DispatchInv, daemon.at \in Holding, Call("failed", "none", "settling"),
           UNCHANGED <<token, jobs, confirm, launches>>,
           daemon.at = "fetching" => reply # NoReply
    PROVE  DispatchInv'
  <1>1. \A r \in requests : ~r.awaited
    BY HolderFacts, NobodyWaits
  <1>2. Holds(daemon.job) /\ daemon.job \in JobIds
    BY HolderFacts
  <1> QED
    BY <1>1, <1>2, DaemonCalls

\* Every step of the daemon's thread.
LEMMA DaemonKeeps ==
    ASSUME DispatchInv, DaemonStep
    PROVE  DispatchInv'
  <1> USE DEF DaemonAt, cloud, network
  <1>1. CASE StartDaemon
    BY <1>1, DaemonRests DEF StartDaemon
  <1>2. CASE Poll
    <2>1. \A r \in requests : ~r.awaited
      BY <1>2, NobodyWaits DEF Poll
    <2> QED
      BY <1>2, <2>1, DaemonCalls DEF Poll
  <1>3. CASE PollReturns
    BY <1>3, PollKeeps
  <1>4. CASE DropAssignment
    BY <1>4, DaemonRests DEF DropAssignment
  <1>5. CASE AdmitAssignment
    <2>1. daemon.at \in Holding /\ "approving" \in Holding
      BY <1>5 DEF AdmitAssignment, Holding
    <2>2. CASE jobs[daemon.job].token \in ListTokens
      <3>1. (\A r \in requests : ~r.awaited) /\ Holds(daemon.job) /\ daemon.job \in JobIds
        BY <1>5, <2>1, HolderFacts DEF AdmitAssignment
      <3> QED
        BY <1>5, <2>2, <3>1, DaemonCalls DEF AdmitAssignment
    <2>3. CASE jobs[daemon.job].token \notin ListTokens
      <3>1. GoTo("approving", daemon.job) /\ UNCHANGED <<token, jobs, confirm, requests, launches, reply>>
        BY <1>5, <2>3 DEF AdmitAssignment
      <3>2. daemon.at = "assigned" /\ ("approving" \in Crawled <=> daemon.at \in Crawled)
        BY <1>5 DEF AdmitAssignment, Crawled
      <3> QED
        BY <2>1, <3>1, <3>2, HolderMoves
    <2> QED
      BY <2>2, <2>3
  <1>6. CASE UrlListVerified
    <2>1. /\ daemon.at = "fetching" /\ reply # NoReply /\ GoTo("approving", daemon.job)
          /\ reply' = NoReply /\ UNCHANGED <<token, jobs, confirm, requests, launches>>
      BY <1>6 DEF UrlListVerified, Ok, NoReply
    <2>2. /\ daemon.at \in Holding /\ "approving" \in Holding
          /\ "approving" \in Crawled <=> daemon.at \in Crawled
      BY <2>1 DEF Holding, Crawled
    <2> QED
      BY <2>1, <2>2, HolderMoves
  <1>7. CASE RejectEnvelope
    <2>1. /\ daemon.at \in Holding /\ (daemon.at = "fetching" => reply # NoReply)
          /\ Call("failed", "none", "settling") /\ UNCHANGED <<token, jobs, confirm, launches>>
      BY <1>7 DEF RejectEnvelope, Holding
    <2> QED
      BY <2>1, HolderReports
  <1>8. CASE ApproveAssignment
    <2>1. /\ daemon.at = "approving" /\ GoTo("consumed", daemon.job)
          /\ UNCHANGED <<token, jobs, confirm, requests, reply, launches>>
      BY <1>8 DEF ApproveAssignment
    <2>2. /\ daemon.at \in Holding /\ "consumed" \in Holding
          /\ "consumed" \in Crawled <=> daemon.at \in Crawled
      BY <2>1 DEF Holding, Crawled
    <2> QED
      BY <2>1, <2>2, HolderMoves
  <1>9. CASE LaunchSupervised
    BY <1>9, LaunchKeeps
  <1>10. CASE ToolFails
    <2>1. /\ daemon.at \in Holding /\ daemon.at # "fetching"
          /\ Call("failed", "none", "settling") /\ UNCHANGED <<token, jobs, confirm, launches>>
      BY <1>10 DEF ToolFails, Holding
    <2> QED
      BY <2>1, HolderReports
  <1>11. CASE CrawlCompletes
    <2>1. /\ daemon.at = "crawling" /\ GoTo("exported", daemon.job)
          /\ UNCHANGED <<token, jobs, confirm, requests, reply, launches>>
      BY <1>11 DEF CrawlCompletes
    <2>2. /\ daemon.at \in Holding /\ "exported" \in Holding
          /\ "exported" \in Crawled <=> daemon.at \in Crawled
      BY <2>1 DEF Holding, Crawled
    <2> QED
      BY <2>1, <2>2, HolderMoves
  <1>12. CASE UploadBundle
    <2>1. PICK status \in Uploaded : Call("upload", status, "settling")
      BY <1>12 DEF UploadBundle
    <2>2. daemon.at = "exported" /\ daemon.at \in Holding /\ UNCHANGED <<token, jobs, confirm, launches>>
      BY <1>12 DEF UploadBundle, Holding
    <2>3. (\A r \in requests : ~r.awaited) /\ Holds(daemon.job) /\ daemon.job \in JobIds
      BY <2>2, HolderFacts
    <2> QED
      BY <2>1, <2>2, <2>3, DaemonCalls
  <1>13. CASE OutcomeReturns
    <2>1. PICK at \in {"idle", "down"} : GoTo(at, NoJob)
      BY <1>13 DEF OutcomeReturns
    <2> QED
      BY <1>13, <2>1, DaemonRests DEF OutcomeReturns
  <1> QED
    BY <1>1, <1>2, <1>3, <1>4, <1>5, <1>6, <1>7, <1>8, <1>9, <1>10, <1>11, <1>12, <1>13
    DEF DaemonStep

-----------------------------------------------------------------------------
(* The cloud's steps.                                                        *)

\* A step of the dashboard that is not about a job.
LEMMA CloudReads ==
    ASSUME DispatchInv, UNCHANGED <<jobs, daemon, requests, reply, launches>>,
           token' \in [Tokens -> {"none", "live", "consumed"}],
           confirm' \in [Confirms -> Confirming],
           \A t \in Tokens : token'[t] = "consumed" <=> token[t] = "consumed"
    PROVE  DispatchInv'
  <1>1. DispatchTypeOK'
    BY DEF DispatchInv, DispatchTypeOK
  <1>2. Approvals' /\ Settled'
    BY JobsAlone
  <1>3. Quiet' /\ Held'
    BY DEF DispatchInv, Quiet, Held, Holds, Offered, Pending, WaitsAt
  <1>4. Reported'
    BY DEF DispatchInv, Reported, Final, Pending, Holds, Offered
  <1> QED
    BY <1>1, <1>2, <1>3, <1>4 DEF DispatchInv

\* The transaction that consumes a token adds its one job.
LEMMA QueueKeeps ==
    ASSUME DispatchInv, NEW t \in Tokens, QueueJob(t),
           UNCHANGED <<daemon, requests, reply, launches>>,
           confirm' \in [Confirms -> Confirming]
    PROVE  /\ DispatchInv'
           /\ Len(jobs) + 1 \in JobIds /\ Len(jobs) + 1 \notin DOMAIN jobs
           /\ DOMAIN jobs' = DOMAIN jobs \cup {Len(jobs) + 1}
           /\ jobs'[Len(jobs) + 1].status = "queued"
           /\ \A k \in DOMAIN jobs : jobs'[k] = jobs[k]
  <1> DEFINE job == [status |-> "queued", token |-> t, bundle |-> FALSE]
  <1>1. token[t] = "live" /\ token' = [token EXCEPT ![t] = "consumed"] /\ jobs' = Append(jobs, job)
    BY DEF QueueJob
  <1>2. job \in Job /\ job.status = "queued" /\ job.token = t
    BY DEF Job, Statuses, Claimable
  <1> HIDE DEF job
  <1>3. Len(jobs) \in Nat /\ DOMAIN jobs = 1 .. Len(jobs) /\ jobs \in Seq(Job)
    BY JobFacts DEF DispatchInv, DispatchTypeOK
  <1>4. PICK n \in Nat : n = Len(jobs) + 1
    BY <1>3
  <1>5. /\ jobs' \in Seq(Job) /\ Len(jobs') = n /\ jobs'[n] = job
        /\ DOMAIN jobs' = DOMAIN jobs \cup {n} /\ n \notin DOMAIN jobs
        /\ \A k \in DOMAIN jobs : jobs'[k] = jobs[k]
    <2>1. /\ jobs' \in Seq(Job) /\ Len(jobs') = Len(jobs) + 1 /\ jobs'[Len(jobs) + 1] = job
          /\ \A k \in 1 .. Len(jobs) : jobs'[k] = jobs[k]
      BY <1>1, <1>2, <1>3, AppendProperties
    <2>2. DOMAIN jobs' = 1 .. Len(jobs')
      BY <2>1, LenProperties
    <2> QED
      BY <1>3, <1>4, <2>1, <2>2
  <1>6. Consumed' = Consumed \cup {t} /\ t \notin Consumed /\ Consumed \in SUBSET Tokens
    BY <1>1 DEF Consumed, DispatchInv, DispatchTypeOK
  <1>7. Cardinality(Consumed') = Cardinality(Consumed) + 1 /\ Consumed' \in SUBSET Tokens
    <2>1. IsFiniteSet(Consumed)
      BY <1>6, TokensAreCounted
    <2> QED
      BY <1>6, <2>1, FS_AddElement
  <1>8. n \in JobIds
    <2>1. Cardinality(Consumed') = n
      BY <1>3, <1>4, <1>7 DEF DispatchInv, Approvals
    <2>2. Cardinality(Consumed') <= Cardinality(Tokens) /\ Cardinality(Tokens) \in Nat
      BY <1>7, TokensAreCounted
    <2> QED
      BY <1>3, <1>4, <2>1, <2>2 DEF JobIds
  <1>9. OneJobPerApproval'
    <2> SUFFICES ASSUME NEW u \in Tokens
                 PROVE  Cardinality({j \in DOMAIN jobs' : jobs'[j].token = u})
                            = IF token'[u] = "consumed" THEN 1 ELSE 0
      BY DEF OneJobPerApproval
    <2> DEFINE old == {j \in DOMAIN jobs : jobs[j].token = u}
    <2>1. Cardinality(old) = IF token[u] = "consumed" THEN 1 ELSE 0
      BY DEF DispatchInv, Approvals, OneJobPerApproval
    <2>2. {j \in DOMAIN jobs' : jobs'[j].token = u} = IF u = t THEN old \cup {n} ELSE old
      BY <1>2, <1>5
    <2>3. IsFiniteSet(old) /\ n \notin old
      <3>1. IsFiniteSet(1 .. Len(jobs))
        BY <1>3, FS_Interval
      <3>2. old \in SUBSET (1 .. Len(jobs))
        BY <1>3
      <3> QED
        BY <1>5, <3>1, <3>2, FS_Subset
    <2> HIDE DEF old
    <2>4. CASE u = t
      <3>1. Cardinality(old) = 0 /\ token'[u] = "consumed"
        BY <1>1, <2>1, <2>4 DEF DispatchInv, DispatchTypeOK
      <3>2. Cardinality(old \cup {n}) = Cardinality(old) + 1
        BY <2>3, FS_AddElement
      <3>3. {j \in DOMAIN jobs' : jobs'[j].token = u} = old \cup {n}
        BY <2>2, <2>4
      <3>4. Cardinality(old \cup {n}) = 1
        BY <3>1, <3>2
      <3> QED
        BY <3>1, <3>3, <3>4
    <2>5. CASE u # t
      <3>1. token'[u] = token[u]
        BY <1>1, <2>5 DEF DispatchInv, DispatchTypeOK
      <3> QED
        BY <2>1, <2>2, <2>5, <3>1
    <2> QED
      BY <2>4, <2>5
  <1>10. Approvals'
    BY <1>3, <1>4, <1>5, <1>7, <1>9 DEF DispatchInv, Approvals
  <1>11. DispatchTypeOK'
    BY <1>1, <1>5 DEF DispatchInv, DispatchTypeOK
  <1>12. /\ \A k \in DOMAIN jobs : Pending(k)' <=> Pending(k)
         /\ \A k : Pending(k) => Pending(k)'
    BY <1>5 DEF Pending
  <1>13. Settled'
    <2> SUFFICES ASSUME NEW k \in JobIds
                 PROVE  /\ k \in DOMAIN jobs' /\ jobs'[k].status \in Uploaded
                             => jobs'[k].bundle /\ launches[k] = 1
                        /\ k \notin DOMAIN jobs' \/ jobs'[k].status = "queued" => launches[k] = 0
      BY DEF Settled
    <2>1. CASE k = n
      BY <1>2, <1>5, <2>1 DEF DispatchInv, Settled, Uploaded
    <2>2. CASE k # n
      BY <1>5, <2>2 DEF DispatchInv, Settled
    <2> QED
      BY <2>1, <2>2
  <1>14. Quiet' /\ Held'
    BY <1>12 DEF DispatchInv, Quiet, Held, Holds, Offered, WaitsAt
  <1>15. Reported'
    <2>1. \A r \in requests : Final(r) => r.job \in DOMAIN jobs
      BY DEF DispatchInv, Reported, Pending
    <2> QED
      BY <1>5, <1>12, <2>1 DEF DispatchInv, Reported, Final, Holds, Offered
  <1>16. DispatchInv'
    BY <1>10, <1>11, <1>13, <1>14, <1>15 DEF DispatchInv
  <1> QED
    BY <1>2, <1>4, <1>5, <1>8, <1>16

\* What the sweeps, the claims, the failures and the bundles have in common: no job comes
\* back to the queue, none is delivered, and no bundle is lost.
Progress ==
    /\ JobsKept
    /\ \A k \in DOMAIN jobs :
         /\ jobs[k].bundle => jobs'[k].bundle
         /\ Pending(k) => Pending(k)'
         /\ jobs'[k].status \in Uploaded => jobs[k].status \in Uploaded
         /\ jobs[k].status \in Uploaded \cup {"failed"} => jobs'[k].status = jobs[k].status
         /\ jobs'[k].status = "queued" => jobs[k].status = "queued"

LEMMA ProgressKeeps ==
    ASSUME DispatchInv, Progress, UNCHANGED <<token, launches>>
    PROVE  Approvals' /\ Settled' /\ \A k : Pending(k) => Pending(k)'
  <1>1. Approvals'
    BY ApprovalsKept DEF DispatchInv, Progress
  <1>2. Settled'
    BY DEF DispatchInv, Settled, Progress, JobsKept
  <1>3. \A k : Pending(k) => Pending(k)'
    BY DEF Progress, Pending
  <1> QED
    BY <1>1, <1>2, <1>3

LEMMA SweepProgress ==
    ASSUME DispatchInv, NEW old \in SUBSET Dispatched, ExpireStaleDispatched(old)
    PROVE  Progress
  <1>1. /\ JobsKept
        /\ \A k \in DOMAIN jobs :
             /\ jobs'[k].bundle = jobs[k].bundle
             /\ jobs'[k].status = IF k \in old THEN "failed" ELSE jobs[k].status
             /\ k \in old => jobs[k].status = "dispatched"
    BY StaleExpired DEF DispatchInv
  <1> QED
    BY <1>1 DEF Progress, Pending, JobsKept, Uploaded

LEMMA ListKeeps ==
    ASSUME DispatchInv, NEW old \in SUBSET JobIds, ListWorkerJobs(old)
    PROVE  DispatchInv'
  <1>1. /\ old \in SUBSET Dispatched /\ ExpireStaleDispatched(old)
        /\ UNCHANGED <<token, confirm, daemon, requests, reply, launches>>
    BY DEF ListWorkerJobs, desktop, network
  <1>2. Progress
    BY <1>1, SweepProgress
  <1>3. Approvals' /\ Settled' /\ \A k : Pending(k) => Pending(k)'
    BY <1>1, <1>2, ProgressKeeps
  <1>4. DispatchTypeOK'
    BY <1>1, <1>2 DEF DispatchInv, DispatchTypeOK, Progress, JobsKept
  <1>5. Quiet' /\ Held'
    BY <1>1, <1>3 DEF DispatchInv, Quiet, Held, Holds, Offered, WaitsAt
  <1>6. Reported'
    <2>1. \A r \in requests : Final(r) => r.job \in DOMAIN jobs
      BY DEF DispatchInv, Reported, Pending
    <2> QED
      BY <1>1, <1>2, <1>3, <2>1 DEF DispatchInv, Reported, Final, Holds, Offered, Progress
  <1> QED
    BY <1>3, <1>4, <1>5, <1>6 DEF DispatchInv

-----------------------------------------------------------------------------
(* The worker's routes.                                                      *)

LEMMA RequestFacts ==
    ASSUME DispatchInv, NEW r \in requests
    PROVE  /\ r \in Request
           /\ Final(r) => /\ r.job \in JobIds /\ r.job \in DOMAIN jobs /\ Pending(r.job)
                          /\ ~Holds(r.job) /\ ~Offered(r.job)
                          /\ \A q \in requests : Final(q) /\ q.job = r.job => q = r
           /\ r.op = "upload" => /\ launches[r.job] = 1 /\ r.what \in Uploaded
                                 /\ r.at = "halfway" => jobs[r.job].bundle
           /\ r.awaited => reply = NoReply /\ daemon.at = WaitsAt(r)
           /\ r.awaited => \A q \in requests : q.awaited => q = r
  <1>1. Final(r) => Pending(r.job) /\ r.job \in DOMAIN jobs
    BY DEF DispatchInv, Reported, Pending
  <1>2. r.op = "upload" => Final(r)
    BY DEF Final
  <1> QED
    BY <1>1, <1>2 DEF DispatchInv, DispatchTypeOK, Quiet, Reported

\* What an answer leaves of the other requests.
LEMMA Answers ==
    ASSUME DispatchInv, NEW r \in requests, NEW answer \in {Ok, Refused}, Answer(r, answer),
           UNCHANGED <<token, confirm, daemon, launches>>,
           jobs' \in Seq(Job), Approvals', Settled',
           \A k \in JobIds : Pending(k) /\ (Final(r) => k # r.job) => Pending(k)',
           \A k \in DOMAIN jobs : jobs[k].bundle => jobs'[k].bundle,
           \A k \in JobIds : (Holds(k) \/ Offered(k)) /\ Pending(k) => Pending(k)'
    PROVE  DispatchInv'
  <1>1. requests' = requests \ {r} /\ reply' = IF r.awaited THEN answer ELSE reply
    BY DEF Answer
  <1>2. answer \in Replies /\ answer.is # "assignment"
    BY DEF Replies, Ok, Refused
  <1>3. DispatchTypeOK'
    BY <1>1, <1>2 DEF DispatchInv, DispatchTypeOK
  <1>4. Quiet'
    <2>1. reply'.is = "assignment" => reply.is = "assignment"
      BY <1>1, <1>2
    <2>2. ASSUME NEW q \in requests', q.awaited
          PROVE  reply' = NoReply /\ daemon'.at = WaitsAt(q)
                 /\ \A p \in requests' : p.awaited => p = q
      BY <1>1, <2>2, RequestFacts
    <2> QED
      BY <2>1, <2>2 DEF DispatchInv, Quiet, WaitsAt
  <1>5. \A k \in JobIds : (Holds(k)' => Holds(k)) /\ (Offered(k)' => Offered(k))
    <2>1. \A k \in JobIds : Offered(k)' => Offered(k)
      <3>1. \A k \in JobIds : Assigned(k).is = "assignment"
        BY DEF Assigned
      <3> QED
        BY <1>1, <1>2, <3>1 DEF Offered
    <2>2. \A k \in JobIds : Holds(k)' => Holds(k)
      BY DEF Holds
    <2> QED
      BY <2>1, <2>2
  <1>6. Held'
    <2>1. (daemon.at \in Holding => daemon.job \in JobIds)'
      BY DEF DispatchInv, Held
    <2>2. ASSUME NEW k \in JobIds, Holds(k)' \/ Offered(k)'
          PROVE  Pending(k)' /\ launches'[k] = IF daemon'.at \in Crawled THEN 1 ELSE 0
      <3>1. Holds(k) \/ Offered(k)
        BY <1>5, <2>2
      <3>2. Pending(k) /\ launches[k] = IF daemon.at \in Crawled THEN 1 ELSE 0
        BY <3>1 DEF DispatchInv, Held
      <3> QED
        BY <3>1, <3>2
    <2> QED
      BY <2>1, <2>2 DEF Held
  <1>7. Reported'
    <2>1. ASSUME NEW q \in requests', Final(q)
          PROVE  /\ Pending(q.job)' /\ q.job \in JobIds /\ ~Holds(q.job)' /\ ~Offered(q.job)'
                 /\ \A p \in requests' : Final(p) /\ p.job = q.job => p = q
                 /\ q.op = "upload" => /\ launches'[q.job] = 1 /\ q.what \in Uploaded
                                       /\ q.at = "halfway" => jobs'[q.job].bundle
      <3>1. q \in requests /\ q # r
        BY <1>1, <2>1
      <3>2. Final(r) => q.job # r.job
        BY <2>1, <3>1, RequestFacts
      <3> QED
        BY <1>1, <1>5, <2>1, <3>1, <3>2, RequestFacts
    <2> QED
      BY <2>1 DEF Reported, Final
  <1> QED
    BY <1>3, <1>4, <1>6, <1>7 DEF DispatchInv

\* A request that is handled halfway.
LEMMA GoesHalfway ==
    ASSUME DispatchInv, NEW r \in requests, Halfway(r), Progress,
           UNCHANGED <<token, confirm, daemon, launches>>,
           r.op = "upload" => jobs'[r.job].bundle
    PROVE  DispatchInv'
  <1> DEFINE s == [r EXCEPT !.at = "halfway"]
  <1>1. requests' = (requests \ {r}) \cup {s} /\ reply' = reply
    BY DEF Halfway
  <1>2. /\ s \in Request /\ s.op = r.op /\ s.job = r.job /\ s.what = r.what
        /\ s.awaited = r.awaited /\ r \in Request
    BY RequestFacts DEF Request
  <1> HIDE DEF s
  <1>3. Approvals' /\ Settled' /\ \A k : Pending(k) => Pending(k)'
    BY ProgressKeeps
  <1>4. DispatchTypeOK'
    BY <1>1, <1>2 DEF DispatchInv, DispatchTypeOK, Progress, JobsKept
  <1>5. Quiet'
    <2>1. WaitsAt(s) = WaitsAt(r)
      BY <1>2 DEF WaitsAt
    <2>2. ASSUME NEW q \in requests', q.awaited
          PROVE  reply' = NoReply /\ daemon'.at = WaitsAt(q)
                 /\ \A p \in requests' : p.awaited => p = q
      BY <1>1, <1>2, <2>1, <2>2, RequestFacts
    <2> QED
      BY <1>1, <2>2 DEF DispatchInv, Quiet, WaitsAt
  <1>6. Held'
    BY <1>1, <1>3 DEF DispatchInv, Held, Holds, Offered
  <1>7. Reported'
    <2>1. Final(s) <=> Final(r)
      BY <1>2 DEF Final
    <2>2. ASSUME NEW q \in requests', Final(q)
          PROVE  /\ Pending(q.job)' /\ q.job \in JobIds /\ ~Holds(q.job)' /\ ~Offered(q.job)'
                 /\ q.op = "upload" => /\ launches'[q.job] = 1 /\ q.what \in Uploaded
                                       /\ q.at = "halfway" => jobs'[q.job].bundle
      <3>1. PICK o \in requests : /\ Final(o) /\ o.op = q.op /\ o.job = q.job /\ o.what = q.what
                                  /\ q = o \/ (q = s /\ o = r)
        BY <1>1, <1>2, <2>1, <2>2
      <3>2. /\ Pending(o.job) /\ o.job \in JobIds /\ o.job \in DOMAIN jobs
            /\ ~Holds(o.job) /\ ~Offered(o.job)
            /\ o.op = "upload" => launches[o.job] = 1 /\ o.what \in Uploaded
            /\ o.op = "upload" /\ o.at = "halfway" => jobs[o.job].bundle
        BY <3>1, RequestFacts
      <3>3. ~Holds(q.job)' /\ ~Offered(q.job)'
        BY <1>1, <3>1, <3>2 DEF Holds, Offered
      <3> QED
        BY <1>2, <1>3, <3>1, <3>2, <3>3 DEF Progress
    <2>3. ASSUME NEW q \in requests', NEW p \in requests', Final(q), Final(p), p.job = q.job
          PROVE  p = q
      BY <1>1, <1>2, <2>1, <2>3, RequestFacts
    <2> QED
      BY <2>2, <2>3 DEF Reported, Final
  <1> QED
    BY <1>3, <1>4, <1>5, <1>6, <1>7 DEF DispatchInv

\* The answer of a poll: the job it claims has nobody who holds it or reports of it.
LEMMA ClaimKeeps ==
    ASSUME DispatchInv, NEW r \in requests, r.op = "poll",
           NEW j \in Queued, SetStatus(j, "dispatched"), Answer(r, Assigned(j)),
           UNCHANGED <<token, confirm, daemon, launches>>
    PROVE  DispatchInv'
  <1>1. /\ j \in DOMAIN jobs /\ jobs[j].status = "queued" /\ j \in JobIds /\ ~Pending(j)
    BY JobsAreIds DEF Queued, Pending, DispatchInv
  <1>2. /\ JobsKept
        /\ \A k \in DOMAIN jobs : /\ jobs'[k].bundle = jobs[k].bundle
                                  /\ jobs'[k].status = IF k = j THEN "dispatched" ELSE jobs[k].status
    BY <1>1, StatusSet DEF DispatchInv, Statuses, Claimable
  <1>3. Progress
    BY <1>1, <1>2 DEF Progress, Pending, Uploaded, JobsKept
  <1>4. Approvals' /\ Settled' /\ \A k : Pending(k) => Pending(k)'
    BY <1>3, ProgressKeeps
  <1>5. Pending(j)' /\ launches[j] = 0
    BY <1>1, <1>2 DEF Pending, JobsKept, DispatchInv, Settled
  <1>6. requests' = requests \ {r} /\ reply' = IF r.awaited THEN Assigned(j) ELSE reply
    BY DEF Answer
  <1>7. r.awaited => /\ daemon.at = "polling" /\ reply = NoReply
                     /\ \A q \in requests : q.awaited => q = r
    BY RequestFacts DEF WaitsAt
  <1>8. DispatchTypeOK'
    BY <1>1, <1>2, <1>6 DEF DispatchInv, DispatchTypeOK, JobsKept, Replies
  <1>9. Quiet'
    <2>1. reply'.is = "assignment" => daemon'.at = "polling"
      BY <1>6, <1>7 DEF DispatchInv, Quiet
    <2>2. ASSUME NEW q \in requests', q.awaited
          PROVE  reply' = NoReply /\ daemon'.at = WaitsAt(q)
                 /\ \A p \in requests' : p.awaited => p = q
      BY <1>6, <1>7, <2>2, RequestFacts
    <2> QED
      BY <2>1, <2>2 DEF Quiet, WaitsAt
  <1>10. \A k \in JobIds : (Holds(k)' => Holds(k)) /\ (Offered(k)' => Offered(k) \/ (k = j /\ r.awaited))
    <2>1. \A k \in JobIds : Holds(k)' => Holds(k)
      BY DEF Holds
    <2>2. ASSUME NEW k \in JobIds, Offered(k)' PROVE Offered(k) \/ (k = j /\ r.awaited)
      <3>1. CASE r.awaited
        <4>1. Assigned(j) = Assigned(k) /\ Assigned(j).job = j /\ Assigned(k).job = k
          BY <1>6, <2>2, <3>1 DEF Offered, Assigned
        <4> QED
          BY <3>1, <4>1
      <3>2. CASE ~r.awaited
        BY <1>6, <2>2, <3>2 DEF Offered
      <3> QED
        BY <3>1, <3>2
    <2> QED
      BY <2>1, <2>2
  <1>11. Held'
    <2>1. (daemon.at \in Holding => daemon.job \in JobIds)'
      BY DEF DispatchInv, Held
    <2>2. ASSUME NEW k \in JobIds, Holds(k)' \/ Offered(k)'
          PROVE  Pending(k)' /\ launches'[k] = IF daemon'.at \in Crawled THEN 1 ELSE 0
      <3>1. CASE Holds(k) \/ Offered(k)
        BY <1>4, <3>1 DEF DispatchInv, Held
      <3>2. CASE k = j /\ r.awaited
        BY <1>5, <1>7, <3>2 DEF Crawled
      <3> QED
        BY <1>10, <2>2, <3>1, <3>2
    <2> QED
      BY <2>1, <2>2 DEF Held
  <1>12. Reported'
    <2>1. ASSUME NEW q \in requests', Final(q)
          PROVE  /\ Pending(q.job)' /\ q.job \in JobIds /\ ~Holds(q.job)' /\ ~Offered(q.job)'
                 /\ \A p \in requests' : Final(p) /\ p.job = q.job => p = q
                 /\ q.op = "upload" => /\ launches'[q.job] = 1 /\ q.what \in Uploaded
                                       /\ q.at = "halfway" => jobs'[q.job].bundle
      <3>1. q \in requests /\ q.job # j
        BY <1>1, <1>6, <2>1, RequestFacts
      <3> QED
        BY <1>3, <1>4, <1>6, <1>10, <2>1, <3>1, RequestFacts DEF Progress
    <2> QED
      BY <2>1 DEF Reported, Final
  <1> QED
    BY <1>4, <1>8, <1>9, <1>11, <1>12 DEF DispatchInv

\* An answer after which every job is as pending as it was.
LEMMA PlainAnswers ==
    ASSUME DispatchInv, NEW r \in requests, NEW answer \in {Ok, Refused}, Answer(r, answer),
           Progress, UNCHANGED <<token, confirm, daemon, launches>>
    PROVE  DispatchInv'
  <1>1. Approvals' /\ Settled' /\ \A k : Pending(k) => Pending(k)'
    BY ProgressKeeps
  <1>2. jobs' \in Seq(Job) /\ \A k \in DOMAIN jobs : jobs[k].bundle => jobs'[k].bundle
    BY DEF Progress, JobsKept
  <1> QED
    BY <1>1, <1>2, Answers

LEMMA NoProgress ==
    ASSUME DispatchInv, UNCHANGED jobs
    PROVE  Progress
  BY DEF DispatchInv, DispatchTypeOK, Progress, JobsKept, Pending

\* The upload whose bundle is stored is the last word on its job.
LEMMA UploadKeeps ==
    ASSUME DispatchInv, NEW r \in requests, MarkUploaded(r)
    PROVE  DispatchInv'
  <1>1. /\ r.op = "upload" /\ r.at = "halfway" /\ SetStatus(r.job, r.what) /\ Answer(r, Ok)
        /\ UNCHANGED <<token, confirm, daemon, launches>>
    BY DEF MarkUploaded, desktop
  <1>2. /\ Final(r) /\ r.job \in JobIds /\ r.job \in DOMAIN jobs
        /\ ~Holds(r.job) /\ ~Offered(r.job)
        /\ launches[r.job] = 1 /\ r.what \in Uploaded /\ jobs[r.job].bundle
    BY <1>1, RequestFacts DEF Final
  <1>3. /\ JobsKept
        /\ \A k \in DOMAIN jobs : /\ jobs'[k].bundle = jobs[k].bundle
                                  /\ jobs'[k].status = IF k = r.job THEN r.what ELSE jobs[k].status
    BY <1>1, <1>2, StatusSet DEF DispatchInv, Statuses
  <1>4. Approvals'
    BY <1>1, <1>3, ApprovalsKept DEF DispatchInv
  <1>5. Settled'
    <2> SUFFICES ASSUME NEW k \in JobIds
                 PROVE  /\ k \in DOMAIN jobs' /\ jobs'[k].status \in Uploaded
                             => jobs'[k].bundle /\ launches[k] = 1
                        /\ k \notin DOMAIN jobs' \/ jobs'[k].status = "queued" => launches[k] = 0
      BY <1>1 DEF Settled
    <2>1. DOMAIN jobs' = DOMAIN jobs
      BY <1>3 DEF JobsKept
    <2>2. CASE k = r.job
      BY <1>2, <1>3, <2>1, <2>2 DEF Uploaded
    <2>3. CASE k # r.job
      BY <1>3, <2>1, <2>3 DEF DispatchInv, Settled
    <2> QED
      BY <2>2, <2>3
  <1>6. \A k \in JobIds : Pending(k) /\ k # r.job => Pending(k)'
    BY <1>3 DEF Pending, JobsKept
  <1>7. jobs' \in Seq(Job) /\ \A k \in DOMAIN jobs : jobs[k].bundle => jobs'[k].bundle
    BY <1>3 DEF JobsKept
  <1> QED
    BY <1>1, <1>2, <1>4, <1>5, <1>6, <1>7, Answers

LEMMA CloudHandles ==
    ASSUME DispatchInv, NEW r \in requests, Handle(r)
    PROVE  DispatchInv'
  <1> USE DEF desktop, cloud
  <1>1. CASE PollTouchesAndExpires(r)
    <2>1. PICK old \in SUBSET Dispatched : ExpireStaleDispatched(old)
      BY <1>1 DEF PollTouchesAndExpires
    <2>2. Progress
      BY <2>1, SweepProgress
    <2> QED
      BY <1>1, <2>2, GoesHalfway DEF PollTouchesAndExpires
  <1>2. CASE PollClaims(r)
    <2>1. CASE Answer(r, Ok) /\ UNCHANGED jobs
      BY <1>2, <2>1, NoProgress, PlainAnswers DEF PollClaims
    <2>2. ASSUME NEW j \in Queued, SetStatus(j, "dispatched"), Answer(r, Assigned(j))
          PROVE  DispatchInv'
      BY <1>2, <2>2, ClaimKeeps DEF PollClaims
    <2> QED
      BY <1>2, <2>1, <2>2 DEF PollClaims
  <1>3. CASE DownloadUrlList(r)
    BY <1>3, NoProgress, PlainAnswers DEF DownloadUrlList
  <1>4. CASE ReportFailure(r)
    <2>1. r.op = "failed" /\ SetStatus(r.job, "failed") /\ Answer(r, Ok)
          /\ UNCHANGED <<token, confirm, daemon, launches>>
      BY <1>4 DEF ReportFailure
    <2>2. r.job \in DOMAIN jobs /\ Pending(r.job) /\ "failed" \in Statuses
      BY <2>1, RequestFacts DEF Final, Statuses
    <2>3. /\ JobsKept
          /\ \A k \in DOMAIN jobs : /\ jobs'[k].bundle = jobs[k].bundle
                                    /\ jobs'[k].status = IF k = r.job THEN "failed" ELSE jobs[k].status
      BY <2>1, <2>2, StatusSet DEF DispatchInv
    <2>4. Progress
      BY <2>2, <2>3 DEF Progress, JobsKept, Pending, Uploaded
    <2> QED
      BY <2>1, <2>4, PlainAnswers
  <1>5. CASE StoreUpload(r)
    <2>1. r.op = "upload" /\ SetBundle(r.job, TRUE) /\ Halfway(r)
          /\ UNCHANGED <<token, confirm, daemon, launches>>
      BY <1>5 DEF StoreUpload
    <2>2. r.job \in DOMAIN jobs
      BY <2>1, RequestFacts DEF Final
    <2>3. /\ JobsKept
          /\ \A k \in DOMAIN jobs : /\ jobs'[k].status = jobs[k].status
                                    /\ jobs'[k].bundle = IF k = r.job THEN TRUE ELSE jobs[k].bundle
      BY <2>1, <2>2, BundleSet DEF DispatchInv
    <2>4. Progress /\ jobs'[r.job].bundle
      BY <2>2, <2>3 DEF Progress, JobsKept, Pending
    <2> QED
      BY <2>1, <2>4, GoesHalfway
  <1>6. CASE MarkUploaded(r)
    BY <1>6, UploadKeeps
  <1>7. CASE RequestFails(r)
    BY <1>7, NoProgress, PlainAnswers DEF RequestFails
  <1> QED
    BY <1>1, <1>2, <1>3, <1>4, <1>5, <1>6, <1>7 DEF Handle

LEMMA DispatchStep ==
    ASSUME DispatchInv, [Next]_vars
    PROVE  DispatchInv'
  <1> USE DEF desktop, network, cloud
  <1>1. CASE UNCHANGED vars
    BY <1>1, CloudReads DEF vars, DispatchInv, DispatchTypeOK
  <1>2. ASSUME NEW t \in Tokens, Preview(t) PROVE DispatchInv'
    <2>1. /\ token' \in [Tokens -> {"none", "live", "consumed"}]
          /\ \A u \in Tokens : token'[u] = "consumed" <=> token[u] = "consumed"
      BY <1>2 DEF Preview, DispatchInv, DispatchTypeOK
    <2> QED
      BY <1>2, <2>1, CloudReads DEF Preview, DispatchInv, DispatchTypeOK
  <1>3. ASSUME NEW c \in Confirms, NEW t \in Tokens, CheckConfirm(c, t) PROVE DispatchInv'
    <2>1. confirm' \in [Confirms -> Confirming]
      BY <1>3 DEF CheckConfirm, DispatchInv, DispatchTypeOK, Confirming
    <2> QED
      BY <1>3, <2>1, CloudReads DEF CheckConfirm, DispatchInv, DispatchTypeOK
  <1>4. ASSUME NEW c \in Confirms, ConfirmRefused(c) PROVE DispatchInv'
    <2>1. confirm' \in [Confirms -> Confirming]
      BY <1>4 DEF ConfirmRefused, DispatchInv, DispatchTypeOK, Confirming
    <2> QED
      BY <1>4, <2>1, CloudReads DEF ConfirmRefused, DispatchInv, DispatchTypeOK
  <1>5. ASSUME NEW c \in Confirms, ConfirmDispatch(c) PROVE DispatchInv'
    <2>1. confirm' \in [Confirms -> Confirming] /\ confirm[c].token \in Tokens
      BY <1>5 DEF ConfirmDispatch, DispatchInv, DispatchTypeOK, Confirming
    <2> QED
      BY <1>5, <2>1, QueueKeeps DEF ConfirmDispatch
  <1>6. ASSUME NEW old \in SUBSET JobIds, ListWorkerJobs(old) PROVE DispatchInv'
    BY <1>6, ListKeeps
  <1>7. ASSUME NEW r \in requests, Handle(r) PROVE DispatchInv'
    BY <1>7, CloudHandles
  <1>8. CASE DaemonStep
    BY <1>8, DaemonKeeps
  <1>9. CASE GiveUp
    BY <1>9, DaemonLetsGo DEF GiveUp
  <1>10. CASE DaemonCrash
    BY <1>10, DaemonLetsGo DEF DaemonCrash, GoTo
  <1> QED
    BY <1>1, <1>2, <1>3, <1>4, <1>5, <1>6, <1>7, <1>8, <1>9, <1>10 DEF Next

LEMMA DispatchStarts == Init => DispatchInv
  <1> SUFFICES ASSUME Init PROVE DispatchInv
    OBVIOUS
  <1>1. DispatchTypeOK
    BY DEF Init, DispatchTypeOK, Confirming, DaemonSteps, Replies
  <1>2. Consumed = {} /\ \A t \in Tokens : {j \in DOMAIN jobs : jobs[j].token = t} = {}
    BY DEF Init, Consumed
  <1>3. Approvals
    <2>1. Cardinality({}) = 0 /\ Len(jobs) = 0
      BY FS_EmptySet DEF Init
    <2> QED
      BY <1>2, <2>1 DEF Approvals, OneJobPerApproval, Init
  <1>4. Quiet /\ Settled /\ Reported
    BY DEF Init, Quiet, Settled, Reported, NoReply
  <1>5. Held
    <2>1. \A j \in JobIds : ~Offered(j)
      BY DEF Init, Offered, Assigned, NoReply
    <2> QED
      BY <2>1 DEF Init, Held, Holds, Holding
  <1> QED
    BY <1>1, <1>3, <1>4, <1>5 DEF DispatchInv

THEOREM DispatchInvariant == Spec => []DispatchInv
  BY DispatchStarts, DispatchStep, PTL DEF Spec

\* A confirmed token has its one job, and no other token has any.
THEOREM ApprovalsHaveOneJob == Spec => []OneJobPerApproval
  <1>1. DispatchInv => OneJobPerApproval
    BY DEF DispatchInv, Approvals
  <1> QED
    BY <1>1, DispatchInvariant, PTL

\* A job shown as uploaded has its bundle, wherever the upload stopped.
THEOREM UploadsHaveBundles == Spec => []UploadedHasBundle
  <1>1. DispatchInv => UploadedHasBundle
    BY JobsAreIds DEF DispatchInv, Settled, UploadedHasBundle
  <1> QED
    BY <1>1, DispatchInvariant, PTL

-----------------------------------------------------------------------------
(* The refinement.                                                           *)

OutcomeOf(j) ==
    CASE j \notin DOMAIN jobs -> "absent"
      [] j \in DOMAIN jobs /\ jobs[j].status \in Claimable -> "open"
      [] j \in DOMAIN jobs /\ jobs[j].status \in Uploaded -> "delivered"
      [] OTHER -> "failed"

LEMMA OutcomeIs ==
    /\ Outcome = [j \in JobIds |-> OutcomeOf(j)]
    /\ Outcome' = [j \in JobIds |-> OutcomeOf(j)']
  BY DEF Outcome, OutcomeOf

LEMMA OutcomeUnchanged ==
    ASSUME UNCHANGED jobs
    PROVE  Outcome' = Outcome
  BY DEF Outcome

\* A sweep, a claim, a report of failure or a stored bundle gives up orders, or nothing.
LEMMA ProgressGivesUp ==
    ASSUME DispatchInv, Progress, UNCHANGED launches
    PROVE  \E givenUp \in SUBSET JobIds : Order!GiveUpOrders(givenUp)
  <1> DEFINE givenUp == {j \in JobIds : OutcomeOf(j) = "open" /\ OutcomeOf(j)' = "failed"}
  <1>1. ASSUME NEW j \in JobIds
        PROVE  OutcomeOf(j)' = IF j \in givenUp THEN "failed" ELSE OutcomeOf(j)
    <2>1. DOMAIN jobs' = DOMAIN jobs /\ jobs' \in Seq(Job)
      BY DEF Progress, JobsKept
    <2>2. CASE j \notin DOMAIN jobs
      BY <2>1, <2>2 DEF OutcomeOf
    <2>3. CASE j \in DOMAIN jobs
      <3>1. jobs[j].status \in Statuses
        BY <2>3, JobFacts DEF DispatchInv
      <3>2. jobs'[j].status \in Statuses
        <4>1. jobs' \in [1 .. Len(jobs') -> Job] /\ DOMAIN jobs' = 1 .. Len(jobs')
          BY <2>1, LenProperties
        <4> QED
          BY <2>1, <2>3, <4>1 DEF Job
      <3>3. jobs[j].status \in Uploaded \/ jobs[j].status = "failed" \/ jobs[j].status \in Claimable
        BY <3>1 DEF Statuses
      <3>4. CASE jobs[j].status \in Uploaded
        <4>1. jobs'[j].status \in Uploaded
          BY <2>3, <3>2, <3>4 DEF Progress
        <4> QED
          BY <2>1, <2>3, <3>4, <4>1 DEF OutcomeOf, Uploaded, Claimable
      <3>5. CASE jobs[j].status = "failed"
        <4>1. jobs'[j].status = "failed"
          BY <2>3, <3>2, <3>5 DEF Progress
        <4> QED
          BY <2>1, <2>3, <3>5, <4>1 DEF OutcomeOf, Uploaded, Claimable
      <3>6. CASE jobs[j].status \in Claimable
        <4>1. jobs'[j].status \notin Uploaded
          BY <2>3, <3>6 DEF Progress, Uploaded, Claimable
        <4> QED
          BY <2>1, <2>3, <3>2, <3>6, <4>1 DEF OutcomeOf, Uploaded, Claimable, Statuses
      <3> QED
        BY <3>3, <3>4, <3>5, <3>6
    <2> QED
      BY <2>2, <2>3
  <1>2. Order!GiveUpOrders(givenUp)
    BY <1>1, OutcomeIs DEF Order!GiveUpOrders
  <1> QED
    BY <1>2

\* The job of a consumed token is a new order.
LEMMA QueuePlaces ==
    ASSUME DispatchInv, NEW t \in Tokens, QueueJob(t),
           UNCHANGED <<daemon, requests, reply, launches>>,
           confirm' \in [Confirms -> Confirming]
    PROVE  \E o \in JobIds : Order!Place(o)
  <1>1. PICK n \in JobIds :
          /\ n \notin DOMAIN jobs /\ DOMAIN jobs' = DOMAIN jobs \cup {n}
          /\ jobs'[n].status = "queued"
          /\ \A k \in DOMAIN jobs : jobs'[k] = jobs[k]
    BY QueueKeeps
  <1>2. OutcomeOf(n) = "absent" /\ OutcomeOf(n)' = "open"
    BY <1>1 DEF OutcomeOf, Claimable, Uploaded
  <1>3. \A k \in JobIds \ {n} : OutcomeOf(k)' = OutcomeOf(k)
    BY <1>1 DEF OutcomeOf
  <1>4. Order!Settle(n, {"absent"}, "open")
    BY <1>2, <1>3, OutcomeIs DEF Order!Settle
  <1> QED
    BY <1>4 DEF Order!Place

\* Screaming Frog is started for an order that nothing was started for.
LEMMA LaunchStarts ==
    ASSUME DispatchInv, LaunchSupervised
    PROVE  \E o \in JobIds : Order!Start(o)
  <1>1. PICK j \in JobIds : /\ Pending(j) /\ launches[j] = 0
                            /\ launches' = [launches EXCEPT ![j] = 1] /\ jobs' = jobs
    BY LaunchKeeps
  <1>2. OutcomeOf(j) \in {"open", "failed"}
    BY <1>1 DEF OutcomeOf, Pending, Claimable, Uploaded
  <1> QED
    BY <1>1, <1>2, OutcomeIs, OutcomeUnchanged DEF Order!Start

\* The upload is the delivery.
LEMMA UploadDelivers ==
    ASSUME DispatchInv, NEW r \in requests, MarkUploaded(r)
    PROVE  \E o \in JobIds : Order!Deliver(o)
  <1>1. /\ r.op = "upload" /\ SetStatus(r.job, r.what) /\ UNCHANGED launches
    BY DEF MarkUploaded, desktop
  <1>2. PICK j \in JobIds : /\ j = r.job /\ j \in DOMAIN jobs /\ Pending(j)
                            /\ launches[j] = 1 /\ r.what \in Uploaded
    BY <1>1, RequestFacts DEF Final
  <1>3. /\ DOMAIN jobs' = DOMAIN jobs
        /\ \A k \in DOMAIN jobs : jobs'[k].status = IF k = j THEN r.what ELSE jobs[k].status
    BY <1>1, <1>2, StatusSet DEF DispatchInv, Statuses, JobsKept
  <1>4. OutcomeOf(j) \in {"open", "failed"} /\ OutcomeOf(j)' = "delivered"
    BY <1>2, <1>3 DEF OutcomeOf, Pending, Claimable, Uploaded
  <1>5. \A k \in JobIds \ {j} : OutcomeOf(k)' = OutcomeOf(k)
    BY <1>3 DEF OutcomeOf
  <1>6. Order!Settle(j, {"open", "failed"}, "delivered")
    BY <1>4, <1>5, OutcomeIs DEF Order!Settle
  <1> QED
    BY <1>1, <1>2, <1>6 DEF Order!Deliver

LEMMA StepIsOrdersStep ==
    ASSUME DispatchInv, [Next]_vars
    PROVE  [Order!OrdersNext]_<<Outcome, launches>>
  <1> USE DEF desktop, network, cloud
  <1>1. ASSUME Progress, UNCHANGED launches PROVE Order!OrdersNext
    BY <1>1, ProgressGivesUp DEF Order!OrdersNext
  <1>2. ASSUME UNCHANGED <<jobs, launches>> PROVE UNCHANGED <<Outcome, launches>>
    BY <1>2, OutcomeUnchanged
  <1>3. ASSUME NEW c \in Confirms, ConfirmDispatch(c) PROVE Order!OrdersNext
    <2>1. confirm' \in [Confirms -> Confirming] /\ confirm[c].token \in Tokens
      BY <1>3 DEF ConfirmDispatch, DispatchInv, DispatchTypeOK, Confirming
    <2> QED
      BY <1>3, <2>1, QueuePlaces DEF ConfirmDispatch, Order!OrdersNext
  <1>4. ASSUME NEW old \in SUBSET JobIds, ListWorkerJobs(old) PROVE Order!OrdersNext
    BY <1>1, <1>4, SweepProgress DEF ListWorkerJobs
  <1>5. ASSUME NEW r \in requests, Handle(r) PROVE [Order!OrdersNext]_<<Outcome, launches>>
    <2>1. CASE PollTouchesAndExpires(r)
      BY <1>1, <2>1, SweepProgress DEF PollTouchesAndExpires
    <2>2. CASE PollClaims(r)
      <3>1. CASE UNCHANGED jobs
        BY <1>2, <2>2, <3>1 DEF PollClaims
      <3>2. ASSUME NEW j \in Queued, SetStatus(j, "dispatched") PROVE Progress
        <4>1. j \in DOMAIN jobs /\ jobs[j].status = "queued" /\ "dispatched" \in Statuses
          BY DEF Queued, Statuses, Claimable
        <4>2. /\ JobsKept
              /\ \A k \in DOMAIN jobs :
                   /\ jobs'[k].bundle = jobs[k].bundle
                   /\ jobs'[k].status = IF k = j THEN "dispatched" ELSE jobs[k].status
          BY <3>2, <4>1, StatusSet DEF DispatchInv
        <4> QED
          BY <4>1, <4>2 DEF Progress, Pending, Uploaded, JobsKept
      <3> QED
        BY <1>1, <2>2, <3>1, <3>2 DEF PollClaims
    <2>3. CASE DownloadUrlList(r) \/ RequestFails(r)
      BY <1>2, <2>3 DEF DownloadUrlList, RequestFails
    <2>4. CASE ReportFailure(r)
      <3>1. r.op = "failed" /\ SetStatus(r.job, "failed") /\ UNCHANGED launches
        BY <2>4 DEF ReportFailure
      <3>2. r.job \in DOMAIN jobs /\ Pending(r.job) /\ "failed" \in Statuses
        BY <3>1, RequestFacts DEF Final, Statuses
      <3>3. /\ JobsKept
            /\ \A k \in DOMAIN jobs :
                 /\ jobs'[k].bundle = jobs[k].bundle
                 /\ jobs'[k].status = IF k = r.job THEN "failed" ELSE jobs[k].status
        BY <3>1, <3>2, StatusSet DEF DispatchInv
      <3>4. Progress
        BY <3>2, <3>3 DEF Progress, JobsKept, Pending, Uploaded
      <3> QED
        BY <1>1, <3>1, <3>4
    <2>5. CASE StoreUpload(r)
      <3>1. r.op = "upload" /\ SetBundle(r.job, TRUE) /\ UNCHANGED launches
        BY <2>5 DEF StoreUpload
      <3>2. r.job \in DOMAIN jobs
        BY <3>1, RequestFacts DEF Final
      <3>3. /\ JobsKept
            /\ \A k \in DOMAIN jobs :
                 /\ jobs'[k].status = jobs[k].status
                 /\ jobs'[k].bundle = IF k = r.job THEN TRUE ELSE jobs[k].bundle
        BY <3>1, <3>2, BundleSet DEF DispatchInv
      <3>4. Progress
        BY <3>2, <3>3 DEF Progress, JobsKept, Pending
      <3> QED
        BY <1>1, <3>1, <3>4
    <2>6. CASE MarkUploaded(r)
      BY <2>6, UploadDelivers DEF Order!OrdersNext
    <2> QED
      BY <1>5, <2>1, <2>2, <2>3, <2>4, <2>5, <2>6 DEF Handle
  <1>6. CASE LaunchSupervised
    BY <1>6, LaunchStarts DEF Order!OrdersNext
  <1>7. CASE DaemonStep /\ ~LaunchSupervised
    <2>1. UNCHANGED <<jobs, launches>>
      BY <1>7 DEF DaemonStep, StartDaemon, Poll, PollReturns, DropAssignment, AdmitAssignment,
                  UrlListVerified, RejectEnvelope, ApproveAssignment, ToolFails, CrawlCompletes,
                  UploadBundle, OutcomeReturns
    <2> QED
      BY <1>2, <2>1
  <1>8. ASSUME NEW c \in Confirms, NEW t \in Tokens, CheckConfirm(c, t)
        PROVE  UNCHANGED <<Outcome, launches>>
    BY <1>2, <1>8 DEF CheckConfirm
  <1>9. CASE GiveUp \/ DaemonCrash \/ UNCHANGED vars
    BY <1>2, <1>9 DEF GiveUp, DaemonCrash, vars
  <1>10. ASSUME NEW t \in Tokens, Preview(t) PROVE UNCHANGED <<Outcome, launches>>
    BY <1>2, <1>10 DEF Preview
  <1>11. ASSUME NEW c \in Confirms, ConfirmRefused(c) PROVE UNCHANGED <<Outcome, launches>>
    BY <1>2, <1>11 DEF ConfirmRefused
  <1> QED
    BY <1>3, <1>4, <1>5, <1>6, <1>7, <1>8, <1>9, <1>10, <1>11 DEF Next

\* Every behaviour of cloud, network and desktop is one of the abstract orders, for any
\* number of approvals, operators, crashes and lost or late requests.
THEOREM DispatchImplementsOrders == Spec => ImplementsCrawlOrders
  <1>1. Init => Order!OrdersInit
    <2> SUFFICES ASSUME Init PROVE Order!OrdersInit
      OBVIOUS
    <2>1. \A j \in JobIds : OutcomeOf(j) = "absent"
      BY DEF Init, OutcomeOf
    <2>2. Outcome = [j \in JobIds |-> "absent"]
      BY <2>1, OutcomeIs
    <2> QED
      BY <2>2 DEF Init, Order!OrdersInit
  <1>2. DispatchInv /\ [Next]_vars => [Order!OrdersNext]_<<Outcome, launches>>
    BY StepIsOrdersStep
  <1>3. ImplementsCrawlOrders
          <=> Order!OrdersInit /\ [][Order!OrdersNext]_<<Outcome, launches>>
    BY DEF ImplementsCrawlOrders, Order!OrdersSpec, Order!orderVars
  <1> QED
    BY <1>1, <1>2, <1>3, DispatchInvariant, PTL DEF Spec
=============================================================================
