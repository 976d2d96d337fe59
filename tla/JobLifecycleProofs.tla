------------------------- MODULE JobLifecycleProofs -------------------------
(***************************************************************************)
(* Proofs about JobLifecycle, for every number of jobs, requests, facets   *)
(* and crashes.                                                            *)
(***************************************************************************)
EXTENDS JobLifecycle, FiniteSetTheorems, TLAPS

SlotType == [active : SUBSET Jobs, facet : [Facets -> SUBSET Jobs], flags : SUBSET Jobs]

\* A reservation made under the provisional id and moved onto a job's id is
\* the reservation under that id: nothing of the provisional id remains.
LEMMA RekeyedReservation ==
    ASSUME NEW s \in SlotType, NEW f \in Facets, NEW j \in Jobs
    PROVE  Rekey(Reserve(s, Pending, f), Pending, j, f) = Reserve(s, j, f)
<1>1. Pending \notin Jobs
  BY MaxJobIdAssumption DEF Pending, Jobs
<1>2. s.active \subseteq Jobs /\ s.flags \subseteq Jobs /\ s.facet \in [Facets -> SUBSET Jobs]
  BY DEF SlotType
<1>3. ((s.active \cup {Pending}) \ {Pending}) \cup {j} = s.active \cup {j}
  BY <1>1, <1>2
<1>4. ((s.flags \cup {Pending}) \ {Pending}) \cup {j} = s.flags \cup {j}
  BY <1>1, <1>2
<1>5. [[s.facet EXCEPT ![f] = @ \cup {Pending}] EXCEPT ![f] = (@ \ {Pending}) \cup {j}]
      = [s.facet EXCEPT ![f] = @ \cup {j}]
  <2>1. ((s.facet[f] \cup {Pending}) \ {Pending}) \cup {j} = s.facet[f] \cup {j}
    BY <1>1, <1>2
  <2> QED  BY <1>2, <2>1
<1> QED  BY <1>3, <1>4, <1>5 DEF Rekey, Reserve

\* Giving back a reservation made under the provisional id restores the slots.
LEMMA ReleasedReservation ==
    ASSUME NEW s \in SlotType, NEW f \in Facets
    PROVE  Release(Reserve(s, Pending, f), Pending, f) = s
<1>1. Pending \notin Jobs
  BY MaxJobIdAssumption DEF Pending, Jobs
<1>2. s.active \subseteq Jobs /\ s.flags \subseteq Jobs /\ s.facet \in [Facets -> SUBSET Jobs]
  BY DEF SlotType
<1>3. (s.active \cup {Pending}) \ {Pending} = s.active
  BY <1>1, <1>2
<1>4. (s.flags \cup {Pending}) \ {Pending} = s.flags
  BY <1>1, <1>2
<1>5. [[s.facet EXCEPT ![f] = @ \cup {Pending}] EXCEPT ![f] = @ \ {Pending}] = s.facet
  <2>1. (s.facet[f] \cup {Pending}) \ {Pending} = s.facet[f]
    BY <1>1, <1>2
  <2> QED  BY <1>2, <2>1
<1>6. s = [active |-> s.active, facet |-> s.facet, flags |-> s.flags]
  BY DEF SlotType
<1> QED  BY <1>3, <1>4, <1>5, <1>6 DEF Release, Reserve

\* Reserving and releasing keep the registries well typed.
LEMMA SlotTyping ==
    ASSUME NEW s \in SlotType, NEW f \in Facets, NEW j \in Jobs
    PROVE  Reserve(s, j, f) \in SlotType /\ Release(s, j, f) \in SlotType
BY DEF SlotType, Reserve, Release

-----------------------------------------------------------------------------
(* Type correctness.                                                       *)

Statuses == Open \cup Terminal \cup {"absent"}

\* The tools a job may run.
LEMMA ToolNames == "classifier" \in Tools /\ "frog" \in Tools
BY DEF Tools

\* Every store operation on a job keeps the files well typed.
LEMMA StoreTyping ==
    ASSUME StoreTypeOK, NEW j \in Jobs
    PROVE  /\ \A f \in Facets, l \in Locks, t \in Tools : Create(f, l, t) => StoreTypeOK'
           /\ \A st \in Statuses : SetStatus(j, st) => StoreTypeOK'
           /\ \A kind \in Kinds : WriteSidecar(j, kind) => StoreTypeOK'
           /\ \A st \in Statuses : FinishRecord(j, st) => StoreTypeOK'
           /\ CheckpointRecord(j) => StoreTypeOK'
           /\ RecordFailedDelete(j) => StoreTypeOK'
           /\ ClearDeleteLockout(j) => StoreTypeOK'
           /\ Delete(j) => StoreTypeOK'
           /\ DeleteInterrupted(j) => StoreTypeOK'
           /\ UNCHANGED storeVars => StoreTypeOK'
<1>0. NoRecord \in JobRecord
  BY FacetsAssumption DEF NoRecord, JobRecord, Locks, Tools
<1>1. ASSUME NEW f \in Facets, NEW l \in Locks, NEW t \in Tools, Create(f, l, t)
      PROVE  StoreTypeOK'
  <2>1. [status |-> "queued", has |-> {}, facet |-> f, lock |-> l, tool |-> t] \in JobRecord
    BY DEF JobRecord, Open
  <2> QED  BY <1>1, <2>1, MaxJobIdAssumption DEF Create, StoreTypeOK, Jobs
<1>2. ASSUME NEW st \in Statuses, SetStatus(j, st)
      PROVE  StoreTypeOK'
  BY <1>2 DEF SetStatus, StoreTypeOK, JobRecord, Statuses
<1>3. ASSUME NEW kind \in Kinds, WriteSidecar(j, kind)
      PROVE  StoreTypeOK'
  BY <1>3 DEF WriteSidecar, StoreTypeOK
<1>4. ASSUME NEW st \in Statuses, FinishRecord(j, st)
      PROVE  StoreTypeOK'
  <2>1. records'[j] = [status |-> st, has |-> records[j].has \cup {"result"},
                       facet |-> records[j].facet, lock |-> records[j].lock,
                       tool |-> records[j].tool]
    BY <1>4 DEF FinishRecord, StoreTypeOK, JobRecord
  <2>2. records'[j] \in JobRecord
    BY <2>1 DEF StoreTypeOK, JobRecord, Statuses
  <2> QED  BY <1>4, <2>2 DEF FinishRecord, StoreTypeOK
<1>5. CheckpointRecord(j) => StoreTypeOK'
  BY DEF CheckpointRecord, StoreTypeOK, JobRecord
<1>6. (RecordFailedDelete(j) => StoreTypeOK') /\ (ClearDeleteLockout(j) => StoreTypeOK')
  BY DEF RecordFailedDelete, ClearDeleteLockout, StoreTypeOK, Kinds
<1>7. Delete(j) => StoreTypeOK'
  BY <1>0 DEF Delete, StoreTypeOK
<1>8. DeleteInterrupted(j) => StoreTypeOK'
  BY <1>0 DEF DeleteInterrupted, StoreTypeOK
<1>9. UNCHANGED storeVars => StoreTypeOK'
  BY DEF storeVars, StoreTypeOK
<1> QED  BY <1>1, <1>2, <1>3, <1>4, <1>5, <1>6, <1>7, <1>8, <1>9

\* The parts of TypeOK that are about the API process.
ApiTypeOK ==
    /\ slots \in SlotType
    /\ cancelled \subseteq Jobs
    /\ thread \in [Jobs -> Threads]
    /\ taskFacet \in [Jobs -> Facets]
    /\ classifiers \subseteq Jobs
    /\ accounts \subseteq Jobs
RestTypeOK ==
    /\ req \in [Requests -> Request]
    /\ registry \in [Keys -> Jobs \cup {NoJob}]
    /\ recovery \in [at : {"listing", "failing", "done"}, todo : SUBSET Jobs]
    /\ crashes \in 0 .. MaxCrashes
    /\ abandoned \subseteq Jobs

LEMMA TypeOKParts == TypeOK <=> StoreTypeOK /\ ApiTypeOK /\ RestTypeOK
BY DEF TypeOK, ApiTypeOK, RestTypeOK, SlotType

\* An idle handler is a handler; so is one that has read a record.
LEMMA IdleTyping == Idle \in Request
BY FacetsAssumption DEF Idle, Request, Locks

\* A handler that moves on, or takes over a new job, is still a handler.
LEMMA RequestTyping ==
    ASSUME NEW q \in Request, NEW j \in Jobs, NEW c \in SUBSET {"homepage"}
    PROVE  /\ [q EXCEPT !.at = "admitted"] \in Request
           /\ [q EXCEPT !.at = "reparse record"] \in Request
           /\ [q EXCEPT !.at = "reparse homepage"] \in Request
           /\ [q EXCEPT !.at = "reparse blob", !.job = j, !.carry = c] \in Request
BY DEF Request

\* What a start leaves well typed, whether it admits, fails or refuses.
LEMMA StartTyping ==
    ASSUME StoreTypeOK, ApiTypeOK, NEW f \in Facets, NEW l \in Locks, NEW t \in Tools, Start(f, l, t)
    PROVE  StoreTypeOK' /\ ApiTypeOK' /\ (nextId' # nextId => nextId \in Jobs)
<1>1. CASE StartJob(f, l, t)
  <2>1. Create(f, l, t) /\ nextId \in Jobs
    BY <1>1 DEF StartJob, Create
  <2>2. StoreTypeOK'
    BY <2>1, StoreTyping
  <2>3. slots' = Reserve(slots, nextId, f)
    BY <1>1, <2>1, RekeyedReservation DEF StartJob, ApiTypeOK
  <2>4. slots' \in SlotType
    BY <2>1, <2>3, SlotTyping DEF ApiTypeOK
  <2>5. thread' \in [Jobs -> Threads] /\ taskFacet' \in [Jobs -> Facets]
        /\ classifiers' \subseteq Jobs
    BY <1>1, <2>1 DEF StartJob, ApiTypeOK, Threads, Live
  <2> QED  BY <1>1, <2>1, <2>2, <2>4, <2>5 DEF StartJob, ApiTypeOK
<1>2. CASE StartFails(f)
  <2>1. slots' = slots
    BY <1>2, ReleasedReservation DEF StartFails, ApiTypeOK
  <2> QED  BY <1>2, <2>1 DEF StartFails, StoreTypeOK, ApiTypeOK, storeVars
<1>3. CASE StartRefused(f)
  BY <1>3 DEF StartRefused, StoreTypeOK, ApiTypeOK, storeVars, apiVars
<1> QED  BY <1>1, <1>2, <1>3 DEF Start

\* A thread's step keeps the files and the threads well typed.
LEMMA RunTyping ==
    ASSUME StoreTypeOK, ApiTypeOK, NEW j \in Jobs,
           RunStep(j) \/ CheckpointSaves(j) \/ HomepageSaves(j) \/ ToolReturns(j)
    PROVE  StoreTypeOK' /\ ApiTypeOK'
<1> USE DEF Threads, Live, InRun, InTool
<1>0. "result" \in Kinds /\ "checkpoint" \in Kinds /\ "homepage" \in Kinds
  BY DEF Kinds
<1>0a. {"running", "failed", "succeeded", "partial"} \subseteq Statuses
  BY DEF Statuses, Open, Terminal
<1>1. CASE RunOpen(j)
  BY <1>1, StoreTyping DEF RunOpen, ThreadOnly, ApiTypeOK
<1>2. CASE RunMarkRunning(j)
  <2>1. StoreTypeOK'
    BY <1>2, <1>0a, StoreTyping DEF RunMarkRunning, StoreCall, MarkRunning
  <2> QED  BY <1>2, <2>1 DEF RunMarkRunning, StoreCall, ThreadOnly, ApiTypeOK
<1>3. CASE CheckpointSaves(j)
  <2>1. StoreTypeOK'
    BY <1>3, <1>0, StoreTyping DEF CheckpointSaves, StoreCall, CheckpointBlob
  <2> QED  BY <1>3, <2>1 DEF CheckpointSaves, StoreCall, ThreadOnly, ApiTypeOK
<1>4. CASE CheckpointFlags(j)
  <2>1. StoreTypeOK'
    BY <1>4, StoreTyping DEF CheckpointFlags, StoreCall
  <2> QED  BY <1>4, <2>1 DEF CheckpointFlags, StoreCall, ThreadOnly, ApiTypeOK
<1>5. CASE HomepageSaves(j)
  <2>1. StoreTypeOK'
    BY <1>5, <1>0, StoreTyping DEF HomepageSaves
  <2> QED  BY <1>5, <2>1 DEF HomepageSaves, ThreadOnly, ApiTypeOK
<1>6. CASE ToolReturns(j)
  BY <1>6, StoreTyping DEF ToolReturns, ThreadOnly, ApiTypeOK
<1>7. CASE RunFinishBlob(j)
  <2>1. StoreTypeOK'
    BY <1>7, <1>0, StoreTyping DEF RunFinishBlob, StoreCall, FinishBlob
  <2> QED  BY <1>7, <2>1 DEF RunFinishBlob, StoreCall, ThreadOnly, ApiTypeOK
<1>8. CASE RunFinishRecord(j)
  <2>1. PICK status \in {"succeeded", "partial"} :
            StoreCall(j, FinishRecord(j, status), "closing", "crashing")
    BY <1>8 DEF RunFinishRecord
  <2>2. StoreTypeOK'
    BY <2>1, <1>0a, StoreTyping DEF StoreCall
  <2> QED  BY <1>8, <2>1, <2>2 DEF RunFinishRecord, StoreCall, ThreadOnly, ApiTypeOK
<1>9. CASE RunMarkFailed(j)
  <2>1. StoreTypeOK'
    BY <1>9, <1>0a, StoreTyping DEF RunMarkFailed, StoreCall, MarkFailed
  <2> QED  BY <1>9, <2>1 DEF RunMarkFailed, StoreCall, ThreadOnly, ApiTypeOK
<1>10. CASE RunClose(j)
  BY <1>10, StoreTyping DEF RunClose, ThreadOnly, ApiTypeOK
<1>11. CASE DispatchReleases(j)
  <2>1. StoreTypeOK'
    BY <1>11, StoreTyping DEF DispatchReleases, TaskEnds
  <2>2. slots' \in SlotType
    BY <1>11, SlotTyping DEF DispatchReleases, ApiTypeOK
  <2> QED  BY <1>11, <2>1, <2>2, FacetsAssumption DEF DispatchReleases, TaskEnds, ApiTypeOK
<1> QED  BY <1>1, <1>2, <1>3, <1>4, <1>5, <1>6, <1>7, <1>8, <1>9, <1>10, <1>11 DEF RunStep

\* Initially the system is well typed.
LEMMA InitTyping == Init => TypeOK
<1> SUFFICES ASSUME Init PROVE TypeOK
  OBVIOUS
<1>1. NoRecord \in JobRecord
  BY FacetsAssumption DEF NoRecord, JobRecord, Locks, Tools
<1>2. StoreTypeOK
  BY <1>1, MaxJobIdAssumption DEF Init, StoreInit, StoreTypeOK, Jobs
<1>3. ApiTypeOK
  BY FacetsAssumption DEF Init, ApiTypeOK, SlotType, NoSlots, Threads
<1>4. RestTypeOK
  BY IdleTyping, MaxCrashesAssumption DEF Init, RestTypeOK
<1> QED  BY <1>2, <1>3, <1>4, TypeOKParts

\* A restart keeps the volatile state well typed.
LEMMA RestartTyping ==
    ASSUME RestTypeOK, Restart
    PROVE  ApiTypeOK' /\ RestTypeOK'
<1>1. ApiTypeOK'
  BY FacetsAssumption DEF Restart, ApiTypeOK, SlotType, NoSlots, Threads
<1>2. RestTypeOK'
  BY IdleTyping, MaxCrashesAssumption DEF Restart, RestTypeOK
<1> QED  BY <1>1, <1>2

\* The job a handler past its read works on is a job.
LEMMA StopTyping ==
    ASSUME ApiTypeOK, NEW j \in Jobs, NEW f \in Facets, StopCrawl(j, f)
    PROVE  ApiTypeOK'
<1>1. slots' \in SlotType
  BY SlotTyping DEF StopCrawl, ApiTypeOK
<1> QED  BY <1>1 DEF StopCrawl, ApiTypeOK

\* Every step from a well-typed state in which the handlers in flight name
\* jobs leads to a well-typed state.
LEMMA NextTyping ==
    ASSUME TypeOK, HandlersNameJobs, [Next]_vars
    PROVE  TypeOK'
<1>0. StoreTypeOK /\ ApiTypeOK /\ RestTypeOK
  BY TypeOKParts
<1> SUFFICES StoreTypeOK' /\ ApiTypeOK' /\ RestTypeOK'
  BY DEF TypeOK, ApiTypeOK, RestTypeOK, SlotType
<1>0a. \A r \in Requests : req[r].at \notin {"idle", "hash"} => req[r].job \in Jobs
  BY <1>0, MaxJobIdAssumption DEF HandlersNameJobs, StoreTypeOK, Jobs
<1>0b. \A r \in Requests : req[r].facet \in Facets /\ req[r].lock \in Locks
  BY <1>0 DEF RestTypeOK, Request
<1>0c. {"failed", "succeeded"} \subseteq Statuses /\ {"result", "homepage"} \subseteq Kinds
  BY DEF Statuses, Open, Terminal, Kinds
<1>0d. Keys \cup {NoKey} # {} /\ Locks # {}
  BY DEF Locks
<1>1. ASSUME NEW r \in Requests, NEW k \in Keys \cup {NoKey}, NEW l \in NewJobLocks,
             NEW f \in Facets, CreateJob(r, k, l, f)
      PROVE  StoreTypeOK' /\ ApiTypeOK' /\ RestTypeOK'
  <2>0. l \in Locks /\ f \in Facets
    BY NewJobLocksAssumption
  <2>1. Unclaimed(k) \in [Keys -> Jobs \cup {NoJob}]
    BY <1>0 DEF Unclaimed, RestTypeOK
  <2>2. CASE Start(f, l, "classifier") /\ StoreKey(Unclaimed(k), k) /\ UNCHANGED req
    <3>1. StoreTypeOK' /\ ApiTypeOK' /\ (nextId' # nextId => nextId \in Jobs)
      BY <1>0, <2>0, <2>2, StartTyping, ToolNames
    <3>2. registry' \in [Keys -> Jobs \cup {NoJob}]
      BY <2>1, <2>2, <3>1 DEF StoreKey
    <3> QED  BY <1>0, <1>1, <2>2, <3>1, <3>2 DEF CreateJob, RestTypeOK
  <2>3. CASE UNCHANGED <<storeVars, apiVars>> /\ registry' = Unclaimed(k)
             /\ req' = [req EXCEPT ![r] = [Idle EXCEPT !.op = "create", !.at = "hash", !.key = k,
                                                      !.facet = f, !.lock = l]]
    <3>1. [Idle EXCEPT !.op = "create", !.at = "hash", !.key = k, !.facet = f, !.lock = l]
             \in Request
      BY <1>1, <2>0 DEF CreateJob, Idle, Request
    <3> QED  BY <1>0, <1>1, <2>1, <2>3, <3>1, StoreTyping
             DEF CreateJob, RestTypeOK, ApiTypeOK, apiVars, StoreTypeOK, storeVars
  <2> QED  BY <1>1, <2>2, <2>3 DEF CreateJob
<1>2. ASSUME NEW f \in SFFacets, CreateSFJob(f)
      PROVE  StoreTypeOK' /\ ApiTypeOK' /\ RestTypeOK'
  <2>1. f \in Facets /\ "none" \in Locks
    BY FacetsAssumption DEF Locks
  <2> QED  BY <1>0, <1>2, <2>1, StartTyping, ToolNames DEF CreateSFJob, RestTypeOK
<1>3. ASSUME NEW r \in Requests, NEW op \in Operations, NEW j \in Jobs, ReadRecord(r, op, j)
      PROVE  StoreTypeOK' /\ ApiTypeOK' /\ RestTypeOK'
  <2>1. records[j] \in JobRecord
    BY <1>0 DEF StoreTypeOK
  <2>2. [Idle EXCEPT !.op = op, !.at = "gate", !.job = j, !.status = records[j].status,
                     !.facet = records[j].facet, !.lock = records[j].lock] \in Request
    BY <2>1 DEF Idle, Request, JobRecord
  <2> QED  BY <1>0, <1>3, <2>2
           DEF ReadRecord, RestTypeOK, ApiTypeOK, apiVars, StoreTypeOK, storeVars
<1>4. ASSUME NEW r \in Requests, CreateJobHashed(r)
      PROVE  StoreTypeOK' /\ ApiTypeOK' /\ RestTypeOK'
  <2>1. StoreTypeOK' /\ ApiTypeOK' /\ (nextId' # nextId => nextId \in Jobs)
    BY <1>0, <1>0b, <1>4, StartTyping, ToolNames DEF CreateJobHashed
  <2>2. registry' \in [Keys -> Jobs \cup {NoJob}]
    BY <1>0, <1>4, <2>1 DEF CreateJobHashed, StoreKey, RestTypeOK
  <2> QED  BY <1>0, <1>4, <2>1, <2>2, IdleTyping DEF CreateJobHashed, RestTypeOK
<1>5. ASSUME NEW r \in Requests, GatePasses(r) \/ GateCountsFailure(r) \/ GateRefuses(r)
      PROVE  StoreTypeOK' /\ ApiTypeOK' /\ RestTypeOK'
  <2>1. req[r].job \in Jobs
    BY <1>0a, <1>5 DEF GatePasses, GateCountsFailure, GateRefuses
  <2>2. StoreTypeOK'
    <3>1. ClearDeleteLockout(req[r].job) \/ RecordFailedDelete(req[r].job) \/ UNCHANGED storeVars
      BY <1>5 DEF GatePasses, GateCountsFailure, GateRefuses
    <3> QED  BY <1>0, <2>1, <3>1, StoreTyping
  <2>3. [req[r] EXCEPT !.at = "admitted"] \in Request
    BY <1>0, <2>1, RequestTyping DEF RestTypeOK
  <2>4. req' \in [Requests -> Request]
    BY <1>0, <1>5, <2>3, IdleTyping DEF GatePasses, GateCountsFailure, GateRefuses, RestTypeOK
  <2> QED  BY <1>0, <1>5, <2>2, <2>4
           DEF GatePasses, GateCountsFailure, GateRefuses, GateOnly, RestTypeOK, ApiTypeOK, apiVars
<1>6. ASSUME NEW r \in Requests, CancelJob(r) \/ DeleteJob(r) \/ RetryJob(r) \/ ResumeJob(r)
      PROVE  StoreTypeOK' /\ ApiTypeOK' /\ RestTypeOK'
  <2>1. req[r].job \in Jobs /\ req[r].facet \in Facets /\ req[r].lock \in Locks
    BY <1>0a, <1>0b, <1>6 DEF CancelJob, DeleteJob, RetryJob, ResumeJob, Acts
  <2>2. RestTypeOK'
    BY <1>0, <1>6, IdleTyping DEF CancelJob, DeleteJob, RetryJob, ResumeJob, Acts, Answers,
                                  RestTypeOK
  <2>3. CASE CancelJob(r)
    <3>1. StoreTypeOK'
      BY <1>0, <1>0c, <2>1, <2>3, StoreTyping DEF CancelJob, MarkFailed
    <3>2. ApiTypeOK'
      BY <1>0, <2>1, <2>3, StopTyping DEF CancelJob, ApiTypeOK, apiVars
    <3> QED  BY <2>2, <3>1, <3>2
  <2>4. CASE DeleteJob(r)
    <3>1. StoreTypeOK'
      BY <1>0, <2>1, <2>4, StoreTyping DEF DeleteJob
    <3>2. ApiTypeOK'
      BY <1>0, <2>1, <2>4, StopTyping DEF DeleteJob, ApiTypeOK, apiVars
    <3> QED  BY <2>2, <3>1, <3>2
  <2>5. CASE RetryJob(r) \/ ResumeJob(r)
    <3>1. Start(req[r].facet, req[r].lock, "classifier") \/ UNCHANGED <<storeVars, apiVars>>
      BY <2>5 DEF RetryJob, ResumeJob
    <3>2. StoreTypeOK' /\ ApiTypeOK'
      BY <1>0, <2>1, <3>1, StartTyping, StoreTyping, ToolNames
      DEF ApiTypeOK, apiVars, StoreTypeOK, storeVars
    <3> QED  BY <2>2, <3>2
  <2> QED  BY <1>6, <2>3, <2>4, <2>5
<1>7. ASSUME NEW r \in Requests, ReparseCreates(r)
      PROVE  StoreTypeOK' /\ ApiTypeOK' /\ RestTypeOK'
  <2>1. CASE Create(DefaultFacet, req[r].lock, "classifier")
             /\ req' = [req EXCEPT ![r].at = "reparse blob", ![r].job = nextId,
                                   ![r].carry = sidecars[req[r].job] \cap {"homepage"}]
    <3>1. nextId \in Jobs /\ StoreTypeOK'
      BY <1>0, <1>0b, <2>1, StoreTyping, ToolNames, FacetsAssumption DEF Create
    <3>2. [req[r] EXCEPT !.at = "reparse blob", !.job = nextId,
                         !.carry = sidecars[req[r].job] \cap {"homepage"}] \in Request
      BY <1>0, <3>1, RequestTyping DEF RestTypeOK
    <3>3. req' \in [Requests -> Request]
      BY <1>0, <2>1, <3>2 DEF RestTypeOK
    <3> QED  BY <1>0, <1>7, <3>1, <3>3 DEF ReparseCreates, Acts, RestTypeOK, ApiTypeOK, apiVars
  <2>2. CASE UNCHANGED storeVars /\ Answers(r)
    <3>1. req' \in [Requests -> Request]
      BY <1>0, <2>2, IdleTyping DEF Answers, RestTypeOK
    <3> QED  BY <1>0, <1>7, <2>2, <3>1
             DEF ReparseCreates, Acts, RestTypeOK, ApiTypeOK, apiVars, StoreTypeOK, storeVars
  <2> QED  BY <1>7, <2>1, <2>2 DEF ReparseCreates
<1>8. ASSUME NEW r \in Requests, ReparseStores(r)
      PROVE  StoreTypeOK' /\ ApiTypeOK' /\ RestTypeOK'
  <2>1. req[r].job \in Jobs
    BY <1>0a, <1>8 DEF ReparseStores
  <2>2. StoreTypeOK'
    <3>1. \/ WriteSidecar(req[r].job, "result") \/ WriteSidecar(req[r].job, "homepage")
          \/ FinishRecord(req[r].job, "succeeded") \/ UNCHANGED storeVars
      BY <1>8 DEF ReparseStores, FinishBlob
    <3> QED  BY <1>0, <1>0c, <2>1, <3>1, StoreTyping
  <2>3. req[r] \in Request /\ [req[r] EXCEPT !.at = "reparse record"] \in Request
        /\ [req[r] EXCEPT !.at = "reparse homepage"] \in Request
    BY <1>0, <2>1, RequestTyping DEF RestTypeOK
  <2>4. req' \in [Requests -> Request]
    BY <1>0, <1>8, <2>3, IdleTyping DEF ReparseStores, Answers, RestTypeOK
  <2> QED  BY <1>0, <1>8, <2>2, <2>4 DEF ReparseStores, RestTypeOK, ApiTypeOK, apiVars
<1>8a. ASSUME NEW r \in Requests, ReparseRaises(r)
       PROVE  StoreTypeOK' /\ ApiTypeOK' /\ RestTypeOK'
  <2>1. req' \in [Requests -> Request] /\ abandoned' \subseteq Jobs
    BY <1>0, <1>0a, <1>8a, IdleTyping DEF ReparseRaises, Abandon, Answers, RestTypeOK
  <2> QED  BY <1>0, <1>8a, <2>1
           DEF ReparseRaises, RestTypeOK, ApiTypeOK, apiVars, StoreTypeOK, storeVars
<1>9. ASSUME NEW r \in Requests, CrashInDelete(r)
      PROVE  StoreTypeOK' /\ ApiTypeOK' /\ RestTypeOK'
  BY <1>0, <1>0a, <1>9, StoreTyping, RestartTyping DEF CrashInDelete
<1>10. ASSUME NEW j \in Jobs,
              RunStep(j) \/ CheckpointSaves(j) \/ HomepageSaves(j) \/ ToolReturns(j)
       PROVE  StoreTypeOK' /\ ApiTypeOK' /\ RestTypeOK'
  <2>1. StoreTypeOK' /\ ApiTypeOK'
    BY <1>0, <1>10, RunTyping
  <2>2. UNCHANGED <<req, registry, recovery, crashes>>
    BY <1>10 DEF RunStep, RunOpen, RunMarkRunning, CheckpointFlags, RunFinishBlob,
       RunFinishRecord, RunMarkFailed, RunClose, DispatchReleases, CheckpointSaves,
       HomepageSaves, ToolReturns, ThreadOnly, TaskEnds
  <2>3. abandoned' \subseteq Jobs
    BY <1>0, <1>10 DEF RunStep, RunOpen, RunMarkRunning, CheckpointFlags, RunFinishBlob,
       RunFinishRecord, RunMarkFailed, RunClose, DispatchReleases, CheckpointSaves,
       HomepageSaves, ToolReturns, Abandon, TaskEnds, RestTypeOK
  <2> QED  BY <1>0, <2>1, <2>2, <2>3 DEF RestTypeOK
<1>11. ASSUME NEW j \in Jobs, NEW kind \in Attachments, Attach(j, kind)
       PROVE  StoreTypeOK' /\ ApiTypeOK' /\ RestTypeOK'
  <2>1. StoreTypeOK'
    BY <1>0, <1>11, StoreTyping DEF Attach, Kinds
  <2> QED  BY <1>0, <1>11, <2>1 DEF Attach, RestTypeOK, ApiTypeOK, apiVars
<1>12. CASE RecoverList \/ RecoverOne \/ RecoverEnds
  <2>1. recovery' \in [at : {"listing", "failing", "done"}, todo : SUBSET Jobs]
    BY <1>0, <1>12 DEF RecoverList, RecoverOne, RecoverEnds, RestTypeOK
  <2>1a. abandoned' \subseteq Jobs
    BY <1>0, <1>12 DEF RecoverList, RecoverOne, RecoverEnds, Abandon, RestTypeOK
  <2>2. StoreTypeOK'
    <3>1. CASE RecoverOne
      <4>1. PICK j \in recovery.todo : MarkFailed(j) \/ UNCHANGED storeVars
        BY <3>1 DEF RecoverOne
      <4>2. j \in Jobs
        BY <1>0 DEF RestTypeOK
      <4> QED  BY <1>0, <1>0c, <4>1, <4>2, StoreTyping DEF MarkFailed
    <3> QED  BY <1>0, <1>12, <3>1 DEF RecoverList, RecoverEnds, StoreTypeOK, storeVars
  <2> QED  BY <1>0, <1>12, <2>1, <2>1a, <2>2
           DEF RecoverList, RecoverOne, RecoverEnds, RecoveryOnly, RestTypeOK, ApiTypeOK, apiVars
<1>13. CASE Crash
  BY <1>0, <1>13, RestartTyping DEF Crash, StoreTypeOK, storeVars
<1>14. CASE UNCHANGED vars
  BY <1>0, <1>14 DEF vars, StoreTypeOK, ApiTypeOK, RestTypeOK
<1> QED
  BY <1>1, <1>2, <1>3, <1>4, <1>5, <1>6, <1>7, <1>8, <1>8a, <1>9, <1>10, <1>11, <1>12, <1>13, <1>14
  DEF Next

-----------------------------------------------------------------------------
(* The store: what is advertised is on disk.                               *)

\* The store operations that are not one of finish's or write_checkpoint's
\* second lock regions keep the advertisements true by themselves; those two
\* do when the blob is there.
LEMMA StoreAdvertises ==
    ASSUME StoreTypeOK, AdvertisedIsOnDisk, NEW j \in Jobs
    PROVE  /\ \A f \in Facets, l \in Locks, t \in Tools : Create(f, l, t) => AdvertisedIsOnDisk'
           /\ MarkRunning(j) => AdvertisedIsOnDisk'
           /\ MarkFailed(j) => AdvertisedIsOnDisk'
           /\ \A kind \in Kinds : WriteSidecar(j, kind) => AdvertisedIsOnDisk'
           /\ \A st \in Statuses :
                 FinishRecord(j, st) /\ "result" \in sidecars[j] => AdvertisedIsOnDisk'
           /\ CheckpointRecord(j) /\ "checkpoint" \in sidecars[j] => AdvertisedIsOnDisk'
           /\ RecordFailedDelete(j) => AdvertisedIsOnDisk'
           /\ ClearDeleteLockout(j) => AdvertisedIsOnDisk'
           /\ Delete(j) => AdvertisedIsOnDisk'
           /\ DeleteInterrupted(j) => AdvertisedIsOnDisk'
           /\ UNCHANGED storeVars => AdvertisedIsOnDisk'
<1> USE DEF AdvertisedIsOnDisk, StoreTypeOK, JobRecord
<1>1. ASSUME NEW f \in Facets, NEW l \in Locks, NEW t \in Tools, Create(f, l, t)
      PROVE  AdvertisedIsOnDisk'
  <2>1. records'[nextId] = [status |-> "queued", has |-> {}, facet |-> f, lock |-> l, tool |-> t]
        /\ \A i \in Jobs : i # nextId => records'[i] = records[i]
    BY <1>1 DEF Create
  <2>2. sidecars' = sidecars
    BY <1>1 DEF Create
  <2> QED  BY <2>1, <2>2
<1>2. ASSUME MarkRunning(j) \/ MarkFailed(j)
      PROVE  AdvertisedIsOnDisk'
  <2>1. /\ records'[j].has = records[j].has
        /\ records'[j].status \in {"running", "failed"}
        /\ \A i \in Jobs : i # j => records'[i] = records[i]
    BY <1>2 DEF MarkRunning, MarkFailed, SetStatus
  <2>2. sidecars' = sidecars
    BY <1>2 DEF MarkRunning, MarkFailed, SetStatus
  <2> QED  BY <2>1, <2>2
<1>3. ASSUME NEW kind \in Kinds, WriteSidecar(j, kind)
      PROVE  AdvertisedIsOnDisk'
  BY <1>3 DEF WriteSidecar
<1>4. ASSUME NEW st \in Statuses, FinishRecord(j, st), "result" \in sidecars[j]
      PROVE  AdvertisedIsOnDisk'
  <2>1. /\ records'[j].has = records[j].has \cup {"result"}
        /\ \A i \in Jobs : i # j => records'[i] = records[i]
    BY <1>4 DEF FinishRecord
  <2>2. sidecars' = sidecars
    BY <1>4 DEF FinishRecord
  <2> QED  BY <1>4, <2>1, <2>2
<1>5. ASSUME CheckpointRecord(j), "checkpoint" \in sidecars[j]
      PROVE  AdvertisedIsOnDisk'
  <2>1. /\ records'[j].has = records[j].has \cup {"checkpoint"}
        /\ records'[j].status = records[j].status
        /\ \A i \in Jobs : i # j => records'[i] = records[i]
    BY <1>5 DEF CheckpointRecord
  <2>2. sidecars' = sidecars
    BY <1>5 DEF CheckpointRecord
  <2> QED  BY <1>5, <2>1, <2>2
<1>6. (RecordFailedDelete(j) => AdvertisedIsOnDisk') /\ (ClearDeleteLockout(j) => AdvertisedIsOnDisk')
  BY DEF RecordFailedDelete, ClearDeleteLockout
<1>7. ASSUME Delete(j) \/ DeleteInterrupted(j)
      PROVE  AdvertisedIsOnDisk'
  <2>1. /\ records'[j].has = {} /\ records'[j].status = "absent"
        /\ \A i \in Jobs : i # j => records'[i] = records[i] /\ sidecars'[i] = sidecars[i]
    BY <1>7 DEF Delete, DeleteInterrupted, NoRecord
  <2> QED  BY <2>1
<1>8. UNCHANGED storeVars => AdvertisedIsOnDisk'
  BY DEF storeVars
<1> QED  BY <1>1, <1>2, <1>3, <1>4, <1>5, <1>6, <1>7, <1>8

\* What every step does to the files.
StoreStep ==
    \/ UNCHANGED storeVars
    \/ \E f \in Facets, l \in Locks, t \in Tools : Create(f, l, t)
    \/ \E j \in Jobs :
          \/ \E st \in Statuses \ {"absent"} : SetStatus(j, st) \/ FinishRecord(j, st)
          \/ \E kind \in Kinds : WriteSidecar(j, kind)
          \/ CheckpointRecord(j) \/ RecordFailedDelete(j) \/ ClearDeleteLockout(j)
          \/ Delete(j) \/ DeleteInterrupted(j)

\* A job that keeps its record keeps its facet and its sidecars, the lockout
\* counter apart; only the next id gets a new record; ids are not reused.
KeepsFiles ==
    /\ nextId' \in {nextId, nextId + 1}
    /\ \A j \in Jobs : Exists(j) /\ Exists(j)' =>
          /\ sidecars[j] \ {"delete_lockout"} \subseteq sidecars'[j]
          /\ records'[j].facet = records[j].facet
    /\ \A j \in Jobs : ~Exists(j) =>
          \/ /\ records'[j] = records[j]
             /\ sidecars'[j] \subseteq sidecars[j] \cup {"delete_lockout"}
          \/ j = nextId /\ nextId' = nextId + 1

LEMMA StoreStepKeepsFiles ==
    ASSUME StoreTypeOK, FreshIds, StoreStep
    PROVE  KeepsFiles
<1> USE DEF StoreTypeOK, JobRecord, Exists
<1>1. CASE UNCHANGED storeVars
  BY <1>1 DEF storeVars, KeepsFiles
<1>2. ASSUME NEW f \in Facets, NEW l \in Locks, NEW t \in Tools, Create(f, l, t)
      PROVE  KeepsFiles
  <2>1. /\ \A i \in Jobs : i # nextId => records'[i] = records[i]
        /\ sidecars' = sidecars /\ nextId' = nextId + 1 /\ nextId \in Jobs
    BY <1>2 DEF Create
  <2>2. ~Exists(nextId)
    BY <2>1 DEF FreshIds, NoRecord, Jobs
  <2> QED  BY <2>1, <2>2 DEF KeepsFiles
<1>3. ASSUME NEW j \in Jobs, NEW st \in Statuses \ {"absent"}, SetStatus(j, st) \/ FinishRecord(j, st)
      PROVE  KeepsFiles
  <2>1. /\ \A i \in Jobs : i # j => records'[i] = records[i]
        /\ records'[j].facet = records[j].facet
        /\ Exists(j) /\ sidecars' = sidecars /\ nextId' = nextId
    BY <1>3 DEF SetStatus, FinishRecord
  <2> QED  BY <2>1 DEF KeepsFiles
<1>4. ASSUME NEW j \in Jobs, NEW kind \in Kinds, WriteSidecar(j, kind)
      PROVE  KeepsFiles
  BY <1>4 DEF WriteSidecar, KeepsFiles
<1>5. ASSUME NEW j \in Jobs, CheckpointRecord(j)
      PROVE  KeepsFiles
  <2>1. /\ \A i \in Jobs : i # j => records'[i] = records[i]
        /\ records'[j].facet = records[j].facet
        /\ Exists(j) /\ sidecars' = sidecars /\ nextId' = nextId
    BY <1>5 DEF CheckpointRecord
  <2> QED  BY <2>1 DEF KeepsFiles
<1>6. ASSUME NEW j \in Jobs, RecordFailedDelete(j) \/ ClearDeleteLockout(j)
      PROVE  KeepsFiles
  BY <1>6 DEF RecordFailedDelete, ClearDeleteLockout, KeepsFiles
<1>7. ASSUME NEW j \in Jobs, Delete(j) \/ DeleteInterrupted(j)
      PROVE  KeepsFiles
  <2>1. /\ \A i \in Jobs : i # j => records'[i] = records[i] /\ sidecars'[i] = sidecars[i]
        /\ Exists(j) /\ ~Exists(j)' /\ nextId' = nextId
    BY <1>7 DEF Delete, DeleteInterrupted, NoRecord
  <2> QED  BY <2>1 DEF KeepsFiles
<1> QED  BY <1>1, <1>2, <1>3, <1>4, <1>5, <1>6, <1>7 DEF StoreStep

\* Every step of the system is a store step.
LEMMA NextIsStoreStep ==
    ASSUME TypeOK, HandlersNameJobs, [Next]_vars
    PROVE  StoreStep
<1>0. StoreTypeOK /\ RestTypeOK
  BY TypeOKParts
<1>0a. \A r \in Requests : req[r].at \notin {"idle", "hash"} => req[r].job \in Jobs
  BY <1>0, MaxJobIdAssumption DEF HandlersNameJobs, StoreTypeOK, Jobs
<1>0b. \A r \in Requests : req[r].facet \in Facets /\ req[r].lock \in Locks
  BY <1>0 DEF RestTypeOK, Request
<1>0c. {"failed", "running", "succeeded", "partial"} \subseteq Statuses \ {"absent"}
       /\ {"result", "homepage", "checkpoint"} \subseteq Kinds
  BY DEF Statuses, Open, Terminal, Kinds
<1>s. ASSUME NEW f \in Facets, NEW l \in Locks, NEW t \in Tools, Start(f, l, t)
      PROVE  StoreStep
  BY <1>s DEF Start, StartJob, StartFails, StartRefused, StoreStep, storeVars
<1>1. ASSUME NEW r \in Requests, NEW k \in Keys \cup {NoKey}, NEW l \in NewJobLocks,
             NEW f \in Facets, CreateJob(r, k, l, f)
      PROVE  StoreStep
  <2>1. Start(f, l, "classifier") \/ UNCHANGED storeVars
    BY <1>1 DEF CreateJob, storeVars
  <2> QED  BY <1>s, <2>1, NewJobLocksAssumption, ToolNames DEF StoreStep
<1>2. ASSUME NEW f \in SFFacets, CreateSFJob(f)
      PROVE  StoreStep
  BY <1>s, <1>2, FacetsAssumption, ToolNames DEF CreateSFJob, Locks
<1>3. ASSUME NEW r \in Requests, NEW op \in Operations, NEW j \in Jobs, ReadRecord(r, op, j)
      PROVE  StoreStep
  BY <1>3 DEF ReadRecord, StoreStep, storeVars
<1>4. ASSUME NEW r \in Requests, CreateJobHashed(r)
      PROVE  StoreStep
  BY <1>0b, <1>s, <1>4, ToolNames DEF CreateJobHashed
<1>5. ASSUME NEW r \in Requests, GatePasses(r) \/ GateCountsFailure(r) \/ GateRefuses(r)
      PROVE  StoreStep
  <2>1. req[r].job \in Jobs
    BY <1>0a, <1>5 DEF GatePasses, GateCountsFailure, GateRefuses
  <2>2. ClearDeleteLockout(req[r].job) \/ RecordFailedDelete(req[r].job) \/ UNCHANGED storeVars
    BY <1>5 DEF GatePasses, GateCountsFailure, GateRefuses
  <2> QED  BY <2>1, <2>2 DEF StoreStep
<1>6. ASSUME NEW r \in Requests, CancelJob(r) \/ DeleteJob(r) \/ RetryJob(r) \/ ResumeJob(r)
      PROVE  StoreStep
  <2>1. req[r].job \in Jobs
    BY <1>0a, <1>6 DEF CancelJob, DeleteJob, RetryJob, ResumeJob, Acts
  <2>2. \/ SetStatus(req[r].job, "failed") \/ Delete(req[r].job)
        \/ Start(req[r].facet, req[r].lock, "classifier") \/ UNCHANGED storeVars
    BY <1>6 DEF CancelJob, DeleteJob, RetryJob, ResumeJob, MarkFailed, storeVars
  <2> QED  BY <1>0b, <1>0c, <1>s, <2>1, <2>2, ToolNames DEF StoreStep
<1>7. ASSUME NEW r \in Requests, ReparseCreates(r)
      PROVE  StoreStep
  BY <1>0b, <1>7, FacetsAssumption, ToolNames DEF ReparseCreates, StoreStep
<1>8. ASSUME NEW r \in Requests, ReparseStores(r)
      PROVE  StoreStep
  <2>1. req[r].job \in Jobs
    BY <1>0a, <1>8 DEF ReparseStores
  <2>2. \/ WriteSidecar(req[r].job, "result") \/ WriteSidecar(req[r].job, "homepage")
        \/ FinishRecord(req[r].job, "succeeded") \/ UNCHANGED storeVars
    BY <1>8 DEF ReparseStores, FinishBlob
  <2> QED  BY <1>0c, <2>1, <2>2 DEF StoreStep
<1>8a. ASSUME NEW r \in Requests, ReparseRaises(r)
       PROVE  StoreStep
  BY <1>8a DEF ReparseRaises, StoreStep
<1>9. ASSUME NEW r \in Requests, CrashInDelete(r)
      PROVE  StoreStep
  BY <1>0a, <1>9 DEF CrashInDelete, StoreStep
<1>10. ASSUME NEW j \in Jobs,
              RunStep(j) \/ CheckpointSaves(j) \/ HomepageSaves(j) \/ ToolReturns(j)
       PROVE  StoreStep
  <2>1. \/ UNCHANGED storeVars
        \/ SetStatus(j, "running") \/ SetStatus(j, "failed") \/ CheckpointRecord(j)
        \/ FinishRecord(j, "succeeded") \/ FinishRecord(j, "partial")
        \/ WriteSidecar(j, "result") \/ WriteSidecar(j, "checkpoint") \/ WriteSidecar(j, "homepage")
    BY <1>10 DEF RunStep, RunOpen, RunMarkRunning, CheckpointFlags, RunFinishBlob,
       RunFinishRecord, RunMarkFailed, RunClose, DispatchReleases, CheckpointSaves,
       HomepageSaves, ToolReturns, StoreCall, MarkRunning, MarkFailed, FinishBlob,
       CheckpointBlob, TaskEnds, storeVars
  <2> QED  BY <1>0c, <2>1 DEF StoreStep
<1>11. ASSUME NEW j \in Jobs, NEW kind \in Attachments, Attach(j, kind)
       PROVE  StoreStep
  BY <1>11 DEF Attach, StoreStep, Kinds
<1>12. CASE RecoverList \/ RecoverOne \/ RecoverEnds
  <2>1. CASE RecoverOne
    <3>1. PICK j \in recovery.todo : MarkFailed(j) \/ UNCHANGED storeVars
      BY <2>1 DEF RecoverOne
    <3>2. j \in Jobs
      BY <1>0 DEF RestTypeOK
    <3> QED  BY <1>0c, <3>1, <3>2 DEF MarkFailed, StoreStep
  <2> QED  BY <1>12, <2>1 DEF RecoverList, RecoverEnds, StoreStep
<1>13. CASE Crash
  BY <1>13 DEF Crash, StoreStep
<1>14. CASE UNCHANGED vars
  BY <1>14 DEF vars, StoreStep, storeVars
<1> QED
  BY <1>1, <1>2, <1>3, <1>4, <1>5, <1>6, <1>7, <1>8, <1>8a, <1>9, <1>10, <1>11, <1>12, <1>13, <1>14
  DEF Next

\* What the first step of a reparse does: it creates the job it will write,
\* or the request fails.
LEMMA ReparseCreatesJob ==
    ASSUME NEW r \in Requests, req \in [Requests -> Request], ReparseCreates(r)
    PROVE  \/ Answers(r) /\ UNCHANGED storeVars
           \/ /\ Create(DefaultFacet, req[r].lock, "classifier")
              /\ \A q \in Requests : q # r => req'[q] = req[q]
              /\ req'[r].at = "reparse blob" /\ req'[r].job = nextId
              /\ req'[r].op = "reparse" /\ req[r].op = "reparse"
<1>1. CASE UNCHANGED storeVars /\ Answers(r)
  BY <1>1
<1>2. CASE /\ Create(DefaultFacet, req[r].lock, "classifier")
           /\ req' = [req EXCEPT ![r].at = "reparse blob", ![r].job = nextId,
                                 ![r].carry = sidecars[req[r].job] \cap {"homepage"}]
  <2>1. req[r] \in Request /\ req[r].op = "reparse"
    BY DEF ReparseCreates, Acts
  <2>2. /\ \A q \in Requests : q # r => req'[q] = req[q]
        /\ req'[r].at = "reparse blob" /\ req'[r].job = nextId /\ req'[r].op = req[r].op
    BY <1>2, <2>1 DEF Request
  <2> QED  BY <1>2, <2>1, <2>2
<1> QED  BY <1>1, <1>2 DEF ReparseCreates

\* What the later ones do, when they do not raise.
LEMMA ReparseStoresJob ==
    ASSUME NEW r \in Requests, req \in [Requests -> Request], ReparseStores(r)
    PROVE  /\ \A q \in Requests : q # r => req'[q] = req[q]
           /\ \/ /\ req[r].at = "reparse blob" /\ FinishBlob(req[r].job)
                 /\ req'[r].at = "reparse record" /\ req'[r].job = req[r].job
              \/ /\ req[r].at = "reparse record" /\ FinishRecord(req[r].job, "succeeded")
                 /\ req'[r].at = "reparse homepage"
              \/ req[r].at = "reparse homepage" /\ UNCHANGED records
<1>0. req[r] \in Request
  OBVIOUS
<1>1. CASE req[r].at = "reparse blob" /\ FinishBlob(req[r].job)
           /\ req' = [req EXCEPT ![r].at = "reparse record"]
  BY <1>0, <1>1 DEF Request
<1>2. CASE req[r].at = "reparse record" /\ FinishRecord(req[r].job, "succeeded")
           /\ req' = [req EXCEPT ![r].at = "reparse homepage"]
  BY <1>0, <1>2 DEF Request
<1>3. CASE req[r].at = "reparse homepage" /\ Answers(r)
           /\ (WriteSidecar(req[r].job, "homepage") \/ UNCHANGED storeVars)
  BY <1>3 DEF Answers, WriteSidecar, storeVars
<1> QED  BY <1>1, <1>2, <1>3 DEF ReparseStores

\* How a step can change a thread: a new job's thread is submitted, a thread
\* between two lock regions got there by writing the blob.
ThreadMoves(j) ==
    /\ thread'[j] = "publishing" => thread[j] = "publishing" \/ WriteSidecar(j, "result")
    /\ thread'[j] = "flagging" => thread[j] = "flagging" \/ WriteSidecar(j, "checkpoint")
    /\ thread[j] = "none" /\ thread'[j] # "none" => j = nextId /\ nextId' = nextId + 1

\* How a step can change a handler: it stays on its job, or it takes a job
\* that exists, or the one it creates; it reaches the second lock region of
\* finish by writing the blob.
HandlerMoves(r) ==
    /\ req'[r].at \notin {"idle", "hash"} =>
          \/ req[r].at \notin {"idle", "hash"} /\ req'[r].job = req[r].job
          \/ req'[r].job \in Jobs /\ Exists(req'[r].job)
          \/ req'[r].job = nextId /\ nextId' = nextId + 1
    /\ req'[r].at = "reparse record" =>
          req'[r] = req[r] \/ WriteSidecar(req'[r].job, "result")

LEMMA NextMoves ==
    ASSUME TypeOK, [Next]_vars
    PROVE  /\ \A j \in Jobs : ThreadMoves(j)
           /\ \A r \in Requests : HandlerMoves(r)
<1>0. ApiTypeOK /\ RestTypeOK /\ nextId \in Nat
  BY TypeOKParts, MaxJobIdAssumption DEF StoreTypeOK
<1>0a. \A r \in Requests : req[r] \in Request
  BY <1>0 DEF RestTypeOK
<1> DEFINE Moves == (\A j \in Jobs : ThreadMoves(j)) /\ (\A r \in Requests : HandlerMoves(r))
<1> SUFFICES Moves
  OBVIOUS
<1>s. ASSUME NEW f, NEW l, NEW t, Start(f, l, t)
      PROVE  \A j \in Jobs : ThreadMoves(j)
  BY <1>0, <1>s DEF Start, StartJob, StartFails, StartRefused, Create, apiVars, ThreadMoves, ApiTypeOK
<1>t. UNCHANGED thread => \A j \in Jobs : ThreadMoves(j)
  BY DEF ThreadMoves
<1>r. UNCHANGED req => \A r \in Requests : HandlerMoves(r)
  BY DEF HandlerMoves
<1>i. ASSUME NEW r \in Requests, req' = [req EXCEPT ![r] = Idle]
      PROVE  \A q \in Requests : HandlerMoves(q)
  BY <1>0, <1>i DEF HandlerMoves, Idle, RestTypeOK
<1>1. ASSUME NEW r \in Requests, NEW k \in Keys \cup {NoKey}, NEW l \in NewJobLocks,
             NEW f \in Facets, CreateJob(r, k, l, f)
      PROVE  Moves
  <2>1. CASE Start(f, l, "classifier") /\ UNCHANGED req
    BY <1>s, <1>r, <2>1
  <2>2. CASE UNCHANGED apiVars
             /\ req' = [req EXCEPT ![r] = [Idle EXCEPT !.op = "create", !.at = "hash", !.key = k,
                                                      !.facet = f, !.lock = l]]
    <3>1. \A q \in Requests : HandlerMoves(q)
      BY <1>0, <2>2 DEF HandlerMoves, Idle, RestTypeOK
    <3> QED  BY <1>t, <2>2, <3>1 DEF apiVars
  <2> QED  BY <1>1, <2>1, <2>2 DEF CreateJob
<1>2. ASSUME NEW f \in SFFacets, CreateSFJob(f)
      PROVE  Moves
  BY <1>s, <1>r, <1>2 DEF CreateSFJob
<1>3. ASSUME NEW r \in Requests, NEW op \in Operations, NEW j \in Jobs, ReadRecord(r, op, j)
      PROVE  Moves
  <2>1. Exists(j) /\ \A q \in Requests : q # r => req'[q] = req[q]
    BY <1>0, <1>3 DEF ReadRecord, RestTypeOK
  <2>2. req'[r].at = "gate" /\ req'[r].job = j
    BY <1>0, <1>3 DEF ReadRecord, RestTypeOK, Idle
  <2>3. \A q \in Requests : HandlerMoves(q)
    BY <2>1, <2>2 DEF HandlerMoves
  <2> QED  BY <1>t, <1>3, <2>3 DEF ReadRecord, apiVars
<1>4. ASSUME NEW r \in Requests, CreateJobHashed(r)
      PROVE  Moves
  BY <1>s, <1>i, <1>4 DEF CreateJobHashed
<1>5. ASSUME NEW r \in Requests, GatePasses(r) \/ GateCountsFailure(r) \/ GateRefuses(r)
      PROVE  Moves
  <2>1. CASE GatePasses(r)
    <3>1. /\ \A q \in Requests : q # r => req'[q] = req[q]
          /\ req[r].at = "gate" /\ req'[r].at = "admitted" /\ req'[r].job = req[r].job
      BY <1>0, <1>0a, <2>1 DEF GatePasses, RestTypeOK, Request
    <3>2. \A q \in Requests : HandlerMoves(q)
      BY <3>1 DEF HandlerMoves
    <3> QED  BY <1>t, <2>1, <3>2 DEF GatePasses, GateOnly, apiVars
  <2> QED  BY <1>t, <1>i, <1>5, <2>1 DEF GateCountsFailure, GateRefuses, GateOnly, apiVars
<1>6. ASSUME NEW r \in Requests, CancelJob(r) \/ DeleteJob(r) \/ RetryJob(r) \/ ResumeJob(r)
      PROVE  Moves
  <2>1. UNCHANGED thread \/ Start(req[r].facet, req[r].lock, "classifier")
    BY <1>6 DEF CancelJob, DeleteJob, RetryJob, ResumeJob, StopCrawl, apiVars
  <2>2. req' = [req EXCEPT ![r] = Idle]
    BY <1>6 DEF CancelJob, DeleteJob, RetryJob, ResumeJob, Answers
  <2> QED  BY <1>s, <1>t, <1>i, <2>1, <2>2
<1>7. ASSUME NEW r \in Requests, ReparseCreates(r)
      PROVE  Moves
  <2>1. \/ Answers(r)
        \/ /\ \A q \in Requests : q # r => req'[q] = req[q]
           /\ req'[r].at = "reparse blob" /\ req'[r].job = nextId /\ nextId' = nextId + 1
    BY <1>0, <1>7, ReparseCreatesJob DEF Create, RestTypeOK
  <2>2. \A q \in Requests : HandlerMoves(q)
    BY <1>i, <2>1 DEF HandlerMoves, Answers
  <2> QED  BY <1>t, <1>7, <2>2 DEF ReparseCreates, apiVars
<1>8. ASSUME NEW r \in Requests, ReparseStores(r)
      PROVE  Moves
  <2>1. UNCHANGED thread
    BY <1>8 DEF ReparseStores, apiVars
  <2>2. CASE req' = [req EXCEPT ![r].at = "reparse record"] /\ req[r].at = "reparse blob"
             /\ FinishBlob(req[r].job)
    <3>1. /\ \A q \in Requests : q # r => req'[q] = req[q]
          /\ req'[r].job = req[r].job
      BY <1>0, <1>0a, <2>2 DEF RestTypeOK, Request
    <3>2. \A q \in Requests : HandlerMoves(q)
      BY <2>2, <3>1 DEF HandlerMoves, FinishBlob
    <3> QED  BY <1>t, <2>1, <3>2
  <2>3. CASE req' = [req EXCEPT ![r].at = "reparse homepage"] /\ req[r].at = "reparse record"
    <3>1. /\ \A q \in Requests : q # r => req'[q] = req[q]
          /\ req'[r].job = req[r].job /\ req'[r].at = "reparse homepage"
      BY <1>0, <1>0a, <2>3 DEF RestTypeOK, Request
    <3>2. \A q \in Requests : HandlerMoves(q)
      BY <2>3, <3>1 DEF HandlerMoves
    <3> QED  BY <1>t, <2>1, <3>2
  <2> QED  BY <1>t, <1>i, <1>8, <2>1, <2>2, <2>3 DEF ReparseStores, Answers
<1>8a. ASSUME NEW r \in Requests, ReparseRaises(r)
       PROVE  Moves
  BY <1>t, <1>i, <1>8a DEF ReparseRaises, Answers, apiVars
<1>9. CASE Restart
  <2>1. \A j \in Jobs : thread'[j] = "none"
    BY <1>9 DEF Restart
  <2>2. \A q \in Requests : req'[q].at = "idle"
    BY <1>9 DEF Restart, Idle
  <2> QED  BY <2>1, <2>2 DEF ThreadMoves, HandlerMoves
<1>10. ASSUME NEW j \in Jobs,
              RunStep(j) \/ CheckpointSaves(j) \/ HomepageSaves(j) \/ ToolReturns(j)
       PROVE  Moves
  <2>1. UNCHANGED req
    BY <1>10 DEF RunStep, RunOpen, RunMarkRunning, CheckpointFlags, RunFinishBlob,
       RunFinishRecord, RunMarkFailed, RunClose, DispatchReleases, CheckpointSaves,
       HomepageSaves, ToolReturns, ThreadOnly, TaskEnds
  <2>2. thread[j] # "none" /\ \A i \in Jobs : i # j => thread'[i] = thread[i]
    BY <1>0, <1>10 DEF RunStep, RunOpen, RunMarkRunning, CheckpointFlags, RunFinishBlob,
       RunFinishRecord, RunMarkFailed, RunClose, DispatchReleases, CheckpointSaves,
       HomepageSaves, ToolReturns, StoreCall, TaskEnds, ApiTypeOK
  <2>3. thread'[j] = "publishing" => thread[j] = "publishing" \/ WriteSidecar(j, "result")
    BY <1>0, <1>10 DEF RunStep, RunOpen, RunMarkRunning, CheckpointFlags, RunFinishBlob,
       RunFinishRecord, RunMarkFailed, RunClose, DispatchReleases, CheckpointSaves,
       HomepageSaves, ToolReturns, StoreCall, TaskEnds, ApiTypeOK, FinishBlob
  <2>4. thread'[j] = "flagging" => thread[j] = "flagging" \/ WriteSidecar(j, "checkpoint")
    BY <1>0, <1>10 DEF RunStep, RunOpen, RunMarkRunning, CheckpointFlags, RunFinishBlob,
       RunFinishRecord, RunMarkFailed, RunClose, DispatchReleases, CheckpointSaves,
       HomepageSaves, ToolReturns, StoreCall, TaskEnds, ApiTypeOK, CheckpointBlob
  <2>5. \A i \in Jobs : ThreadMoves(i)
    BY <2>2, <2>3, <2>4 DEF ThreadMoves
  <2> QED  BY <1>r, <2>1, <2>5
<1>11. ASSUME NEW j \in Jobs, NEW kind \in Attachments, Attach(j, kind)
       PROVE  Moves
  BY <1>t, <1>r, <1>11 DEF Attach, apiVars
<1>12. CASE RecoverList \/ RecoverOne \/ RecoverEnds
  BY <1>t, <1>r, <1>12 DEF RecoverList, RecoverOne, RecoverEnds, RecoveryOnly, apiVars
<1>13. CASE UNCHANGED vars
  BY <1>t, <1>r, <1>13 DEF vars
<1> QED
  <2> HIDE DEF Moves
  <2> QED
    BY <1>1, <1>2, <1>3, <1>4, <1>5, <1>6, <1>7, <1>8, <1>8a, <1>9, <1>10, <1>11, <1>12, <1>13
    DEF Next, Crash, CrashInDelete

\* Only a thread or a reparse that wrote the blob publishes a record, so
\* every step keeps the advertisements true.
LEMMA NextAdvertises ==
    ASSUME TypeOK, StoreInv, [Next]_vars
    PROVE  AdvertisedIsOnDisk'
<1>0. StoreTypeOK /\ RestTypeOK /\ HandlersNameJobs /\ BlobBeforeRecord /\ AdvertisedIsOnDisk
  BY TypeOKParts DEF StoreInv
<1>0a. \A r \in Requests : req[r].at \notin {"idle", "hash"} => req[r].job \in Jobs
  BY <1>0, MaxJobIdAssumption DEF HandlersNameJobs, StoreTypeOK, Jobs
<1>0b. \A r \in Requests : req[r].facet \in Facets /\ req[r].lock \in Locks
  BY <1>0 DEF RestTypeOK, Request
<1>0c. {"failed", "running", "succeeded", "partial"} \subseteq Statuses
       /\ {"result", "homepage", "checkpoint"} \subseteq Kinds
  BY DEF Statuses, Open, Terminal, Kinds
<1>u. UNCHANGED storeVars => AdvertisedIsOnDisk'
  BY <1>0 DEF storeVars, AdvertisedIsOnDisk
<1>s. ASSUME NEW f \in Facets, NEW l \in Locks, NEW t \in Tools, Create(f, l, t)
      PROVE  AdvertisedIsOnDisk'
  <2>1. nextId \in Jobs
    BY <1>s DEF Create
  <2> QED  BY <1>0, <1>s, <2>1, StoreAdvertises
<1>1. ASSUME NEW f \in Facets, NEW l \in Locks, NEW t \in Tools, Start(f, l, t)
      PROVE  AdvertisedIsOnDisk'
  BY <1>s, <1>u, <1>1 DEF Start, StartJob, StartFails, StartRefused, storeVars
<1>2. ASSUME NEW r \in Requests, NEW k \in Keys \cup {NoKey}, NEW l \in NewJobLocks,
             NEW f \in Facets, CreateJob(r, k, l, f)
      PROVE  AdvertisedIsOnDisk'
  BY <1>1, <1>u, <1>2, NewJobLocksAssumption, ToolNames DEF CreateJob, storeVars
<1>3. ASSUME NEW f \in SFFacets, CreateSFJob(f)
      PROVE  AdvertisedIsOnDisk'
  BY <1>1, <1>3, FacetsAssumption, ToolNames DEF CreateSFJob, Locks
<1>4. ASSUME NEW r \in Requests, CreateJobHashed(r) \/ RetryJob(r) \/ ResumeJob(r)
      PROVE  AdvertisedIsOnDisk'
  BY <1>0b, <1>1, <1>u, <1>4, ToolNames DEF CreateJobHashed, RetryJob, ResumeJob, storeVars
<1>5. ASSUME NEW r \in Requests, GatePasses(r) \/ GateCountsFailure(r) \/ GateRefuses(r)
      PROVE  AdvertisedIsOnDisk'
  <2>1. req[r].job \in Jobs
    BY <1>0a, <1>5 DEF GatePasses, GateCountsFailure, GateRefuses
  <2>2. ClearDeleteLockout(req[r].job) \/ RecordFailedDelete(req[r].job) \/ UNCHANGED storeVars
    BY <1>5 DEF GatePasses, GateCountsFailure, GateRefuses
  <2> QED  BY <1>0, <2>1, <2>2, StoreAdvertises
<1>6. ASSUME NEW r \in Requests, CancelJob(r) \/ DeleteJob(r) \/ CrashInDelete(r)
      PROVE  AdvertisedIsOnDisk'
  <2>1. req[r].job \in Jobs
    BY <1>0a, <1>6 DEF CancelJob, DeleteJob, CrashInDelete, Acts
  <2>2. \/ MarkFailed(req[r].job) \/ Delete(req[r].job) \/ DeleteInterrupted(req[r].job)
        \/ UNCHANGED storeVars
    BY <1>6 DEF CancelJob, DeleteJob, CrashInDelete, storeVars
  <2> QED  BY <1>0, <2>1, <2>2, StoreAdvertises
<1>7. ASSUME NEW r \in Requests, ReparseCreates(r)
      PROVE  AdvertisedIsOnDisk'
  BY <1>0b, <1>s, <1>u, <1>7, FacetsAssumption, ToolNames DEF ReparseCreates
<1>8. ASSUME NEW r \in Requests, ReparseStores(r)
      PROVE  AdvertisedIsOnDisk'
  <2>1. req[r].job \in Jobs
    BY <1>0a, <1>8 DEF ReparseStores
  <2>2. \/ WriteSidecar(req[r].job, "result") \/ WriteSidecar(req[r].job, "homepage")
        \/ req[r].at = "reparse record" /\ FinishRecord(req[r].job, "succeeded")
        \/ UNCHANGED storeVars
    BY <1>8 DEF ReparseStores, FinishBlob
  <2>3. req[r].at = "reparse record" /\ FinishRecord(req[r].job, "succeeded")
           => "result" \in sidecars[req[r].job]
    BY <1>0 DEF BlobBeforeRecord, FinishRecord
  <2> QED  BY <1>0, <1>0c, <2>1, <2>2, <2>3, StoreAdvertises
<1>9. ASSUME NEW j \in Jobs,
             RunStep(j) \/ CheckpointSaves(j) \/ HomepageSaves(j) \/ ToolReturns(j)
      PROVE  AdvertisedIsOnDisk'
  <2>1. \/ UNCHANGED storeVars \/ MarkRunning(j) \/ MarkFailed(j)
        \/ thread[j] = "flagging" /\ CheckpointRecord(j)
        \/ thread[j] = "publishing"
           /\ (FinishRecord(j, "succeeded") \/ FinishRecord(j, "partial"))
        \/ WriteSidecar(j, "result") \/ WriteSidecar(j, "checkpoint") \/ WriteSidecar(j, "homepage")
    BY <1>9 DEF RunStep, RunOpen, RunMarkRunning, CheckpointFlags, RunFinishBlob,
       RunFinishRecord, RunMarkFailed, RunClose, DispatchReleases, CheckpointSaves,
       HomepageSaves, ToolReturns, StoreCall, FinishBlob, CheckpointBlob, TaskEnds, storeVars
  <2>2. thread[j] = "flagging" /\ CheckpointRecord(j) => "checkpoint" \in sidecars[j]
    BY <1>0 DEF BlobBeforeRecord, CheckpointRecord
  <2>3. thread[j] = "publishing" /\ (FinishRecord(j, "succeeded") \/ FinishRecord(j, "partial"))
           => "result" \in sidecars[j]
    BY <1>0 DEF BlobBeforeRecord, FinishRecord
  <2> QED  BY <1>0, <1>0c, <2>1, <2>2, <2>3, StoreAdvertises
<1>10. ASSUME NEW j \in Jobs, NEW kind \in Attachments, Attach(j, kind)
       PROVE  AdvertisedIsOnDisk'
  BY <1>0, <1>10, StoreAdvertises DEF Attach, Kinds
<1>11. CASE RecoverList \/ RecoverOne \/ RecoverEnds
  <2>1. CASE RecoverOne
    <3>1. PICK j \in recovery.todo : MarkFailed(j) \/ UNCHANGED storeVars
      BY <2>1 DEF RecoverOne
    <3> QED  BY <1>0, <1>u, <3>1, StoreAdvertises DEF RestTypeOK
  <2> QED  BY <1>u, <1>11, <2>1 DEF RecoverList, RecoverEnds
<1>12. ASSUME NEW r \in Requests, NEW op \in Operations, NEW j \in Jobs, ReadRecord(r, op, j)
       PROVE  AdvertisedIsOnDisk'
  BY <1>u, <1>12 DEF ReadRecord, storeVars
<1>13. CASE Crash \/ UNCHANGED vars \/ \E r \in Requests : ReparseRaises(r)
  BY <1>u, <1>13 DEF Crash, ReparseRaises, vars, storeVars
<1> QED
  BY <1>2, <1>3, <1>4, <1>5, <1>6, <1>7, <1>8, <1>9, <1>10, <1>11, <1>12, <1>13 DEF Next

\* The store invariant is inductive.
LEMMA StoreInvStep ==
    ASSUME TypeOK, StoreInv, [Next]_vars
    PROVE  StoreInv'
<1>0. StoreTypeOK /\ RestTypeOK /\ ApiTypeOK
      /\ HandlersNameJobs /\ FreshIds /\ BlobBeforeRecord /\ AdvertisedIsOnDisk
  BY TypeOKParts DEF StoreInv
<1>0a. nextId \in Nat /\ \A j \in Jobs : j \in Nat
  BY <1>0, MaxJobIdAssumption DEF StoreTypeOK, Jobs
<1>0b. sidecars \in [Jobs -> SUBSET Kinds]
  BY <1>0 DEF StoreTypeOK
<1>1. KeepsFiles
  BY <1>0, NextIsStoreStep, StoreStepKeepsFiles
<1>2. (\A j \in Jobs : ThreadMoves(j)) /\ (\A r \in Requests : HandlerMoves(r))
  BY NextMoves
<1>3. FreshIds'
  <2>1. SUFFICES ASSUME NEW j \in Jobs, j >= nextId'
                 PROVE  records'[j] = NoRecord /\ thread'[j] = "none"
    BY DEF FreshIds
  <2>2. nextId' = nextId \/ nextId' = nextId + 1
    BY <1>1 DEF KeepsFiles
  <2>3. j >= nextId /\ ~(j = nextId /\ nextId' = nextId + 1)
    BY <1>0a, <2>1, <2>2
  <2>4. records[j] = NoRecord /\ thread[j] = "none" /\ ~Exists(j)
    BY <1>0, <2>3 DEF FreshIds, Exists, NoRecord
  <2> QED  BY <1>1, <1>2, <2>3, <2>4 DEF KeepsFiles, ThreadMoves
<1>4. HandlersNameJobs'
  <2>1. SUFFICES ASSUME NEW r \in Requests, req'[r].at \notin {"idle", "hash"}
                 PROVE  req'[r].job \in 1 .. (nextId' - 1)
    BY DEF HandlersNameJobs
  <2>2. nextId' = nextId \/ nextId' = nextId + 1
    BY <1>1 DEF KeepsFiles
  <2>3. CASE req[r].at \notin {"idle", "hash"} /\ req'[r].job = req[r].job
    BY <1>0, <1>0a, <2>2, <2>3 DEF HandlersNameJobs
  <2>4. CASE req'[r].job \in Jobs /\ Exists(req'[r].job)
    <3>1. req'[r].job < nextId
      BY <1>0, <1>0a, <2>4 DEF FreshIds, Exists, NoRecord
    <3> QED  BY <1>0a, <2>2, <2>4, <3>1, MaxJobIdAssumption DEF Jobs
  <2>5. CASE req'[r].job = nextId /\ nextId' = nextId + 1
    BY <1>0, <1>0a, <2>5 DEF StoreTypeOK
  <2> QED  BY <1>2, <2>1, <2>3, <2>4, <2>5 DEF HandlerMoves
<1>5. BlobBeforeRecord'
  <2>1. ASSUME NEW j \in Jobs, Exists(j)', thread'[j] = "publishing"
        PROVE  "result" \in sidecars'[j]
    <3>1. CASE thread[j] = "publishing"
      <4>1. Exists(j)
        BY <1>0, <1>0a, <1>1, <2>1, <3>1 DEF KeepsFiles, FreshIds, Exists
      <4> QED  BY <1>0, <1>1, <2>1, <3>1, <4>1 DEF BlobBeforeRecord, KeepsFiles
    <3>2. CASE WriteSidecar(j, "result")
      BY <1>0b, <3>2 DEF WriteSidecar
    <3> QED  BY <1>2, <2>1, <3>1, <3>2 DEF ThreadMoves
  <2>2. ASSUME NEW j \in Jobs, Exists(j)', thread'[j] = "flagging"
        PROVE  "checkpoint" \in sidecars'[j]
    <3>1. CASE thread[j] = "flagging"
      <4>1. Exists(j)
        BY <1>0, <1>0a, <1>1, <2>2, <3>1 DEF KeepsFiles, FreshIds, Exists
      <4> QED  BY <1>0, <1>1, <2>2, <3>1, <4>1 DEF BlobBeforeRecord, KeepsFiles
    <3>2. CASE WriteSidecar(j, "checkpoint")
      BY <1>0b, <3>2 DEF WriteSidecar
    <3> QED  BY <1>2, <2>2, <3>1, <3>2 DEF ThreadMoves
  <2>3. ASSUME NEW r \in Requests, req'[r].at = "reparse record", Exists(req[r].job)'
        PROVE  "result" \in sidecars'[req'[r].job]
    <3>1. CASE req'[r] = req[r]
      <4> DEFINE j == req[r].job
      <4>1. req[r].at = "reparse record" /\ req'[r].job = j
        BY <2>3, <3>1
      <4>2. j \in 1 .. (nextId - 1)
        BY <1>0, <4>1 DEF HandlersNameJobs
      <4>3. j \in Jobs /\ j # nextId
        BY <1>0, <1>0a, <4>2, MaxJobIdAssumption DEF Jobs, StoreTypeOK
      <4>4. records'[j].status # "absent"
        BY <2>3, <4>1 DEF Exists
      <4>5. Exists(j)
        <5> HIDE DEF j
        <5> QED  BY <1>1, <4>3, <4>4 DEF KeepsFiles, Exists
      <4>6. "result" \in sidecars[j]
        BY <1>0, <4>1, <4>5 DEF BlobBeforeRecord
      <4> HIDE DEF j
      <4> QED  BY <1>1, <4>1, <4>3, <4>4, <4>5, <4>6 DEF KeepsFiles, Exists
    <3>2. CASE WriteSidecar(req'[r].job, "result")
      <4>1. req'[r].job \in Jobs
        <5>1. req'[r].job \in 1 .. (nextId' - 1)
          BY <1>4, <2>3 DEF HandlersNameJobs
        <5>2. nextId' \in 1 .. (MaxJobId + 1)
          BY <1>0, NextTyping DEF TypeOK, StoreTypeOK
        <5> QED  BY <5>1, <5>2, MaxJobIdAssumption DEF Jobs
      <4> QED  BY <1>0b, <3>2, <4>1 DEF WriteSidecar
    <3> QED  BY <1>2, <2>3, <3>1, <3>2 DEF HandlerMoves
  <2> QED  BY <2>1, <2>2, <2>3 DEF BlobBeforeRecord
<1> QED  BY <1>3, <1>4, <1>5, NextAdvertises DEF StoreInv

-----------------------------------------------------------------------------
(* The slots.                                                              *)

\* A reservation that passed both capacity checks keeps the registries
\* consistent and within the limits.
LEMMA ReserveKeepsSlots ==
    ASSUME NEW s \in SlotType, NEW f \in Facets, NEW j \in Jobs, j \notin s.active,
           SlotsConsistent(s), WithinLimits(s), HasCapacity(s, f)
    PROVE  SlotsConsistent(Reserve(s, j, f)) /\ WithinLimits(Reserve(s, j, f))
<1> DEFINE t == Reserve(s, j, f)
<1>1. /\ t.active = s.active \cup {j} /\ t.flags = s.flags \cup {j}
      /\ t.facet = [s.facet EXCEPT ![f] = @ \cup {j}]
  BY DEF Reserve
<1>2. s.active \subseteq Jobs /\ s.facet \in [Facets -> SUBSET Jobs]
  BY DEF SlotType
<1>3. SlotsConsistent(t)
  <2> HIDE DEF t
  <2> QED  BY <1>1, <1>2 DEF SlotsConsistent
<1>4. IsFiniteSet(Jobs)
  BY FS_Interval, MaxJobIdAssumption DEF Jobs
<1>5. /\ IsFiniteSet(s.active) /\ Cardinality(s.active) \in Nat
      /\ \A g \in Facets : IsFiniteSet(s.facet[g]) /\ Cardinality(s.facet[g]) \in Nat
  BY <1>2, <1>4, FS_Subset, FS_CardinalityType
<1>6. j \notin s.facet[f]
  BY DEF SlotsConsistent
<1>7. Cardinality(s.active \cup {j}) = Cardinality(s.active) + 1
  BY <1>5, FS_AddElement
<1>8. Cardinality(s.facet[f] \cup {j}) = Cardinality(s.facet[f]) + 1
  BY <1>5, <1>6, FS_AddElement
<1>9. Cardinality(t.active) <= MaxConcurrent
  BY <1>1, <1>5, <1>7, MaxConcurrentAssumption DEF HasCapacity
<1>10. ASSUME NEW g \in Facets
       PROVE  Cardinality(t.facet[g]) <= FacetMax[g]
  <2>1. CASE g = f
    <3>1. t.facet[g] = s.facet[f] \cup {j}
      BY <1>1, <1>2, <2>1
    <3> QED  BY <1>5, <1>8, <2>1, <3>1, FacetMaxAssumption DEF HasCapacity
  <2>2. CASE g # f
    <3>1. t.facet[g] = s.facet[g]
      BY <1>1, <1>2, <2>2
    <3> QED  BY <3>1 DEF WithinLimits
  <2> QED  BY <2>1, <2>2
<1> QED  BY <1>3, <1>9, <1>10 DEF WithinLimits

\* A release keeps the registries consistent when it names the facet the
\* slot is held under.
LEMMA ReleaseKeepsSlots ==
    ASSUME NEW s \in SlotType, NEW f \in Facets, NEW j \in Jobs,
           j \in s.active => j \in s.facet[f],
           SlotsConsistent(s), WithinLimits(s)
    PROVE  SlotsConsistent(Release(s, j, f)) /\ WithinLimits(Release(s, j, f))
<1> DEFINE t == Release(s, j, f)
<1>1. /\ t.active = s.active \ {j} /\ t.flags = s.flags \ {j}
      /\ t.facet = [s.facet EXCEPT ![f] = @ \ {j}]
  BY DEF Release
<1>2. s.active \subseteq Jobs /\ s.facet \in [Facets -> SUBSET Jobs]
  BY DEF SlotType
<1>3. SlotsConsistent(t)
  <2> HIDE DEF t
  <2>1. t.flags = t.active
    BY <1>1 DEF SlotsConsistent
  <2>2. \A g \in Facets : t.facet[g] \subseteq s.facet[g] /\ (g # f => t.facet[g] = s.facet[g])
                          /\ s.facet[g] \ {j} \subseteq t.facet[g]
    BY <1>1, <1>2
  <2>3. t.facet[f] = s.facet[f] \ {j}
    BY <1>1, <1>2
  <2>4. \A g \in Facets : j \notin t.facet[g]
    BY <2>2, <2>3 DEF SlotsConsistent
  <2>5. \A id \in t.active : \E g \in Facets : id \in t.facet[g]
    BY <1>1, <2>2 DEF SlotsConsistent
  <2>6. ASSUME NEW g \in Facets
        PROVE  t.facet[g] \subseteq t.active
    <3>1. t.facet[g] \subseteq s.active
      BY <2>2 DEF SlotsConsistent
    <3>2. j \notin t.facet[g]
      BY <2>4
    <3>3. t.active = s.active \ {j}
      BY <1>1
    <3> QED  BY <3>1, <3>2, <3>3
  <2>7. \A g, h \in Facets : g # h => t.facet[g] \cap t.facet[h] = {}
    BY <2>2 DEF SlotsConsistent
  <2> QED  BY <2>1, <2>5, <2>6, <2>7 DEF SlotsConsistent
<1>4. IsFiniteSet(Jobs)
  BY FS_Interval, MaxJobIdAssumption DEF Jobs
<1>5. ASSUME NEW A \in SUBSET Jobs, NEW B \in SUBSET A, NEW n \in Nat, Cardinality(A) <= n
      PROVE  Cardinality(B) <= n
  <2>1. IsFiniteSet(A)
    BY <1>4, FS_Subset
  <2>2. IsFiniteSet(B) /\ Cardinality(B) <= Cardinality(A)
    BY <2>1, FS_Subset
  <2>3. Cardinality(A) \in Nat /\ Cardinality(B) \in Nat
    BY <2>1, <2>2, FS_CardinalityType
  <2> QED  BY <1>5, <2>2, <2>3
<1>6. Cardinality(t.active) <= MaxConcurrent
  BY <1>1, <1>2, <1>5, MaxConcurrentAssumption DEF WithinLimits
<1>7. \A g \in Facets : Cardinality(t.facet[g]) <= FacetMax[g]
  <2>1. \A g \in Facets : t.facet[g] \subseteq s.facet[g]
    BY <1>1, <1>2
  <2> HIDE DEF t
  <2> QED  BY <1>2, <1>5, <2>1, FacetMaxAssumption DEF WithinLimits
<1> QED  BY <1>3, <1>6, <1>7 DEF WithinLimits

\* How a step can change who is dispatched, and under which facet.
DispatchMoves(j) ==
    thread'[j] \in Live =>
        \/ /\ thread[j] \in Live /\ taskFacet'[j] = taskFacet[j]
           /\ j \in classifiers' <=> j \in classifiers
        \/ /\ j = nextId /\ nextId' = nextId + 1
           /\ records'[j].facet = taskFacet'[j]

\* A handler that read a record keeps that record's facet.
HandlerFacet(r) ==
    req'[r].at \in {"gate", "admitted"} =>
        \/ /\ req[r].at \in {"gate", "admitted"}
           /\ req'[r].job = req[r].job /\ req'[r].facet = req[r].facet
        \/ /\ Exists(req'[r].job) /\ req'[r].facet = records[req'[r].job].facet

\* What a step does to the slots: nothing, or one of the operations.
SlotStep ==
    \/ /\ UNCHANGED <<slots, cancelled>>
       /\ \A j \in Jobs : thread'[j] \in Live <=> thread[j] \in Live
    \/ \E f \in Facets, l \in Locks, t \in Tools : StartJob(f, l, t)
    \/ \E r \in Requests : req[r].at = "admitted" /\ StopCrawl(req[r].job, req[r].facet)
    \/ \E j \in Jobs : DispatchReleases(j)
    \/ Restart

\* Every step moves the dispatches, the handlers and the slots that way.
LEMMA NextSlotMoves ==
    ASSUME TypeOK, [Next]_vars
    PROVE  /\ \A j \in Jobs : DispatchMoves(j)
           /\ \A r \in Requests : HandlerFacet(r)
           /\ SlotStep
<1>0. ApiTypeOK /\ RestTypeOK /\ StoreTypeOK
  BY TypeOKParts
<1>0a. \A r \in Requests : req[r] \in Request
  BY <1>0 DEF RestTypeOK
<1>0b. \A r \in Requests : req[r].facet \in Facets /\ req[r].lock \in Locks
  BY <1>0a DEF Request
<1> DEFINE D == \A j \in Jobs : DispatchMoves(j)
           H == \A r \in Requests : HandlerFacet(r)
           Moves == D /\ H /\ SlotStep
<1> SUFFICES Moves
  OBVIOUS
<1>a. ASSUME UNCHANGED apiVars
      PROVE  D /\ SlotStep
  BY <1>a DEF apiVars, DispatchMoves, SlotStep
<1>s. ASSUME NEW f \in Facets, NEW l \in Locks, NEW t \in Tools, Start(f, l, t)
      PROVE  D /\ SlotStep
  <2>1. CASE StartJob(f, l, t)
    <3>1. /\ \A j \in Jobs : j # nextId => thread'[j] = thread[j] /\ taskFacet'[j] = taskFacet[j]
          /\ \A j \in Jobs : j # nextId => (j \in classifiers' <=> j \in classifiers)
          /\ nextId \in Jobs /\ nextId' = nextId + 1
          /\ taskFacet'[nextId] = f
      BY <1>0, <2>1 DEF StartJob, Create, ApiTypeOK
    <3>2. records'[nextId].facet = f
      BY <1>0, <2>1, <3>1 DEF StartJob, Create, StoreTypeOK
    <3>3. D
      BY <3>1, <3>2 DEF DispatchMoves
    <3> QED  BY <2>1, <3>3 DEF SlotStep
  <2>2. CASE StartFails(f)
    <3>1. slots' = slots
      BY <1>0, <2>2, ReleasedReservation DEF StartFails, ApiTypeOK
    <3> QED  BY <1>a, <2>2, <3>1 DEF StartFails, apiVars
  <2>3. CASE StartRefused(f)
    BY <1>a, <2>3 DEF StartRefused
  <2> QED  BY <1>s, <2>1, <2>2, <2>3 DEF Start
<1>r. UNCHANGED req => H
  BY DEF HandlerFacet
<1>i. ASSUME NEW r \in Requests, req' = [req EXCEPT ![r] = Idle]
      PROVE  H
  BY <1>0, <1>i DEF HandlerFacet, Idle, RestTypeOK
<1>1. ASSUME NEW r \in Requests, NEW k \in Keys \cup {NoKey}, NEW l \in NewJobLocks,
             NEW f \in Facets, CreateJob(r, k, l, f)
      PROVE  Moves
  <2>1. CASE Start(f, l, "classifier") /\ UNCHANGED req
    BY <1>s, <1>r, <2>1, NewJobLocksAssumption, ToolNames
  <2>2. CASE UNCHANGED apiVars
             /\ req' = [req EXCEPT ![r] = [Idle EXCEPT !.op = "create", !.at = "hash", !.key = k,
                                                      !.facet = f, !.lock = l]]
    <3>1. H
      BY <1>0, <2>2 DEF HandlerFacet, Idle, RestTypeOK
    <3> QED  BY <1>a, <2>2, <3>1
  <2> QED  BY <1>1, <2>1, <2>2 DEF CreateJob
<1>2. ASSUME NEW f \in SFFacets, CreateSFJob(f)
      PROVE  Moves
  <2>1. f \in Facets /\ "none" \in Locks
    BY FacetsAssumption DEF Locks
  <2> QED  BY <1>s, <1>r, <1>2, <2>1, ToolNames DEF CreateSFJob
<1>3. ASSUME NEW r \in Requests, NEW op \in Operations, NEW j \in Jobs, ReadRecord(r, op, j)
      PROVE  Moves
  <2>1. Exists(j) /\ \A q \in Requests : q # r => req'[q] = req[q]
    BY <1>0, <1>3 DEF ReadRecord, RestTypeOK
  <2>2. req'[r].job = j /\ req'[r].facet = records[j].facet
    BY <1>0, <1>3 DEF ReadRecord, RestTypeOK, Idle
  <2>3. H
    BY <2>1, <2>2 DEF HandlerFacet
  <2> QED  BY <1>a, <1>3, <2>3 DEF ReadRecord
<1>4. ASSUME NEW r \in Requests, CreateJobHashed(r)
      PROVE  Moves
  BY <1>0b, <1>s, <1>i, <1>4, ToolNames DEF CreateJobHashed
<1>5. ASSUME NEW r \in Requests, GatePasses(r) \/ GateCountsFailure(r) \/ GateRefuses(r)
      PROVE  Moves
  <2>1. CASE GatePasses(r)
    <3>1. /\ \A q \in Requests : q # r => req'[q] = req[q]
          /\ req[r].at = "gate" /\ req'[r].job = req[r].job /\ req'[r].facet = req[r].facet
      BY <1>0, <1>0a, <2>1 DEF GatePasses, RestTypeOK, Request
    <3>2. H
      BY <3>1 DEF HandlerFacet
    <3> QED  BY <1>a, <2>1, <3>2 DEF GatePasses, GateOnly
  <2> QED  BY <1>a, <1>i, <1>5, <2>1 DEF GateCountsFailure, GateRefuses, GateOnly
<1>6. ASSUME NEW r \in Requests, CancelJob(r) \/ DeleteJob(r) \/ RetryJob(r) \/ ResumeJob(r)
      PROVE  Moves
  <2>1. \/ UNCHANGED apiVars \/ Start(req[r].facet, req[r].lock, "classifier")
        \/ req[r].at = "admitted" /\ StopCrawl(req[r].job, req[r].facet)
    BY <1>6 DEF CancelJob, DeleteJob, RetryJob, ResumeJob, Acts
  <2>2. H
    BY <1>i, <1>6 DEF CancelJob, DeleteJob, RetryJob, ResumeJob, Answers
  <2>3. CASE req[r].at = "admitted" /\ StopCrawl(req[r].job, req[r].facet)
    <3>1. D
      BY <2>3 DEF StopCrawl, DispatchMoves
    <3> QED  BY <2>2, <2>3, <3>1 DEF SlotStep
  <2> QED  BY <1>0b, <1>a, <1>s, <2>1, <2>2, <2>3, ToolNames
<1>7. ASSUME NEW r \in Requests, ReparseCreates(r)
      PROVE  Moves
  <2>1. \/ Answers(r)
        \/ /\ \A q \in Requests : q # r => req'[q] = req[q]
           /\ req'[r].at = "reparse blob"
    BY <1>0, <1>7, ReparseCreatesJob DEF RestTypeOK
  <2>2. H
    BY <1>i, <2>1 DEF HandlerFacet, Answers
  <2> QED  BY <1>a, <1>7, <2>2 DEF ReparseCreates
<1>8. ASSUME NEW r \in Requests, ReparseStores(r)
      PROVE  Moves
  <2>1. UNCHANGED apiVars
    BY <1>8 DEF ReparseStores
  <2>2. CASE \E at \in {"reparse record", "reparse homepage"} : req' = [req EXCEPT ![r].at = at]
    <3>0. PICK at \in {"reparse record", "reparse homepage"} : req' = [req EXCEPT ![r].at = at]
      BY <2>2
    <3>1. /\ \A q \in Requests : q # r => req'[q] = req[q]
          /\ req'[r].at \in {"reparse record", "reparse homepage"}
      BY <1>0, <1>0a, <3>0 DEF RestTypeOK, Request
    <3>2. H
      BY <3>1 DEF HandlerFacet
    <3> QED  BY <1>a, <2>1, <3>2
  <2> QED  BY <1>a, <1>i, <1>8, <2>1, <2>2 DEF ReparseStores, Answers
<1>8a. ASSUME NEW r \in Requests, ReparseRaises(r)
       PROVE  Moves
  BY <1>a, <1>i, <1>8a DEF ReparseRaises, Answers
<1>9. CASE Restart
  <2>1. \A j \in Jobs : thread'[j] = "none"
    BY <1>9 DEF Restart
  <2>2. \A q \in Requests : req'[q].at = "idle"
    BY <1>9 DEF Restart, Idle
  <2>3. D
    BY <2>1 DEF DispatchMoves, Live, InRun, InTool
  <2> QED  BY <1>9, <2>2, <2>3 DEF HandlerFacet, SlotStep
<1>10. ASSUME NEW j \in Jobs, DispatchReleases(j)
       PROVE  Moves
  <2>1. D
    BY <1>0, <1>10 DEF DispatchReleases, TaskEnds, DispatchMoves, ApiTypeOK, Live, InRun, InTool
  <2> QED  BY <1>r, <1>10, <2>1 DEF DispatchReleases, TaskEnds, SlotStep
<1>11. ASSUME NEW j \in Jobs, RunStep(j) \/ CheckpointSaves(j) \/ HomepageSaves(j) \/ ToolReturns(j)
       PROVE  Moves
  <2>0. SUFFICES ASSUME ~DispatchReleases(j)
                 PROVE  Moves
    BY <1>10
  <2>1. UNCHANGED <<slots, cancelled, taskFacet, classifiers, req>>
    BY <1>11, <2>0 DEF RunStep, RunOpen, RunMarkRunning, CheckpointFlags, RunFinishBlob,
       RunFinishRecord, RunMarkFailed, RunClose, CheckpointSaves,
       HomepageSaves, ToolReturns, ThreadOnly
  <2>2. thread[j] \in Live /\ \A i \in Jobs : i # j => thread'[i] = thread[i]
    BY <1>0, <1>11, <2>0 DEF RunStep, RunOpen, RunMarkRunning, CheckpointFlags, RunFinishBlob,
       RunFinishRecord, RunMarkFailed, RunClose, CheckpointSaves,
       HomepageSaves, ToolReturns, StoreCall, ApiTypeOK, Live, InRun, InTool
  <2>3. thread'[j] \in Live
    BY <1>0, <1>11, <2>0 DEF RunStep, RunOpen, RunMarkRunning, CheckpointFlags, RunFinishBlob,
       RunFinishRecord, RunMarkFailed, RunClose, CheckpointSaves,
       HomepageSaves, ToolReturns, StoreCall, ApiTypeOK, Live, InRun, InTool
  <2>4. D
    BY <2>1, <2>2, <2>3 DEF DispatchMoves
  <2>5. SlotStep
    BY <2>1, <2>2, <2>3 DEF SlotStep
  <2> QED  BY <1>r, <2>1, <2>4, <2>5
<1>12. ASSUME NEW j \in Jobs, NEW kind \in Attachments, Attach(j, kind)
       PROVE  Moves
  BY <1>a, <1>r, <1>12 DEF Attach
<1>13. CASE RecoverList \/ RecoverOne \/ RecoverEnds
  BY <1>a, <1>r, <1>13 DEF RecoverList, RecoverOne, RecoverEnds, RecoveryOnly
<1>14. CASE UNCHANGED vars
  BY <1>a, <1>r, <1>14 DEF vars, apiVars
<1> QED
  <2> HIDE DEF Moves
  <2> QED
    BY <1>1, <1>2, <1>3, <1>4, <1>5, <1>6, <1>7, <1>8, <1>8a, <1>9, <1>11, <1>12, <1>13, <1>14
    DEF Next, Crash, CrashInDelete

\* The slot invariant is inductive, given the store's.  A handler releases
\* a slot under the facet it read from the record, and _dispatch under the
\* facet it was started with: FacetsAgree is what makes them the same.
LEMMA SlotInvStep ==
    ASSUME TypeOK, StoreInv, SlotInv, [Next]_vars
    PROVE  SlotInv'
<1>0. ApiTypeOK /\ RestTypeOK /\ StoreTypeOK
      /\ HandlersNameJobs /\ FreshIds
      /\ SlotBookkeeping /\ EverySlotHasADispatch /\ EvictedCrawlIsCancelled /\ FacetsAgree
  BY TypeOKParts DEF StoreInv, SlotInv
<1>0a. nextId \in Nat /\ \A j \in Jobs : j \in Nat
  BY <1>0, MaxJobIdAssumption DEF StoreTypeOK, Jobs
<1>0b. "none" \notin Live
  BY DEF Live, InRun, InTool
<1>1. KeepsFiles
  BY <1>0, NextIsStoreStep, StoreStepKeepsFiles
<1>2. (\A j \in Jobs : DispatchMoves(j)) /\ (\A r \in Requests : HandlerFacet(r)) /\ SlotStep
  BY NextSlotMoves
<1>3. FacetsAgree'
  <2>1. SUFFICES ASSUME NEW j \in Jobs, thread'[j] \in Live
                 PROVE  /\ Exists(j)' => records'[j].facet = taskFacet'[j]
                        /\ \A r \in Requests :
                              req'[r].at \in {"gate", "admitted"} /\ req'[r].job = j
                                 => req'[r].facet = taskFacet'[j]
    BY DEF FacetsAgree
  <2>2. CASE thread[j] \in Live /\ taskFacet'[j] = taskFacet[j]
    <3>1. j < nextId
      BY <1>0, <1>0a, <1>0b, <2>2 DEF FreshIds
    <3>2. Exists(j) => records[j].facet = taskFacet[j]
      BY <1>0, <2>2 DEF FacetsAgree
    <3>3. ASSUME Exists(j)'
          PROVE  records'[j].facet = taskFacet'[j]
      <4>1. Exists(j)
        BY <1>0a, <1>1, <3>1, <3>3 DEF KeepsFiles, Exists
      <4> QED  BY <1>1, <2>2, <3>2, <3>3, <4>1 DEF KeepsFiles
    <3>4. ASSUME NEW r \in Requests, req'[r].at \in {"gate", "admitted"}, req'[r].job = j
          PROVE  req'[r].facet = taskFacet'[j]
      BY <1>0, <1>2, <2>2, <3>2, <3>4 DEF HandlerFacet, FacetsAgree
    <3> QED  BY <3>3, <3>4
  <2>3. CASE j = nextId /\ records'[j].facet = taskFacet'[j]
    <3>1. ~Exists(j)
      BY <1>0, <1>0a, <2>3 DEF FreshIds, Exists, NoRecord
    <3>2. ASSUME NEW r \in Requests, req'[r].at \in {"gate", "admitted"}, req'[r].job = j
          PROVE  FALSE
      <4>1. req[r].at \in {"gate", "admitted"} /\ req[r].job = j
        BY <1>2, <3>1, <3>2 DEF HandlerFacet
      <4>2. j \in 1 .. (nextId - 1)
        BY <1>0, <4>1 DEF HandlersNameJobs
      <4> QED  BY <1>0a, <2>3, <4>2
    <3> QED  BY <2>3, <3>2
  <2> QED  BY <1>2, <2>1, <2>2, <2>3 DEF DispatchMoves
<1> DEFINE Goal == SlotBookkeeping' /\ EverySlotHasADispatch' /\ EvictedCrawlIsCancelled'
<1>4. ASSUME UNCHANGED <<slots, cancelled>>,
             \A j \in Jobs : thread'[j] \in Live <=> thread[j] \in Live
      PROVE  Goal
  <2>1. \A j \in Jobs : thread[j] \in Live => taskFacet'[j] = taskFacet[j]
    <3>1. SUFFICES ASSUME NEW j \in Jobs, thread[j] \in Live
                   PROVE  taskFacet'[j] = taskFacet[j]
      OBVIOUS
    <3>2. j # nextId
      BY <1>0, <1>0a, <1>0b, <3>1 DEF FreshIds
    <3> QED  BY <1>2, <1>4, <3>1, <3>2 DEF DispatchMoves
  <2>2. SlotBookkeeping'
    BY <1>0, <1>4 DEF SlotBookkeeping
  <2>3. EverySlotHasADispatch'
    BY <1>0, <1>4, <2>1 DEF EverySlotHasADispatch
  <2>4. EvictedCrawlIsCancelled'
    BY <1>0, <1>4 DEF EvictedCrawlIsCancelled
  <2> QED  BY <2>2, <2>3, <2>4
<1>5. ASSUME NEW f \in Facets, NEW l \in Locks, NEW t \in Tools, StartJob(f, l, t)
      PROVE  Goal
  <2>1. nextId \in Jobs /\ thread[nextId] = "none"
    BY <1>0, <1>0a, <1>5 DEF StartJob, Create, FreshIds
  <2>2. nextId \notin slots.active
    BY <1>0, <1>0b, <2>1 DEF EverySlotHasADispatch
  <2>3. slots' = Reserve(slots, nextId, f)
    BY <1>0, <1>5, <2>1, RekeyedReservation DEF StartJob, ApiTypeOK
  <2>4. SlotBookkeeping'
    BY <1>0, <1>5, <2>1, <2>2, <2>3, ReserveKeepsSlots DEF SlotBookkeeping, StartJob, ApiTypeOK
  <2>5. /\ slots'.active = slots.active \cup {nextId}
        /\ \A g \in Facets : slots.facet[g] \subseteq slots'.facet[g]
        /\ nextId \in slots'.facet[f]
    BY <1>0, <2>3 DEF Reserve, ApiTypeOK, SlotType
  <2>6. /\ thread'[nextId] \in Live /\ taskFacet'[nextId] = f
        /\ \A j \in Jobs : j # nextId => thread'[j] = thread[j] /\ taskFacet'[j] = taskFacet[j]
        /\ cancelled' = cancelled
    BY <1>0, <1>5, <2>1 DEF StartJob, ApiTypeOK, Live
  <2>7. taskFacet \in [Jobs -> Facets]
    BY <1>0 DEF ApiTypeOK
  <2>8. EverySlotHasADispatch'
    BY <1>0, <2>5, <2>6, <2>7 DEF EverySlotHasADispatch
  <2>9. EvictedCrawlIsCancelled'
    BY <1>0, <2>5, <2>6 DEF EvictedCrawlIsCancelled
  <2> QED  BY <2>4, <2>8, <2>9
<1>6. ASSUME NEW i \in Jobs, NEW f \in Facets, slots' = Release(slots, i, f),
             i \in slots.active => f = taskFacet[i],
             \A j \in Jobs : j # i => thread'[j] = thread[j],
             \A j \in Jobs : j # i => taskFacet'[j] = taskFacet[j],
             \A j \in Jobs : j # i /\ j \in cancelled => j \in cancelled',
             i \in slots.active => thread'[i] \notin Live \/ i \in cancelled',
             thread'[i] \in Live => thread[i] \in Live /\ (i \in cancelled => i \in cancelled')
      PROVE  Goal
  <2>1. i \in slots.active => i \in slots.facet[f]
    BY <1>0, <1>6 DEF EverySlotHasADispatch
  <2>2. SlotBookkeeping'
    BY <1>0, <1>6, <2>1, ReleaseKeepsSlots DEF SlotBookkeeping, ApiTypeOK
  <2>3. /\ slots'.active = slots.active \ {i}
        /\ \A g \in Facets : \A j \in Jobs : j # i /\ j \in slots.facet[g] => j \in slots'.facet[g]
    BY <1>0, <1>6 DEF Release, ApiTypeOK, SlotType
  <2>4. taskFacet \in [Jobs -> Facets]
    BY <1>0 DEF ApiTypeOK
  <2>5. EverySlotHasADispatch'
    BY <1>0, <1>6, <2>3, <2>4 DEF EverySlotHasADispatch
  <2>6. EvictedCrawlIsCancelled'
    BY <1>0, <1>6, <2>3 DEF EvictedCrawlIsCancelled
  <2> QED  BY <2>2, <2>5, <2>6
<1>7. ASSUME NEW r \in Requests, req[r].at = "admitted", StopCrawl(req[r].job, req[r].facet)
      PROVE  Goal
  <2> DEFINE i == req[r].job
  <2>1. i \in Jobs /\ req[r].facet \in Facets
    <3>1. i \in 1 .. (nextId - 1)
      BY <1>0, <1>7 DEF HandlersNameJobs
    <3>2. req[r] \in Request /\ nextId \in 1 .. (MaxJobId + 1)
      BY <1>0 DEF RestTypeOK, StoreTypeOK
    <3>3. i \in Jobs
      <4> HIDE DEF i
      <4> QED  BY <3>1, <3>2, MaxJobIdAssumption DEF Jobs
    <3> QED  BY <3>2, <3>3 DEF Request
  <2>2. i \in slots.active => thread[i] \in Live /\ req[r].facet = taskFacet[i]
    BY <1>0, <1>7, <2>1 DEF EverySlotHasADispatch, FacetsAgree
  <2>3. /\ slots' = Release(slots, i, req[r].facet) /\ UNCHANGED <<thread, taskFacet>>
        /\ cancelled' = IF i \in slots.flags THEN cancelled \cup {i} ELSE cancelled
    BY <1>7 DEF StopCrawl
  <2>4. slots.flags = slots.active
    BY <1>0 DEF SlotBookkeeping, SlotsConsistent
  <2> HIDE DEF i, Goal
  <2> QED  BY <1>6, <2>1, <2>2, <2>3, <2>4
<1>8. ASSUME NEW i \in Jobs, DispatchReleases(i)
      PROVE  Goal
  <2>1. /\ slots' = Release(slots, i, taskFacet[i])
        /\ thread'[i] = "none"
        /\ \A j \in Jobs : j # i => thread'[j] = thread[j]
        /\ \A j \in Jobs : j # i => taskFacet'[j] = taskFacet[j]
        /\ \A j \in Jobs : j # i /\ j \in cancelled => j \in cancelled'
        /\ taskFacet[i] \in Facets
    BY <1>0, <1>8 DEF DispatchReleases, TaskEnds, ApiTypeOK
  <2>2. thread'[i] \notin Live
    BY <1>0b, <2>1
  <2> HIDE DEF Goal
  <2> QED  BY <1>6, <2>1, <2>2
<1>9. ASSUME Restart
      PROVE  Goal
  <2>1. slots' = NoSlots /\ \A j \in Jobs : thread'[j] = "none"
    BY <1>9 DEF Restart
  <2>2. SlotBookkeeping'
    BY <2>1, FS_EmptySet, MaxConcurrentAssumption, FacetMaxAssumption
    DEF SlotBookkeeping, SlotsConsistent, WithinLimits, NoSlots
  <2> QED  BY <1>0b, <2>1, <2>2 DEF EverySlotHasADispatch, EvictedCrawlIsCancelled, NoSlots
<1>10. Goal
  <2> HIDE DEF Goal
  <2> QED  BY <1>2, <1>4, <1>5, <1>7, <1>8, <1>9 DEF SlotStep
<1> QED  BY <1>3, <1>10 DEF SlotInv

-----------------------------------------------------------------------------
(* How runs end, and who may touch a job that has ended.                   *)

Reparsing == {"reparse blob", "reparse record", "reparse homepage"}

\* What a step can do to the run of a job: a thread goes through _run_job
\* and its finally clause in order, reaches the finally clause with the job
\* ended, gone or left behind, and is the only one to open and close its
\* account.
RunMoves(j) ==
    \/ thread'[j] = thread[j] /\ (j \in accounts' <=> j \in accounts)
    \/ thread'[j] = "none" /\ (j \in accounts' => j \in accounts /\ thread[j] \in {"ended", "raised"})
    \/ /\ j = nextId /\ nextId' = nextId + 1
       /\ thread'[j] = "submitted" /\ (j \in accounts' <=> j \in accounts)
    \/ /\ thread[j] = "submitted" /\ thread'[j] = "opened"
       /\ j \in accounts' <=> j \in accounts \/ IsCrawl(j)
    \/ /\ thread[j] \in InRun /\ thread'[j] \in InRun /\ (j \in accounts' <=> j \in accounts)
       /\ thread'[j] \in {"closing", "raising"} /\ records'[j].status \in Open =>
              j \in abandoned'
    \/ /\ thread[j] \in {"closing", "raising"} /\ thread'[j] \in {"ended", "raised"}
       /\ j \notin accounts' /\ UNCHANGED storeVars

\* What a step can do to the status of a job: nobody but its own thread
\* makes it running; it is ended by that thread, by a cancel that read it
\* open, by the recovery that listed it, or by the reparse that made it.
StatusMoves(j) ==
    \/ records'[j].status \in {records[j].status, "absent"}
    \/ j = nextId /\ nextId' = nextId + 1
    \/ /\ thread[j] \in InRun \ {"closing", "raising"}
       /\ records'[j].status \in Open => thread[j] = "opened"
    \/ /\ records'[j].status \in Terminal
       /\ \/ \E r \in Requests : req[r].op = "cancel" /\ req[r].job = j /\ req[r].status \in Open
          \/ \E r \in Requests : req[r].at \in Reparsing /\ req[r].job = j
          \/ j \in recovery.todo

\* A handler that reparses got there as a reparse request.
HandlerOp(r) ==
    req'[r].at \in Reparsing =>
        /\ req'[r].op = req[r].op
        /\ req[r].at \in Reparsing \/ req[r].op = "reparse"

\* Every step moves the runs, the statuses and the handlers that way.
LEMMA NextRunMoves ==
    ASSUME TypeOK, [Next]_vars
    PROVE  /\ \A j \in Jobs : RunMoves(j) /\ StatusMoves(j)
           /\ \A r \in Requests : HandlerOp(r)
<1>0. ApiTypeOK /\ RestTypeOK /\ StoreTypeOK
  BY TypeOKParts
<1>0a. \A r \in Requests : req[r] \in Request
  BY <1>0 DEF RestTypeOK
<1> DEFINE M == \A j \in Jobs : RunMoves(j)
           S == \A j \in Jobs : StatusMoves(j)
           H == \A r \in Requests : HandlerOp(r)
           Moves == M /\ S /\ H
<1> SUFFICES Moves
  OBVIOUS
<1>a. UNCHANGED <<thread, accounts>> => M
  BY DEF RunMoves
<1>b. UNCHANGED storeVars => S
  BY DEF StatusMoves, storeVars
<1>s. ASSUME NEW f, NEW l, NEW t, Start(f, l, t)
      PROVE  M /\ S
  <2>1. CASE StartJob(f, l, t)
    <3>1. /\ \A j \in Jobs : j # nextId => thread'[j] = thread[j] /\ records'[j] = records[j]
          /\ nextId \in Jobs /\ nextId' = nextId + 1
          /\ thread'[nextId] = "submitted" /\ accounts' = accounts
      BY <1>0, <2>1 DEF StartJob, Create, ApiTypeOK, StoreTypeOK
    <3> QED  BY <3>1 DEF RunMoves, StatusMoves
  <2>2. CASE UNCHANGED <<storeVars, thread, accounts>>
    BY <1>a, <1>b, <2>2
  <2> QED  BY <1>s, <2>1, <2>2 DEF Start, StartFails, StartRefused, apiVars
<1>r. UNCHANGED req => H
  BY DEF HandlerOp
<1>i. ASSUME NEW r \in Requests, req' = [req EXCEPT ![r] = Idle]
      PROVE  H
  BY <1>0, <1>i DEF HandlerOp, Idle, RestTypeOK, Reparsing
<1>1. ASSUME NEW r \in Requests, NEW k \in Keys \cup {NoKey}, NEW l \in NewJobLocks,
             NEW f \in Facets, CreateJob(r, k, l, f)
      PROVE  Moves
  <2>1. CASE Start(f, l, "classifier") /\ UNCHANGED req
    BY <1>s, <1>r, <2>1
  <2>2. CASE UNCHANGED <<storeVars, apiVars>>
             /\ req' = [req EXCEPT ![r] = [Idle EXCEPT !.op = "create", !.at = "hash", !.key = k,
                                                      !.facet = f, !.lock = l]]
    <3>1. H
      BY <1>0, <2>2 DEF HandlerOp, Idle, RestTypeOK, Reparsing
    <3> QED  BY <1>a, <1>b, <2>2, <3>1 DEF apiVars
  <2> QED  BY <1>1, <2>1, <2>2 DEF CreateJob
<1>2. ASSUME NEW f \in SFFacets, CreateSFJob(f)
      PROVE  Moves
  BY <1>s, <1>r, <1>2 DEF CreateSFJob
<1>3. ASSUME NEW r \in Requests, NEW op \in Operations, NEW j \in Jobs, ReadRecord(r, op, j)
      PROVE  Moves
  <2>1. H
    BY <1>0, <1>3 DEF ReadRecord, RestTypeOK, Idle, HandlerOp, Reparsing
  <2> QED  BY <1>a, <1>b, <1>3, <2>1 DEF ReadRecord, apiVars
<1>4. ASSUME NEW r \in Requests, CreateJobHashed(r)
      PROVE  Moves
  BY <1>s, <1>i, <1>4 DEF CreateJobHashed
<1>5. ASSUME NEW r \in Requests, GatePasses(r) \/ GateCountsFailure(r) \/ GateRefuses(r)
      PROVE  Moves
  <2>1. records' = records
    BY <1>5 DEF GatePasses, GateCountsFailure, GateRefuses, ClearDeleteLockout,
                RecordFailedDelete, storeVars
  <2>2. S
    BY <2>1 DEF StatusMoves
  <2>3. CASE GatePasses(r)
    <3>1. H
      BY <1>0, <1>0a, <2>3 DEF GatePasses, RestTypeOK, Request, HandlerOp, Reparsing
    <3> QED  BY <1>a, <2>2, <2>3, <3>1 DEF GatePasses, GateOnly, apiVars
  <2> QED  BY <1>a, <1>i, <1>5, <2>2, <2>3 DEF GateCountsFailure, GateRefuses, GateOnly, apiVars
<1>6. ASSUME NEW r \in Requests, CancelJob(r) \/ DeleteJob(r) \/ RetryJob(r) \/ ResumeJob(r)
      PROVE  Moves
  <2>1. H
    BY <1>i, <1>6 DEF CancelJob, DeleteJob, RetryJob, ResumeJob, Answers
  <2>2. CASE CancelJob(r)
    <3>1. M
      BY <1>a, <2>2 DEF CancelJob, StopCrawl, apiVars
    <3>2. \/ UNCHANGED storeVars
          \/ MarkFailed(req[r].job) /\ req[r].op = "cancel" /\ req[r].status \in Open
      BY <2>2 DEF CancelJob, Acts, storeVars
    <3>3. S
      BY <1>0, <1>b, <3>2 DEF MarkFailed, SetStatus, StatusMoves, StoreTypeOK, Terminal, JobRecord
    <3> QED  BY <2>1, <3>1, <3>3
  <2>3. CASE DeleteJob(r)
    <3>1. M
      BY <1>a, <2>3 DEF DeleteJob, StopCrawl, apiVars
    <3>2. S
      BY <1>0, <1>b, <2>3 DEF DeleteJob, Delete, NoRecord, StatusMoves, StoreTypeOK
    <3> QED  BY <2>1, <3>1, <3>2
  <2>4. CASE Start(req[r].facet, req[r].lock, "classifier") \/ UNCHANGED <<storeVars, apiVars>>
    BY <1>a, <1>b, <1>s, <2>1, <2>4 DEF apiVars
  <2> QED  BY <1>6, <2>2, <2>3, <2>4 DEF RetryJob, ResumeJob
<1>7. ASSUME NEW r \in Requests, ReparseCreates(r)
      PROVE  Moves
  <2>1. H
    <3>1. CASE Answers(r)
      BY <1>i, <3>1 DEF Answers
    <3>2. CASE ~Answers(r)
      BY <1>0, <1>7, <3>2, ReparseCreatesJob DEF RestTypeOK, HandlerOp
    <3> QED  BY <3>1, <3>2
  <2>2. S
    BY <1>0, <1>b, <1>7 DEF ReparseCreates, Create, StatusMoves, StoreTypeOK
  <2> QED  BY <1>a, <1>7, <2>1, <2>2 DEF ReparseCreates, apiVars
<1>8. ASSUME NEW r \in Requests, ReparseStores(r)
      PROVE  Moves
  <2>1. req[r].at \in Reparsing
    BY <1>8 DEF ReparseStores, Reparsing
  <2>2. H
    <3>1. CASE req' = [req EXCEPT ![r] = Idle]
      BY <1>i, <3>1
    <3>2. CASE \E at \in {"reparse record", "reparse homepage"} : req' = [req EXCEPT ![r].at = at]
      <4>1. PICK at \in {"reparse record", "reparse homepage"} : req' = [req EXCEPT ![r].at = at]
        BY <3>2
      <4>2. req'[r].op = req[r].op /\ \A q \in Requests : q # r => req'[q] = req[q]
        BY <1>0, <1>0a, <4>1 DEF RestTypeOK, Request
      <4> QED  BY <2>1, <4>2 DEF HandlerOp
    <3> QED  BY <1>8, <3>1, <3>2 DEF ReparseStores, Answers
  <2>3. \/ UNCHANGED records
        \/ FinishRecord(req[r].job, "succeeded")
    BY <1>8 DEF ReparseStores, FinishBlob, WriteSidecar, storeVars
  <2>4. S
    BY <1>0, <2>1, <2>3 DEF FinishRecord, StatusMoves, StoreTypeOK, Terminal, JobRecord
  <2> QED  BY <1>a, <1>8, <2>2, <2>4 DEF ReparseStores, apiVars
<1>8a. ASSUME NEW r \in Requests, ReparseRaises(r)
       PROVE  Moves
  BY <1>a, <1>b, <1>i, <1>8a DEF ReparseRaises, Answers, apiVars
<1>9. ASSUME Restart
      PROVE  M /\ H
  BY <1>9 DEF Restart, RunMoves, HandlerOp, Idle, Reparsing
<1>9a. ASSUME NEW r \in Requests, CrashInDelete(r)
       PROVE  Moves
  <2>1. S
    BY <1>0, <1>9a DEF CrashInDelete, DeleteInterrupted, NoRecord, StatusMoves, StoreTypeOK
  <2> QED  BY <1>9, <1>9a, <2>1 DEF CrashInDelete
<1>10. ASSUME NEW j \in Jobs, RunStep(j) \/ CheckpointSaves(j) \/ HomepageSaves(j) \/ ToolReturns(j)
       PROVE  Moves
  <2>1. UNCHANGED req
    BY <1>10 DEF RunStep, RunOpen, RunMarkRunning, CheckpointFlags, RunFinishBlob,
       RunFinishRecord, RunMarkFailed, RunClose, DispatchReleases, CheckpointSaves,
       HomepageSaves, ToolReturns, ThreadOnly, TaskEnds
  <2>2. \A i \in Jobs : i # j =>
            /\ thread'[i] = thread[i] /\ (i \in accounts' <=> i \in accounts)
            /\ records'[i] = records[i]
    <3>1. \A i \in Jobs : i # j => thread'[i] = thread[i]
      BY <1>0, <1>10 DEF RunStep, RunOpen, RunMarkRunning, CheckpointFlags, RunFinishBlob,
         RunFinishRecord, RunMarkFailed, RunClose, DispatchReleases, CheckpointSaves,
         HomepageSaves, ToolReturns, StoreCall, TaskEnds, ApiTypeOK
    <3>2. accounts' \in {accounts, accounts \cup {j}, accounts \ {j}}
      BY <1>10 DEF RunStep, RunOpen, RunMarkRunning, CheckpointFlags, RunFinishBlob,
         RunFinishRecord, RunMarkFailed, RunClose, DispatchReleases, CheckpointSaves,
         HomepageSaves, ToolReturns, TaskEnds
    <3>3. \/ UNCHANGED records
          \/ SetStatus(j, "running") \/ SetStatus(j, "failed") \/ CheckpointRecord(j)
          \/ FinishRecord(j, "succeeded") \/ FinishRecord(j, "partial")
      BY <1>10 DEF RunStep, RunOpen, RunMarkRunning, CheckpointFlags, RunFinishBlob,
         RunFinishRecord, RunMarkFailed, RunClose, DispatchReleases, CheckpointSaves,
         HomepageSaves, ToolReturns, StoreCall, MarkRunning, MarkFailed, FinishBlob,
         CheckpointBlob, WriteSidecar, TaskEnds, storeVars
    <3>4. \A i \in Jobs : i # j => records'[i] = records[i]
      BY <1>0, <3>3 DEF SetStatus, CheckpointRecord, FinishRecord, StoreTypeOK
    <3> QED  BY <3>1, <3>2, <3>4
  <2>3. RunMoves(j) /\ StatusMoves(j)
    <3> USE <1>0 DEF ApiTypeOK, StoreTypeOK, InRun, InTool
    <3>1. CASE RunOpen(j)
      BY <3>1 DEF RunOpen, RunMoves, StatusMoves, storeVars
    <3>2. CASE RunMarkRunning(j)
      BY <3>2 DEF RunMarkRunning, StoreCall, MarkRunning, SetStatus, storeVars, RunMoves, StatusMoves
    <3>3. CASE CheckpointSaves(j)
      BY <3>3 DEF CheckpointSaves, StoreCall, CheckpointBlob, WriteSidecar, storeVars, RunMoves,
                  StatusMoves
    <3>4. CASE CheckpointFlags(j)
      BY <3>4 DEF CheckpointFlags, StoreCall, CheckpointRecord, storeVars, RunMoves, StatusMoves,
                  JobRecord
    <3>5. CASE HomepageSaves(j)
      BY <3>5 DEF HomepageSaves, WriteSidecar, RunMoves, StatusMoves
    <3>6. CASE ToolReturns(j)
      BY <3>6 DEF ToolReturns, storeVars, RunMoves, StatusMoves
    <3>7. CASE RunFinishBlob(j)
      BY <3>7 DEF RunFinishBlob, StoreCall, FinishBlob, WriteSidecar, storeVars, RunMoves,
                  StatusMoves
    <3>8. CASE RunFinishRecord(j)
      <4>1. PICK status \in {"succeeded", "partial"} :
                StoreCall(j, FinishRecord(j, status), "closing", "crashing")
        BY <3>8 DEF RunFinishRecord
      <4>2. CASE FinishRecord(j, status) /\ thread' = [thread EXCEPT ![j] = "closing"]
        <5>1. records'[j].status = status
          BY <4>2 DEF FinishRecord, JobRecord
        <5> QED  BY <3>8, <4>2, <5>1 DEF RunFinishRecord, RunMoves, StatusMoves, Terminal, Open
      <4>3. CASE thread' = [thread EXCEPT ![j] = "crashing"] /\ UNCHANGED storeVars
        BY <3>8, <4>3 DEF RunFinishRecord, storeVars, RunMoves, StatusMoves
      <4> QED  BY <4>1, <4>2, <4>3 DEF StoreCall
    <3>9. CASE RunMarkFailed(j)
      <4>1. CASE MarkFailed(j) /\ thread' = [thread EXCEPT ![j] = "closing"]
        <5>1. records'[j].status = "failed"
          BY <4>1 DEF MarkFailed, SetStatus, JobRecord
        <5> QED  BY <3>9, <4>1, <5>1 DEF RunMarkFailed, RunMoves, StatusMoves, Terminal, Open
      <4>2. CASE /\ UNCHANGED storeVars
                 /\ thread' = [thread EXCEPT ![j] = IF thread[j] = "failing" THEN "crashing"
                                                                             ELSE "raising"]
        <5>1. thread'[j] = "raising" /\ records'[j].status \in Open => j \in abandoned'
          BY <3>9, <4>2 DEF RunMarkFailed, Abandon, storeVars
        <5>2. thread'[j] \in {"crashing", "raising"} /\ thread[j] \in {"failing", "crashing"}
          BY <3>9, <4>2 DEF RunMarkFailed
        <5> QED  BY <3>9, <4>2, <5>1, <5>2 DEF RunMarkFailed, storeVars, RunMoves, StatusMoves
      <4> QED  BY <3>9, <4>1, <4>2 DEF RunMarkFailed, StoreCall
    <3>10. CASE RunClose(j)
      BY <3>10 DEF RunClose, storeVars, RunMoves, StatusMoves
    <3>11. CASE DispatchReleases(j)
      BY <3>11 DEF DispatchReleases, TaskEnds, storeVars, RunMoves, StatusMoves
    <3> QED  BY <1>10, <3>1, <3>2, <3>3, <3>4, <3>5, <3>6, <3>7, <3>8, <3>9, <3>10, <3>11
             DEF RunStep
  <2>4. M /\ S
    BY <2>2, <2>3 DEF RunMoves, StatusMoves
  <2> QED  BY <1>r, <2>1, <2>4
<1>11. ASSUME NEW j \in Jobs, NEW kind \in Attachments, Attach(j, kind)
       PROVE  Moves
  <2>1. S
    BY <1>11 DEF Attach, WriteSidecar, StatusMoves
  <2> QED  BY <1>a, <1>r, <1>11, <2>1 DEF Attach, apiVars
<1>12. CASE RecoverList \/ RecoverOne \/ RecoverEnds
  <2>1. UNCHANGED storeVars \/ \E j \in recovery.todo : MarkFailed(j)
    BY <1>12 DEF RecoverList, RecoverOne, RecoverEnds
  <2>2. S
    BY <1>0, <1>b, <2>1 DEF MarkFailed, SetStatus, StatusMoves, StoreTypeOK, Terminal, JobRecord
  <2> QED  BY <1>a, <1>r, <1>12, <2>2 DEF RecoverList, RecoverOne, RecoverEnds, RecoveryOnly, apiVars
<1>13. CASE Crash
  BY <1>9, <1>b, <1>13 DEF Crash
<1>14. CASE UNCHANGED vars
  BY <1>a, <1>b, <1>r, <1>14 DEF vars, storeVars
<1> QED
  <2> HIDE DEF Moves
  <2> QED
    BY <1>1, <1>2, <1>3, <1>4, <1>5, <1>6, <1>7, <1>8, <1>8a, <1>9a, <1>10, <1>11, <1>12, <1>13, <1>14
    DEF Next

\* A handler in the middle of a reparse is a reparse request.
ReparseOps == \A r \in Requests : req[r].at \in Reparsing => req[r].op = "reparse"

EndInv == BudgetCountsRunningCrawls /\ OpenJobHasAWriter /\ ReparseOps

\* A step that leaves the thread, the recovery and the reparse of an open job
\* alone leaves it the one who will end it.
LEMMA WriterStays ==
    ASSUME NEW j, HasWriter(j), UNCHANGED recovery, abandoned \subseteq abandoned',
           \/ thread'[j] = thread[j]
           \/ thread[j] \in {"closing", "raising", "ended", "raised"}
           \/ thread'[j] \in InRun \ {"closing", "raising"},
           \A r \in Requests :
              req[r].at \in {"reparse blob", "reparse record"} /\ req[r].job = j =>
                  req'[r].at \in {"reparse blob", "reparse record"} /\ req'[r].job = j
    PROVE  HasWriter(j)'
BY DEF HasWriter, InRun, InTool

\* No step takes the last one who would end an open job away from it.
LEMMA NextHasWriter ==
    ASSUME TypeOK, HandlersNameJobs, FreshIds, [Next]_vars,
           NEW j \in Jobs, records[j].status \in Open => HasWriter(j),
           records'[j].status \in Open
    PROVE  HasWriter(j)'
<1>0. ApiTypeOK /\ RestTypeOK /\ StoreTypeOK
  BY TypeOKParts
<1>0a. \A r \in Requests : req[r] \in Request
  BY <1>0 DEF RestTypeOK
<1>0b. \A r \in Requests : req[r].at \notin {"idle", "hash"} => req[r].job \in Jobs
  BY <1>0, MaxJobIdAssumption DEF HandlersNameJobs, StoreTypeOK, Jobs
<1> DEFINE Kept(r) == req[r].at \in {"reparse blob", "reparse record"} /\ req[r].job = j =>
                          req'[r].at \in {"reparse blob", "reparse record"} /\ req'[r].job = j
           StillOpen == records[j].status \in Open
<1>k. ASSUME StillOpen, UNCHANGED <<recovery, abandoned>>, thread'[j] = thread[j],
             \A r \in Requests : Kept(r)
      PROVE  HasWriter(j)'
  BY <1>k, WriterStays
<1>r. UNCHANGED req => \A r \in Requests : Kept(r)
  OBVIOUS
<1>q. ASSUME NEW r \in Requests, req[r].at \notin {"reparse blob", "reparse record"},
             NEW q, req' = [req EXCEPT ![r] = q]
      PROVE  \A p \in Requests : Kept(p)
  BY <1>0, <1>q DEF RestTypeOK
<1>c. ASSUME NEW f, NEW l, NEW t, Create(f, l, t)
      PROVE  j = nextId \/ StillOpen
  BY <1>0, <1>c DEF Create, StoreTypeOK
<1>s. ASSUME NEW f, NEW l, NEW t, Start(f, l, t), UNCHANGED <<recovery, abandoned>>,
             \A r \in Requests : Kept(r)
      PROVE  HasWriter(j)'
  <2>1. CASE StartJob(f, l, t)
    <3>1. CASE j = nextId
      <4>1. thread'[j] = "submitted"
        BY <1>0, <2>1, <3>1 DEF StartJob, ApiTypeOK
      <4> QED  BY <4>1 DEF HasWriter
    <3>2. CASE j # nextId
      <4>1. thread'[j] = thread[j] /\ StillOpen
        BY <1>0, <1>c, <2>1, <3>2 DEF StartJob, ApiTypeOK
      <4> QED  BY <1>k, <1>s, <4>1
    <3> QED  BY <3>1, <3>2
  <2>2. CASE UNCHANGED <<storeVars, thread>>
    BY <1>k, <1>s, <2>2 DEF storeVars
  <2> QED  BY <1>s, <2>1, <2>2 DEF Start, StartFails, StartRefused, apiVars
<1>1. ASSUME NEW r \in Requests, NEW k \in Keys \cup {NoKey}, NEW l \in NewJobLocks,
             NEW f \in Facets, CreateJob(r, k, l, f)
      PROVE  HasWriter(j)'
  <2>1. \A p \in Requests : Kept(p)
    <3>1. req[r].at = "idle" /\ (UNCHANGED req \/ \E q : req' = [req EXCEPT ![r] = q])
      BY <1>1 DEF CreateJob
    <3> QED  BY <1>q, <1>r, <3>1
  <2>2. UNCHANGED <<recovery, abandoned>>
    BY <1>1 DEF CreateJob
  <2>3. Start(f, l, "classifier") \/ UNCHANGED <<storeVars, thread>>
    BY <1>1 DEF CreateJob, apiVars
  <2> QED  BY <1>k, <1>s, <2>1, <2>2, <2>3 DEF storeVars
<1>2. ASSUME NEW f \in SFFacets, CreateSFJob(f)
      PROVE  HasWriter(j)'
  BY <1>s, <1>r, <1>2 DEF CreateSFJob
<1>3. ASSUME NEW r \in Requests, NEW op \in Operations, NEW i \in Jobs, ReadRecord(r, op, i)
      PROVE  HasWriter(j)'
  <2>1. \A p \in Requests : Kept(p)
    BY <1>q, <1>3 DEF ReadRecord
  <2> QED  BY <1>k, <1>3, <2>1 DEF ReadRecord, storeVars, apiVars
<1>4. ASSUME NEW r \in Requests, CreateJobHashed(r)
      PROVE  HasWriter(j)'
  <2>1. \A p \in Requests : Kept(p)
    BY <1>q, <1>4 DEF CreateJobHashed
  <2> QED  BY <1>s, <1>4, <2>1 DEF CreateJobHashed
<1>5. ASSUME NEW r \in Requests, GatePasses(r) \/ GateCountsFailure(r) \/ GateRefuses(r)
      PROVE  HasWriter(j)'
  <2>1. req[r].at = "gate" /\ \E q : req' = [req EXCEPT ![r] = q]
    BY <1>5 DEF GatePasses, GateCountsFailure, GateRefuses
  <2>2. \A p \in Requests : Kept(p)
    BY <1>q, <2>1
  <2>3. records' = records
    BY <1>5 DEF GatePasses, GateCountsFailure, GateRefuses, ClearDeleteLockout,
                RecordFailedDelete, storeVars
  <2> QED  BY <1>k, <1>5, <2>2, <2>3
           DEF GatePasses, GateCountsFailure, GateRefuses, GateOnly, apiVars
<1>6. ASSUME NEW r \in Requests, CancelJob(r) \/ DeleteJob(r) \/ RetryJob(r) \/ ResumeJob(r)
      PROVE  HasWriter(j)'
  <2>1. \A p \in Requests : Kept(p)
    BY <1>q, <1>6 DEF CancelJob, DeleteJob, RetryJob, ResumeJob, Acts, Answers
  <2>2. UNCHANGED <<recovery, abandoned>>
    BY <1>6 DEF CancelJob, DeleteJob, RetryJob, ResumeJob, Acts
  <2>3. req[r].job \in Jobs
    BY <1>0b, <1>6 DEF CancelJob, DeleteJob, RetryJob, ResumeJob, Acts
  <2>4. CASE CancelJob(r)
    <3>1. UNCHANGED thread /\ (MarkFailed(req[r].job) \/ UNCHANGED storeVars)
      BY <2>4 DEF CancelJob, StopCrawl, apiVars, storeVars
    <3>2. StillOpen
      BY <1>0, <2>3, <3>1 DEF MarkFailed, SetStatus, storeVars, StoreTypeOK, JobRecord, Open
    <3> QED  BY <1>k, <2>1, <2>2, <3>1, <3>2
  <2>5. CASE DeleteJob(r)
    <3>1. UNCHANGED thread /\ (Delete(req[r].job) \/ UNCHANGED storeVars)
      BY <2>5 DEF DeleteJob, StopCrawl, apiVars
    <3>2. StillOpen
      BY <1>0, <2>3, <3>1 DEF Delete, NoRecord, storeVars, StoreTypeOK, Open
    <3> QED  BY <1>k, <2>1, <2>2, <3>1, <3>2
  <2>6. CASE Start(req[r].facet, req[r].lock, "classifier") \/ UNCHANGED <<storeVars, apiVars>>
    BY <1>k, <1>s, <2>1, <2>2, <2>6 DEF storeVars, apiVars
  <2> QED  BY <1>6, <2>4, <2>5, <2>6 DEF RetryJob, ResumeJob
<1>7. ASSUME NEW r \in Requests, ReparseCreates(r)
      PROVE  HasWriter(j)'
  <2>1. req[r].at = "admitted" /\ UNCHANGED <<thread, recovery, abandoned>>
    BY <1>7 DEF ReparseCreates, Acts, apiVars
  <2>2. \A p \in Requests : Kept(p)
    BY <1>0, <1>7, <2>1 DEF ReparseCreates, Answers, RestTypeOK
  <2>3. CASE StillOpen
    BY <1>k, <2>1, <2>2, <2>3
  <2>4. CASE ~StillOpen
    <3>1. j = nextId /\ req'[r].at = "reparse blob" /\ req'[r].job = nextId
      BY <1>0, <1>c, <1>7, <2>4, ReparseCreatesJob DEF RestTypeOK, storeVars
    <3> QED  BY <3>1 DEF HasWriter
  <2> QED  BY <2>3, <2>4
<1>8. ASSUME NEW r \in Requests, ReparseStores(r)
      PROVE  HasWriter(j)'
  <2>1. UNCHANGED <<thread, recovery, abandoned>> /\ req[r].job \in Jobs
    BY <1>0b, <1>8 DEF ReparseStores, apiVars
  <2>2. req \in [Requests -> Request] /\ records \in [Jobs -> JobRecord]
    BY <1>0 DEF RestTypeOK, StoreTypeOK
  <2>3. \A p \in Requests : p # r => Kept(p)
    BY <1>8, <2>2, ReparseStoresJob
  <2>4. CASE /\ req[r].at = "reparse blob" /\ FinishBlob(req[r].job)
             /\ req'[r].at = "reparse record" /\ req'[r].job = req[r].job
    <3>1. StillOpen
      BY <2>4 DEF FinishBlob, WriteSidecar
    <3> QED  BY <1>k, <2>1, <2>3, <2>4, <3>1
  <2>5. CASE req[r].at = "reparse record" /\ FinishRecord(req[r].job, "succeeded")
    <3>1. records'[req[r].job].status = "succeeded"
          /\ \A i \in Jobs : i # req[r].job => records'[i] = records[i]
      BY <2>1, <2>2, <2>5 DEF FinishRecord, JobRecord
    <3>2. req[r].job # j /\ StillOpen
      BY <3>1 DEF Open
    <3> QED  BY <1>k, <2>1, <2>3, <3>2
  <2>6. CASE req[r].at = "reparse homepage" /\ UNCHANGED records
    BY <1>k, <2>1, <2>3, <2>6
  <2> QED  BY <1>8, <2>2, <2>4, <2>5, <2>6, ReparseStoresJob
<1>9. ASSUME NEW r \in Requests, ReparseRaises(r)
      PROVE  HasWriter(j)'
  <2>1. StillOpen /\ UNCHANGED <<thread, recovery>> /\ abandoned \subseteq abandoned'
    BY <1>9 DEF ReparseRaises, Abandon, storeVars, apiVars
  <2>2. \A p \in Requests : p # r => Kept(p)
    BY <1>0, <1>9 DEF ReparseRaises, Answers, RestTypeOK
  <2>3. CASE req[r].job = j
    BY <1>9, <2>1, <2>3 DEF ReparseRaises, Abandon, HasWriter
  <2>4. CASE req[r].job # j
    BY <2>1, <2>2, <2>4, WriterStays
  <2> QED  BY <2>3, <2>4
<1>10. CASE Restart
  BY <1>10 DEF Restart, HasWriter
<1>11. ASSUME NEW i \in Jobs, RunStep(i) \/ CheckpointSaves(i) \/ HomepageSaves(i) \/ ToolReturns(i)
       PROVE  HasWriter(j)'
  <2>1. UNCHANGED <<req, recovery, nextId>> /\ abandoned \subseteq abandoned'
    BY <1>0, <1>11 DEF RunStep, RunOpen, RunMarkRunning, CheckpointFlags, RunFinishBlob,
       RunFinishRecord, RunMarkFailed, RunClose, DispatchReleases, CheckpointSaves,
       HomepageSaves, ToolReturns, ThreadOnly, StoreCall, Abandon, TaskEnds, MarkRunning,
       MarkFailed, SetStatus, FinishBlob, FinishRecord, CheckpointBlob, CheckpointRecord,
       WriteSidecar, storeVars
  <2>2. thread'[j] = "none" => thread[j] \in {"none", "ended", "raised"}
    BY <1>0, <1>11 DEF RunStep, RunOpen, RunMarkRunning, CheckpointFlags, RunFinishBlob,
       RunFinishRecord, RunMarkFailed, RunClose, DispatchReleases, CheckpointSaves,
       HomepageSaves, ToolReturns, StoreCall, TaskEnds, ApiTypeOK
  <2>3. RunMoves(j) /\ StatusMoves(j)
    BY NextRunMoves
  <2>4. nextId' # nextId + 1
    BY <1>0, <2>1, MaxJobIdAssumption DEF StoreTypeOK
  <2>5. StillOpen \/ thread[j] = "opened"
    BY <2>3, <2>4 DEF StatusMoves, Open, Terminal
  <2>6. CASE thread'[j] \in (InRun \cup {"submitted"}) \ {"closing", "raising"} \/ j \in abandoned'
    BY <2>6 DEF HasWriter
  <2>7. CASE StillOpen /\ (thread'[j] = thread[j]
                            \/ thread[j] \in {"closing", "raising", "ended", "raised"})
    BY <1>r, <2>1, <2>7, WriterStays
  <2>8. \/ thread'[j] \in (InRun \cup {"submitted"}) \ {"closing", "raising"}
        \/ j \in abandoned'
        \/ StillOpen /\ (thread'[j] = thread[j]
                           \/ thread[j] \in {"closing", "raising", "ended", "raised"})
    BY <2>2, <2>3, <2>4, <2>5 DEF RunMoves, InRun, InTool
  <2> QED  BY <2>6, <2>7, <2>8
<1>12. ASSUME NEW i \in Jobs, NEW kind \in Attachments, Attach(i, kind)
       PROVE  HasWriter(j)'
  BY <1>k, <1>r, <1>12 DEF Attach, WriteSidecar, apiVars
<1>13. CASE RecoverList
  <2>1. StillOpen /\ UNCHANGED <<thread, req, abandoned>>
        /\ recovery.at = "listing" /\ j \in recovery'.todo
    BY <1>13 DEF RecoverList, RecoveryOnly, storeVars, apiVars
  <2> QED  BY <2>1 DEF HasWriter
<1>14. CASE RecoverOne
  <2>1. UNCHANGED <<thread, req>> /\ recovery.at = "failing" /\ abandoned \subseteq abandoned'
    BY <1>14 DEF RecoverOne, RecoveryOnly, Abandon, apiVars
  <2>2. PICK i \in recovery.todo :
            \/ MarkFailed(i) /\ recovery' = [recovery EXCEPT !.todo = @ \ {i}]
            \/ Abandon(recovery.todo) /\ UNCHANGED storeVars
    BY <1>14 DEF RecoverOne
  <2>3. i \in Jobs
    BY <1>0 DEF RestTypeOK
  <2>4. CASE MarkFailed(i) /\ recovery' = [recovery EXCEPT !.todo = @ \ {i}]
    <3>1. StillOpen /\ j # i
      BY <1>0, <2>3, <2>4 DEF MarkFailed, SetStatus, StoreTypeOK, JobRecord, Open
    <3>2. j \in recovery.todo => j \in recovery'.todo
      BY <1>0, <2>4, <3>1 DEF RestTypeOK
    <3> QED  BY <2>1, <3>1, <3>2 DEF HasWriter
  <2>5. CASE Abandon(recovery.todo) /\ UNCHANGED storeVars
    BY <2>1, <2>5 DEF HasWriter, Abandon, storeVars
  <2> QED  BY <2>2, <2>4, <2>5
<1>15. CASE RecoverEnds
  BY <1>15 DEF RecoverEnds, RecoveryOnly, HasWriter, storeVars, apiVars
<1>16. CASE UNCHANGED vars
  BY <1>k, <1>r, <1>16 DEF vars
<1> QED
  BY <1>1, <1>2, <1>3, <1>4, <1>5, <1>6, <1>7, <1>8, <1>9, <1>10, <1>11, <1>12, <1>13, <1>14,
     <1>15, <1>16 DEF Next, Crash, CrashInDelete
\* The accounts, the ends of the runs and the reparses are inductive, given
\* that an id that is not minted has no record and no thread: the new job
\* that a step may start is not one of those the conjuncts speak of.
LEMMA EndInvStep ==
    ASSUME TypeOK, StoreInv, EndInv, [Next]_vars
    PROVE  EndInv'
<1>0. ApiTypeOK /\ RestTypeOK /\ StoreTypeOK
      /\ HandlersNameJobs /\ FreshIds
      /\ BudgetCountsRunningCrawls /\ OpenJobHasAWriter /\ ReparseOps
  BY TypeOKParts DEF StoreInv, EndInv
<1>0a. nextId \in Nat /\ \A j \in Jobs : j \in Nat
  BY <1>0, MaxJobIdAssumption DEF StoreTypeOK, Jobs
<1>1. (\A j \in Jobs : RunMoves(j) /\ StatusMoves(j)) /\ (\A r \in Requests : HandlerOp(r))
  BY NextRunMoves
<1>2. KeepsFiles
  BY <1>0, NextIsStoreStep, StoreStepKeepsFiles
<1>3. \A j \in Jobs : DispatchMoves(j)
  BY NextSlotMoves
<1>4. \A j \in Jobs : thread[j] # "none" => j # nextId
  BY <1>0, <1>0a DEF FreshIds
<1>5. accounts' \subseteq Jobs
  BY NextTyping, <1>0 DEF TypeOK
<1>6. BudgetCountsRunningCrawls'
  <2>1. SUFFICES ASSUME NEW j \in Jobs
                 PROVE  j \in accounts' <=> thread'[j] \in InRun /\ j \in classifiers'
    BY <1>5 DEF BudgetCountsRunningCrawls, IsCrawl
  <2>2. j \in accounts <=> thread[j] \in InRun /\ j \in classifiers
    BY <1>0 DEF BudgetCountsRunningCrawls, IsCrawl
  <2>3. thread[j] \in Live /\ thread'[j] \in Live => (j \in classifiers' <=> j \in classifiers)
    BY <1>3, <1>4 DEF DispatchMoves, Live, InRun, InTool
  <2> QED  BY <1>1, <1>4, <2>2, <2>3 DEF RunMoves, IsCrawl, Live, InRun, InTool
<1>7. OpenJobHasAWriter'
  BY <1>0, NextHasWriter DEF OpenJobHasAWriter
<1>8. ReparseOps'
  BY <1>0, <1>1 DEF ReparseOps, HandlerOp
<1> QED  BY <1>6, <1>7, <1>8 DEF EndInv

-----------------------------------------------------------------------------
(* Idempotency keys.                                                       *)

\* The key k is given to another job only when its own is gone, or by a
\* create_job that checked k before it awaited a password hash.
KeyMoves(k) ==
    registry[k] # NoJob /\ registry'[k] \notin {NoJob, registry[k]} =>
        ~Exists(registry[k]) \/ \E r \in Requests : req[r].at = "hash" /\ req[r].key = k

\* A handler waits for a hash only when jobs may carry a password.
HashMoves(r) == req'[r].at = "hash" => req[r].at = "hash" \/ "password" \in NewJobLocks

LEMMA NextKeyMoves ==
    ASSUME TypeOK, [Next]_vars
    PROVE  (\A k \in Keys : KeyMoves(k)) /\ (\A r \in Requests : HashMoves(r))
<1>0. RestTypeOK /\ \A r \in Requests : req[r] \in Request
  BY TypeOKParts DEF RestTypeOK
<1> DEFINE K == \A k \in Keys : KeyMoves(k)
           H == \A r \in Requests : HashMoves(r)
<1> SUFFICES K /\ H
  OBVIOUS
<1>k. UNCHANGED registry => K
  BY DEF KeyMoves
<1>r. UNCHANGED req => H
  BY DEF HashMoves
<1>i. ASSUME NEW r \in Requests,
             \/ req' = [req EXCEPT ![r] = Idle]
             \/ \E at \in {"gate", "admitted", "reparse blob", "reparse record", "reparse homepage"} :
                   req'[r].at = at /\ \A q \in Requests : q # r => req'[q] = req[q]
      PROVE  H
  <2>1. CASE req' = [req EXCEPT ![r] = Idle]
    BY <1>0, <2>1 DEF HashMoves, Idle, RestTypeOK
  <2>2. CASE req'[r].at # "hash" /\ \A q \in Requests : q # r => req'[q] = req[q]
    BY <2>2 DEF HashMoves
  <2> QED  BY <1>i, <2>1, <2>2
<1>1. ASSUME NEW r \in Requests, NEW k \in Keys \cup {NoKey}, NEW l \in NewJobLocks,
             NEW f \in Facets, CreateJob(r, k, l, f)
      PROVE  K /\ H
  <2>1. \A h \in Keys : registry'[h] = registry[h] \/ h = k
    BY <1>0, <1>1 DEF CreateJob, StoreKey, Unclaimed, RestTypeOK
  <2>2. k \in Keys => registry[k] = NoJob \/ ~Exists(registry[k]) \/ k = NoKey
    BY <1>1 DEF CreateJob, KnownKey
  <2>3. k = NoKey => registry' = Unclaimed(k)
    BY <1>1 DEF CreateJob, StoreKey
  <2>4. K
    BY <2>1, <2>2, <2>3 DEF KeyMoves, Unclaimed
  <2>5. H
    <3>1. l # "password" => UNCHANGED req
      BY <1>1 DEF CreateJob
    <3>2. \A q \in Requests : q # r => req'[q] = req[q]
      BY <1>0, <1>1 DEF CreateJob, RestTypeOK
    <3> QED  BY <1>r, <3>1, <3>2 DEF HashMoves
  <2> QED  BY <2>4, <2>5
<1>2. ASSUME NEW f \in SFFacets, CreateSFJob(f)
      PROVE  K /\ H
  BY <1>k, <1>r, <1>2 DEF CreateSFJob
<1>3. ASSUME NEW r \in Requests, NEW op \in Operations, NEW j \in Jobs, ReadRecord(r, op, j)
      PROVE  K /\ H
  <2>1. req'[r].at = "gate" /\ \A q \in Requests : q # r => req'[q] = req[q]
    BY <1>0, <1>3 DEF ReadRecord, RestTypeOK, Idle
  <2> QED  BY <1>i, <1>k, <1>3, <2>1 DEF ReadRecord
<1>4. ASSUME NEW r \in Requests, CreateJobHashed(r)
      PROVE  K /\ H
  <2>1. req[r].at = "hash" /\ \A h \in Keys : registry'[h] = registry[h] \/ h = req[r].key
    BY <1>0, <1>4 DEF CreateJobHashed, StoreKey, RestTypeOK
  <2>2. K
    BY <2>1 DEF KeyMoves
  <2> QED  BY <1>i, <1>4, <2>2 DEF CreateJobHashed
<1>5. ASSUME NEW r \in Requests, GatePasses(r) \/ GateCountsFailure(r) \/ GateRefuses(r)
      PROVE  K /\ H
  <2>1. \/ req' = [req EXCEPT ![r] = Idle]
        \/ req'[r].at = "admitted" /\ \A q \in Requests : q # r => req'[q] = req[q]
    <3>1. CASE req' = [req EXCEPT ![r].at = "admitted"]
      BY <1>0, <3>1 DEF RestTypeOK, Request
    <3> QED  BY <1>5, <3>1 DEF GatePasses, GateCountsFailure, GateRefuses
  <2> QED  BY <1>i, <1>k, <1>5, <2>1 DEF GatePasses, GateCountsFailure, GateRefuses, GateOnly
<1>6. ASSUME NEW r \in Requests, CancelJob(r) \/ DeleteJob(r) \/ RetryJob(r) \/ ResumeJob(r)
      PROVE  K /\ H
  BY <1>i, <1>k, <1>6 DEF CancelJob, DeleteJob, RetryJob, ResumeJob, Acts, Answers
<1>7. ASSUME NEW r \in Requests, ReparseCreates(r)
      PROVE  K /\ H
  <2>1. \/ req' = [req EXCEPT ![r] = Idle]
        \/ req'[r].at = "reparse blob" /\ \A q \in Requests : q # r => req'[q] = req[q]
    BY <1>0, <1>7, ReparseCreatesJob DEF Answers, RestTypeOK
  <2> QED  BY <1>i, <1>k, <1>7, <2>1 DEF ReparseCreates, Acts
<1>8. ASSUME NEW r \in Requests, ReparseStores(r)
      PROVE  K /\ H
  <2>1. \/ req' = [req EXCEPT ![r] = Idle]
        \/ \E at \in {"reparse record", "reparse homepage"} : req' = [req EXCEPT ![r].at = at]
    BY <1>8 DEF ReparseStores, Answers
  <2>2. \/ req' = [req EXCEPT ![r] = Idle]
        \/ \E at \in {"reparse record", "reparse homepage"} :
              req'[r].at = at /\ \A q \in Requests : q # r => req'[q] = req[q]
    <3>1. ASSUME NEW at \in {"reparse record", "reparse homepage"}, req' = [req EXCEPT ![r].at = at]
          PROVE  req'[r].at = at /\ \A q \in Requests : q # r => req'[q] = req[q]
      BY <1>0, <3>1 DEF RestTypeOK, Request
    <3> QED  BY <2>1, <3>1
  <2> QED  BY <1>i, <1>k, <1>8, <2>2 DEF ReparseStores
<1>8a. ASSUME NEW r \in Requests, ReparseRaises(r)
       PROVE  K /\ H
  BY <1>i, <1>k, <1>8a DEF ReparseRaises, Answers
<1>9. CASE Restart
  BY <1>9 DEF Restart, KeyMoves, HashMoves, Idle
<1>10. ASSUME NEW j \in Jobs, RunStep(j) \/ CheckpointSaves(j) \/ HomepageSaves(j) \/ ToolReturns(j)
       PROVE  K /\ H
  <2>1. UNCHANGED <<req, registry>>
    BY <1>10 DEF RunStep, RunOpen, RunMarkRunning, CheckpointFlags, RunFinishBlob,
       RunFinishRecord, RunMarkFailed, RunClose, DispatchReleases, CheckpointSaves,
       HomepageSaves, ToolReturns, ThreadOnly, TaskEnds
  <2> QED  BY <1>k, <1>r, <2>1
<1>11. ASSUME NEW j \in Jobs, NEW kind \in Attachments, Attach(j, kind)
       PROVE  K /\ H
  BY <1>k, <1>r, <1>11 DEF Attach
<1>12. CASE RecoverList \/ RecoverOne \/ RecoverEnds
  BY <1>k, <1>r, <1>12 DEF RecoverList, RecoverOne, RecoverEnds, RecoveryOnly
<1>13. CASE UNCHANGED vars
  BY <1>k, <1>r, <1>13 DEF vars
<1> QED
  BY <1>1, <1>2, <1>3, <1>4, <1>5, <1>6, <1>7, <1>8, <1>8a, <1>9, <1>10, <1>11, <1>12, <1>13
  DEF Next, Crash, CrashInDelete

-----------------------------------------------------------------------------
(* The theorems.                                                           *)

Inv == TypeOK /\ StoreInv /\ SlotInv /\ EndInv

\* A fresh process over an empty directory satisfies the invariants.
LEMMA InitInv == Init => Inv
<1> SUFFICES ASSUME Init PROVE Inv
  OBVIOUS
<1>1. TypeOK
  BY InitTyping
<1>2. /\ \A j \in Jobs : records[j] = NoRecord /\ sidecars[j] = {} /\ thread[j] = "none"
      /\ \A r \in Requests : req[r].at = "idle"
      /\ slots = NoSlots
  BY DEF Init, StoreInit, Idle
<1>2a. \A j \in Jobs : ~Exists(j)
  BY <1>2 DEF Exists, NoRecord
<1>2b. HandlersNameJobs /\ FreshIds
  BY <1>2 DEF HandlersNameJobs, FreshIds
<1>2c. BlobBeforeRecord
  BY <1>2, <1>2a DEF BlobBeforeRecord
<1>2d. AdvertisedIsOnDisk
  BY <1>2 DEF AdvertisedIsOnDisk, NoRecord
<1>3. StoreInv
  BY <1>2b, <1>2c, <1>2d DEF StoreInv
<1>4. "none" \notin Live
  BY DEF Live, InRun, InTool
<1>5. SlotBookkeeping
  BY <1>2, FS_EmptySet, MaxConcurrentAssumption, FacetMaxAssumption
  DEF SlotBookkeeping, SlotsConsistent, WithinLimits, NoSlots
<1>6. SlotInv
  BY <1>2, <1>4, <1>5 DEF SlotInv, EverySlotHasADispatch, EvictedCrawlIsCancelled, FacetsAgree,
                          NoSlots
<1>7. BudgetCountsRunningCrawls
  BY DEF Init, BudgetCountsRunningCrawls, InRun, InTool
<1>8. OpenJobHasAWriter
  BY <1>2 DEF NoRecord, Open, OpenJobHasAWriter
<1>9. ReparseOps
  BY <1>2 DEF ReparseOps, Reparsing
<1> QED  BY <1>1, <1>3, <1>6, <1>7, <1>8, <1>9 DEF Inv, EndInv

\* Every step of the process keeps them.
LEMMA NextInv == Inv /\ [Next]_vars => Inv'
<1> SUFFICES ASSUME Inv, [Next]_vars PROVE Inv'
  OBVIOUS
<1>1. TypeOK /\ StoreInv /\ SlotInv /\ EndInv /\ HandlersNameJobs
  BY DEF Inv, StoreInv
<1>2. TypeOK'
  BY <1>1, NextTyping
<1>3. StoreInv'
  BY <1>1, StoreInvStep
<1>4. SlotInv'
  BY <1>1, SlotInvStep
<1>5. EndInv'
  BY <1>1, EndInvStep
<1> QED  BY <1>2, <1>3, <1>4, <1>5 DEF Inv

\* The inductive invariant of the whole process.
LEMMA AlwaysInv == Spec => []Inv
<1>1. Init => Inv
  BY InitInv
<1>2. Inv /\ [Next]_vars => Inv'
  BY NextInv
<1> QED  BY <1>1, <1>2, PTL DEF Spec

\* Every variable keeps its type: no handler, thread or recovery step of
\* server.py leaves the store, the registries or the requests ill-formed.
THEOREM TypeCorrect == Spec => []TypeOK
<1>1. Inv => TypeOK
  BY DEF Inv
<1> QED  BY <1>1, AlwaysInv, PTL

\* A record never advertises a sidecar that is not on disk, whatever crawl,
\* delete, reparse, recovery or crash falls between the two lock regions of
\* finish and write_checkpoint.
THEOREM AdvertisedAlwaysOnDisk == Spec => []AdvertisedIsOnDisk
<1>1. Inv => AdvertisedIsOnDisk
  BY DEF Inv, StoreInv
<1> QED  BY <1>1, AlwaysInv, PTL

\* _active, _facet_active and _cancel_flags agree and no limit is exceeded,
\* whatever _start, cancel_job, delete_job and _dispatch do to them.
THEOREM SlotsAlwaysConsistent == Spec => []SlotBookkeeping
<1>1. Inv => SlotBookkeeping
  BY DEF Inv, SlotInv
<1> QED  BY <1>1, AlwaysInv, PTL

\* No slot leaks: whoever holds one has a _dispatch that will release it
\* under the facet it is held under.
THEOREM NoSlotLeaks == Spec => []EverySlotHasADispatch
<1>1. Inv => EverySlotHasADispatch
  BY DEF Inv, SlotInv
<1> QED  BY <1>1, AlwaysInv, PTL

\* A crawl whose slot was given away while it runs has its cancel event set.
THEOREM EvictedAlwaysCancelled == Spec => []EvictedCrawlIsCancelled
<1>1. Inv => EvictedCrawlIsCancelled
  BY DEF Inv, SlotInv
<1> QED  BY <1>1, AlwaysInv, PTL

\* A step of the process never brings a deleted job back, and leaves no new
\* sidecar of it behind but the wrong-password history: every other writer
\* of state_store.py reads the record under the lock it writes under.
THEOREM DeletedJobsStayDeleted == Spec => DeletedStaysDeleted
<1> DEFINE A == \A j \in Jobs :
                   j < nextId /\ ~Exists(j) =>
                       /\ ~Exists(j)'
                       /\ sidecars'[j] \subseteq sidecars[j] \cup {"delete_lockout"}
<1>1. ASSUME Inv, [Next]_vars
      PROVE  A
  <2>1. TypeOK /\ StoreTypeOK /\ HandlersNameJobs /\ FreshIds
    BY <1>1, TypeOKParts DEF Inv, StoreInv
  <2>2. KeepsFiles
    BY <1>1, <2>1, NextIsStoreStep, StoreStepKeepsFiles
  <2>3. nextId \in Nat /\ \A j \in Jobs : j \in Nat
    BY <2>1, MaxJobIdAssumption DEF StoreTypeOK, Jobs
  <2> QED  BY <2>2, <2>3 DEF KeepsFiles, Exists
<1>2. Inv /\ [Next]_vars => [A]_vars
  <2> HIDE DEF A
  <2> QED  BY <1>1
<1>3. Spec => [][A]_vars
  <2> HIDE DEF A
  <2> QED  BY <1>2, AlwaysInv, PTL DEF Spec
<1> QED  BY <1>3 DEF DeletedStaysDeleted

\* The page-HTML budget counts exactly the crawls whose thread is inside
\* _run_job: an account is opened once, and the finally clause closes it on
\* every path out, cancelled, failed and raising runs included.
THEOREM BudgetAlwaysCounts == Spec => []BudgetCountsRunningCrawls
<1>1. Inv => BudgetCountsRunningCrawls
  BY DEF Inv, EndInv
<1> QED  BY <1>1, AlwaysInv, PTL

\* An open job always has a thread before its closing code, a reparse or a
\* recovery that still owes it an end, unless the one that owed it raised:
\* neither a delete, a cancel, a crash nor a failing write in any other place
\* leaves a job open for ever.
THEOREM OpenJobsHaveAWriter == Spec => []OpenJobHasAWriter
<1>1. Inv => OpenJobHasAWriter
  BY DEF Inv, EndInv
<1> QED  BY <1>1, AlwaysInv, PTL

\* A status a poller saw as terminal does not change again, unless one of
\* the four actors Unsettled names is still to write: no path of server.py
\* outside them writes the status of a job that exists.
THEOREM SettledJobsKeepTheirStatus == Spec => SettledJobKeepsItsStatus
<1> DEFINE A == \A j \in Jobs :
                   records[j].status \in Terminal /\ ~Unsettled(j) =>
                       records'[j].status \in {records[j].status, "absent"}
<1>1. ASSUME Inv, [Next]_vars
      PROVE  A
  <2>1. TypeOK /\ StoreTypeOK /\ FreshIds /\ ReparseOps
    BY <1>1, TypeOKParts DEF Inv, StoreInv, EndInv
  <2>2. \A j \in Jobs : StatusMoves(j)
    BY <1>1, <2>1, NextRunMoves
  <2>3. SUFFICES ASSUME NEW j \in Jobs, records[j].status \in Terminal, ~Unsettled(j)
                 PROVE  records'[j].status \in {records[j].status, "absent"}
    OBVIOUS
  <2>4. j # nextId
    BY <2>1, <2>3, MaxJobIdAssumption DEF FreshIds, NoRecord, Terminal, StoreTypeOK, Jobs
  <2>5. thread[j] \notin InRun /\ j \notin recovery.todo
    BY <2>3 DEF Unsettled, Live
  <2>6. ~\E r \in Requests : req[r].at \in Reparsing /\ req[r].job = j
    BY <2>1, <2>3 DEF Unsettled, ReparseOps, LoopFree, Reparsing
  <2> QED  BY <2>2, <2>3, <2>4, <2>5, <2>6 DEF StatusMoves, Unsettled
<1>2. Inv /\ [Next]_vars => [A]_vars
  <2> HIDE DEF A
  <2> QED  BY <1>1
<1>3. Spec => [][A]_vars
  <2> HIDE DEF A
  <2> QED  BY <1>2, AlwaysInv, PTL DEF Spec
<1> QED  BY <1>3 DEF SettledJobKeepsItsStatus

\* A key is taken from a job that exists only by a create_job that had
\* passed its key check before it awaited the hash of a password: the await
\* between _check_idempotency_key and _store_idempotency_key is the only
\* window, for every number of requests.
THEOREM KeysMoveOnlyAcrossAHash ==
    Spec => [][\A k \in Keys : KeyMoves(k)]_vars
<1> DEFINE A == \A k \in Keys : KeyMoves(k)
<1>1. Inv /\ [Next]_vars => [A]_vars
  BY NextKeyMoves DEF Inv
<1>2. Spec => [][A]_vars
  <2> HIDE DEF A
  <2> QED  BY <1>1, AlwaysInv, PTL DEF Spec
<1> QED  BY <1>2
=============================================================================
