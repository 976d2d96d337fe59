---------------------------- MODULE DiskJobStore ----------------------------
(***************************************************************************)
(* The disk job store (core/state_store.py, DiskJobStore).                 *)
(*                                                                         *)
(* A job is a record file <id>.json and sidecar files <id>.<kind>.json.    *)
(* Every method body under the store's lock is atomic; a method with two   *)
(* lock regions (finish, write_checkpoint) is two operators here, and the  *)
(* callers take them as two steps.  Job ids are uuids; they are numbered   *)
(* here in the order they are minted, which is also the created_at order.  *)
(* An operator is a call that succeeds.  A call whose file cannot be       *)
(* written raises and leaves the file it had (_atomic_write): the caller   *)
(* says what becomes of it.                                                *)
(* Telemetry, timestamps and error texts are left out.                     *)
(***************************************************************************)
EXTENDS FacetRouter

CONSTANTS
    MaxJobId,       \* bound: how many job ids are ever minted
    Attachments     \* sidecars other endpoints attach to an existing job

VARIABLES
    records,        \* the record file of each id, or NoRecord
    sidecars,       \* the kinds of sidecar file present for each id
    nextId          \* the next id to mint

ASSUME MaxJobIdAssumption == MaxJobId \in Nat

storeVars == <<records, sidecars, nextId>>

Jobs == 1 .. MaxJobId

Open == {"queued", "running"}
Terminal == {"succeeded", "partial", "failed"}

\* `has` are the sidecars the record advertises: has_result, has_checkpoint.
\* `lock` says whether the record carries a password_hash, `tool` which tool
\* the job runs: the page classifier, or Screaming Frog.
Locks == {"none", "password"}
Tools == {"classifier", "frog"}
JobRecord ==
    [status : Open \cup Terminal \cup {"absent"},
     has    : SUBSET {"result", "checkpoint"},
     facet  : Facets,
     lock   : Locks,
     tool   : Tools]

Kinds == {"result", "checkpoint", "homepage", "delete_lockout"} \cup Attachments

NoRecord == [status |-> "absent", has |-> {}, facet |-> DefaultFacet, lock |-> "none",
             tool |-> "classifier"]

\* _read succeeds.
Exists(j) == records[j].status # "absent"

StoreInit ==
    /\ records = [j \in Jobs |-> NoRecord]
    /\ sidecars = [j \in Jobs |-> {}]
    /\ nextId = 1

\* create: mint an id and write a QUEUED record.
Create(f, l, t) ==
    /\ nextId \in Jobs
    /\ records' = [records EXCEPT ![nextId] =
                      [status |-> "queued", has |-> {}, facet |-> f, lock |-> l, tool |-> t]]
    /\ nextId' = nextId + 1
    /\ UNCHANGED sidecars

\* _transition to a status: read, change, write back in one lock region.
\* There is no guard on the status the record has.
SetStatus(j, status) ==
    /\ Exists(j)
    /\ records' = [records EXCEPT ![j].status = status]
    /\ UNCHANGED <<sidecars, nextId>>

MarkRunning(j) == SetStatus(j, "running")
MarkFailed(j) == SetStatus(j, "failed")

\* Mistake: a sidecar write that does not look at the record.
WriteSidecarUnchecked(j, kind) ==
    /\ sidecars' = [sidecars EXCEPT ![j] = @ \cup {kind}]
    /\ UNCHANGED <<records, nextId>>

\* A sidecar write that first checks the record still exists: write_homepage,
\* write_reconciliation, write_performance, write_gsc_queries.
WriteSidecar(j, kind) ==
    /\ Exists(j)
    /\ sidecars' = [sidecars EXCEPT ![j] = @ \cup {kind}]
    /\ UNCHANGED <<records, nextId>>

\* Mistake: the record is published before the blob is written.
FinishBlobLate(j) == Exists(j) /\ UNCHANGED storeVars

\* finish, first lock region: the blob, before anything advertises it.
FinishBlob(j) == WriteSidecar(j, "result")

\* finish, second lock region: the terminal status and has_result.
FinishRecord(j, status) ==
    /\ Exists(j)
    /\ records' = [records EXCEPT ![j].status = status, ![j].has = @ \cup {"result"}]
    /\ UNCHANGED <<sidecars, nextId>>

\* write_checkpoint, in the same two regions and the same order.
CheckpointBlob(j) == WriteSidecar(j, "checkpoint")
CheckpointRecord(j) ==
    /\ Exists(j)
    /\ records' = [records EXCEPT ![j].has = @ \cup {"checkpoint"}]
    /\ UNCHANGED <<sidecars, nextId>>

\* record_failed_delete and clear_delete_lockout: no check of the record.
RecordFailedDelete(j) ==
    /\ sidecars' = [sidecars EXCEPT ![j] = @ \cup {"delete_lockout"}]
    /\ UNCHANGED <<records, nextId>>
ClearDeleteLockout(j) ==
    /\ sidecars' = [sidecars EXCEPT ![j] = @ \ {"delete_lockout"}]
    /\ UNCHANGED <<records, nextId>>

\* delete: the record, then every sidecar, in one lock region.
Delete(j) ==
    /\ Exists(j)
    /\ records' = [records EXCEPT ![j] = NoRecord]
    /\ sidecars' = [sidecars EXCEPT ![j] = {}]
    /\ UNCHANGED nextId

\* The same, when the process dies after the record's unlink: the sidecars
\* not reached yet stay behind.
DeleteInterrupted(j) ==
    /\ Exists(j)
    /\ records' = [records EXCEPT ![j] = NoRecord]
    /\ \E left \in SUBSET sidecars[j] : sidecars' = [sidecars EXCEPT ![j] = left]
    /\ UNCHANGED nextId

StoreTypeOK ==
    /\ records \in [Jobs -> JobRecord]
    /\ sidecars \in [Jobs -> SUBSET Kinds]
    /\ nextId \in 1 .. (MaxJobId + 1)

\* A record advertises only sidecars that are on disk, and a job that reads
\* as finished with a result advertises one (the order finish,
\* write_checkpoint and delete write in).
AdvertisedIsOnDisk ==
    \A j \in Jobs :
        /\ records[j].has \subseteq sidecars[j]
        /\ records[j].status \in {"succeeded", "partial"} => "result" \in records[j].has
=============================================================================
