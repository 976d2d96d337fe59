------------------------- MODULE DeliverableBuilds --------------------------
(* Workbook builds (src/src/api/deliverables_routes.py and run_build,        *)
(* run_masterfile, run_masterfile_batch of                                   *)
(* src/src/modules/seo/deliverables/build_runner.py): a handler admits the   *)
(* build on the event loop, a thread renders it, the loop releases its slot. *)
EXTENDS Naturals, FiniteSets

CONSTANTS
    Builds,           \* the builds that are asked for
    FrogBuilds,       \* those of an uploaded Screaming Frog bundle
    MaxDeliverables,  \* max_concurrent_deliverables
    MaxStops          \* bound on the stops of the server

ASSUME BuildsAssumption ==
    FrogBuilds \subseteq Builds /\ MaxDeliverables \in Nat \ {0} /\ MaxStops \in Nat

VARIABLES
    build,            \* where each build is, its record's status and its files
    bundles,          \* builds whose uploaded bundle is on disk
    active,           \* _deliverable_active
    stops

buildVars == <<build, bundles, active, stops>>

Threaded == {"dispatched", "running", "loaded", "rendered", "written"}
Settling == {"settling", "unrecorded"}
Closed == {"done", "abandoned", "lost"}
BuildSteps == Threaded \cup Settling \cup Closed \cup {"none", "ready", "admitted"}
Ended == {"succeeded", "failed"}

BuildsInit ==
    /\ build = [b \in Builds |-> [at |-> "none", status |-> "none", files |-> {}]]
    /\ bundles = {} /\ active = {} /\ stops = 0

BuildIs(b, at, status, files) ==
    build' = [build EXCEPT ![b] = [at |-> at, status |-> status, files |-> files]]

BuildGoes(b, from, to) == build[b].at = from /\ BuildIs(b, to, build[b].status, build[b].files)

-----------------------------------------------------------------------------
(* The handler.                                                              *)

\* The source is checked, and an uploaded bundle saved next to the store.
Accept(b) ==
    /\ BuildGoes(b, "none", "ready")
    /\ bundles' = bundles \cup ({b} \cap FrogBuilds)
    /\ UNCHANGED <<active, stops>>

Cleanup(b) == bundles' = bundles \ {b}
Release(b) == active' = active \ {b}

Saturated(b) ==
    /\ Cardinality(active) >= MaxDeliverables
    /\ BuildGoes(b, "ready", "done")
    /\ Cleanup(b)
    /\ UNCHANGED <<active, stops>>

\* Mistake: off by one.
ReserveOneMore(b) ==
    /\ Cardinality(active) <= MaxDeliverables
    /\ BuildGoes(b, "ready", "admitted")
    /\ active' = active \cup {b}
    /\ UNCHANGED <<bundles, stops>>

\* Under the provisional id, before there is a record.
Reserve(b) ==
    /\ Cardinality(active) < MaxDeliverables
    /\ BuildGoes(b, "ready", "admitted")
    /\ active' = active \cup {b}
    /\ UNCHANGED <<bundles, stops>>

\* Mistake: only the slot is given back.
CreateFailsKeepingBundle(b) ==
    /\ BuildGoes(b, "admitted", "done")
    /\ Release(b)
    /\ UNCHANGED <<bundles, stops>>

CreateFails(b) ==
    /\ BuildGoes(b, "admitted", "done")
    /\ Release(b) /\ Cleanup(b)
    /\ UNCHANGED stops

\* The record is created, the slot rekeyed to it and the task tracked.
Dispatch(b) ==
    /\ build[b].at = "admitted"
    /\ BuildIs(b, "dispatched", "queued", build[b].files)
    /\ UNCHANGED <<bundles, active, stops>>

-----------------------------------------------------------------------------
(* The thread.                                                               *)

MarkRunning(b) ==
    /\ build[b].at = "dispatched"
    /\ BuildIs(b, "running", "running", build[b].files)
    /\ UNCHANGED <<bundles, active, stops>>

LoadSource(b) ==
    /\ b \in FrogBuilds => b \in bundles
    /\ BuildGoes(b, "running", "loaded")
    /\ UNCHANGED <<bundles, active, stops>>

RenderWorkbook(b) ==
    /\ build[b].at = "loaded"
    /\ BuildIs(b, "rendered", build[b].status, build[b].files \cup {"workbook"})
    /\ UNCHANGED <<bundles, active, stops>>

\* Mistake: the record is updated before the result is written.
RecordFirst(b) ==
    /\ build[b].at = "rendered"
    /\ BuildIs(b, "written", "succeeded", build[b].files)
    /\ UNCHANGED <<bundles, active, stops>>

\* DiskJobStore.finish: the result, then the record.
WriteResult(b) ==
    /\ build[b].at = "rendered"
    /\ BuildIs(b, "written", build[b].status, build[b].files \cup {"result"})
    /\ UNCHANGED <<bundles, active, stops>>

FinishRecord(b) ==
    /\ build[b].at = "written"
    /\ BuildIs(b, "settling", "succeeded", build[b].files)
    /\ UNCHANGED <<bundles, active, stops>>

\* Mistake: only a ValueError is caught.
BuildRaises(b) ==
    /\ build[b].at \in Threaded
    /\ \E status \in {"failed", build[b].status} :
         BuildIs(b, "settling", status, build[b].files)
    /\ UNCHANGED <<bundles, active, stops>>

\* A bundle or rulebook that cannot be read or is gone, too many pages, a write that fails.
\* The handler's mark_failed is a write as well: when it raises too, the record stays as it is.
BuildFails(b) ==
    /\ build[b].at \in Threaded
    /\ \/ BuildIs(b, "settling", "failed", build[b].files)
       \/ BuildIs(b, "unrecorded", build[b].status, build[b].files)
    /\ UNCHANGED <<bundles, active, stops>>

\* In a finally, whether the thread has returned or raised.
Settle(b) ==
    /\ BuildGoes(b, "settling", "done") \/ BuildGoes(b, "unrecorded", "abandoned")
    /\ Release(b) /\ Cleanup(b)
    /\ UNCHANGED stops

\* The process stops.  At the next start nothing looks at this store's records or bundles.
ServerStops ==
    /\ stops < MaxStops /\ stops' = stops + 1
    /\ active' = {}
    /\ build' = [b \in Builds |->
         IF build[b].at \in Closed \cup {"none"} THEN build[b]
         ELSE [build[b] EXCEPT !.at = "lost"]]
    /\ UNCHANGED bundles

BuildAdvances(b) ==
    \/ Saturated(b) \/ Reserve(b) \/ CreateFails(b) \/ Dispatch(b) \/ MarkRunning(b)
    \/ LoadSource(b) \/ RenderWorkbook(b) \/ WriteResult(b) \/ FinishRecord(b)
    \/ BuildFails(b) \/ Settle(b)

BuildsNext == (\E b \in Builds : Accept(b) \/ BuildAdvances(b)) \/ ServerStops

\* The event loop and its threads run.
BuildsFairness == \A b \in Builds : WF_buildVars(BuildAdvances(b))

BuildsSpec == BuildsInit /\ [][BuildsNext]_buildVars

-----------------------------------------------------------------------------
(* Properties.                                                               *)

BuildsTypeOK ==
    /\ build \in [Builds -> [at : BuildSteps, status : {"none", "queued", "running"} \cup Ended,
                             files : SUBSET {"workbook", "result"}]]
    /\ bundles \subseteq FrogBuilds /\ active \subseteq Builds /\ stops \in 0 .. MaxStops

\* A deliverable that says it succeeded can be downloaded, also when the server stopped
\* between the writes of its files and of its record.
WorkbookBehindRecord ==
    \A b \in Builds : build[b].status = "succeeded" => build[b].files = {"workbook", "result"}

\* The uploaded bundle outlives the handler that saved it until the thread has read it, and no
\* longer than its build, a refused or failed one included, unless the server stopped.
BundleLivesWithItsBuild ==
    /\ \A b \in FrogBuilds : build[b].at \in {"dispatched", "running"} => b \in bundles
    /\ \A b \in bundles : build[b].at \notin {"none", "done", "abandoned"}

\* Every slot belongs to a build that will settle, and there are no more than configured.
SlotsAreLiveBuilds ==
    /\ active = {b \in Builds : build[b].at \in Threaded \cup Settling \cup {"admitted"}}
    /\ Cardinality(active) <= MaxDeliverables

\* A poller of an accepted build sees it end, unless the server stops first or the build's
\* failure could not be written either; and in each case the slot comes back.
AcceptedBuildEnds ==
    \A b \in Builds :
        build[b].status = "queued" ~>
            /\ b \notin active
            /\ build[b].status \in Ended \/ build[b].at \in {"lost", "abandoned"}
=============================================================================
