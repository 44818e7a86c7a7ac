--------------------------- MODULE WorkloadController ---------------------------
(***************************************************************************)
(* WorkloadReconciler.Reconcile for one key.  The work queue never runs    *)
(* two reconciles of the same key at once, so there is one control point   *)
(* pc; each step is one call to the API server or to Convex, with the      *)
(* local computation that follows it.  obj is the Go variable workload,    *)
(* base the version it was read at: an Update succeeds only against that   *)
(* version (the resourceVersion check).                                    *)
(***************************************************************************)
EXTENDS WorkloadObjects

VARIABLES pc, obj, base

ctlVars == <<pc, obj, base>>

PCs == {"idle", "addFinalizer", "deployment", "service", "setFailed", "reportFailed",
        "unschedulable", "release", "releaseDelete", "upsert", "status", "report",
        "save", "removed", "dropFinalizer", "gone"}

CtlInit == pc = "idle" /\ obj = Gone /\ base = Gone

CtlTypeOK == pc \in PCs /\ obj \in Workloads /\ base \in Workloads

\* Reconcile returns: an error or a RequeueAfter puts the key back, and a
\* watch event that came in the meantime stays in the queue.
Return(requeue) ==
  /\ pc' = "idle" /\ obj' = Gone /\ base' = Gone
  /\ queued' = (queued \/ requeue)

Goto(label) == pc' = label /\ UNCHANGED <<obj, base, queued>>

GotoWith(label, newObj) == pc' = label /\ obj' = newObj /\ UNCHANGED <<base, queued>>

\* Mutant: the finalizer is never written.
StartWithoutFinalizer ==
  /\ pc = "idle" /\ queued
  /\ queued' = FALSE
  /\ obj' = cache /\ base' = cache
  /\ pc' = CASE ~cache.live -> "gone"
             [] cache.live /\ cache.deleting -> "removed"
             [] OTHER -> "deployment"
  /\ UNCHANGED <<w, cache, dep, seen, stuck, row, hist, budget>>

\* Reconcile up to its first call: the object comes from the cache.
Start ==
  /\ pc = "idle" /\ queued
  /\ queued' = FALSE
  /\ IF cache.live /\ cache.deleting /\ ~cache.finalizer
       THEN UNCHANGED ctlVars
       ELSE /\ obj' = cache /\ base' = cache
            /\ pc' = CASE ~cache.live -> "gone"
                       [] cache.live /\ cache.deleting -> "removed"
                       [] cache.live /\ ~cache.deleting /\ ~cache.finalizer -> "addFinalizer"
                       [] OTHER -> "deployment"
  /\ UNCHANGED <<w, cache, dep, seen, stuck, row, hist, budget>>

\* The NotFound fallback: one best-effort notifyRemoved.
RemovedRow ==
  /\ row' = Removed(row)
  /\ hist' = [hist EXCEPT !.removed = TRUE]

NotifyGone ==
  /\ pc = "gone"
  /\ \/ NoFault /\ RemovedRow
     \/ Fault /\ RemovedRow
     \/ Fault /\ UNCHANGED <<row, hist>>
  /\ Return(FALSE)
  /\ UNCHANGED <<w, cache, dep, seen, stuck>>

\* Mutant: reconcileDelete goes on when notifyRemoved failed.
NotifyRemovedBestEffort ==
  /\ pc = "removed"
  /\ \/ NoFault /\ RemovedRow
     \/ Fault /\ RemovedRow
     \/ Fault /\ UNCHANGED <<row, hist>>
  /\ Goto("dropFinalizer")
  /\ UNCHANGED <<w, cache, dep, seen, stuck>>

\* Mutant: a failed notifyRemoved is swallowed instead of returned.
NotifyRemovedSwallowed ==
  /\ pc = "removed"
  /\ \/ NoFault /\ RemovedRow /\ Goto("dropFinalizer")
     \/ Fault /\ RemovedRow /\ Return(FALSE)
     \/ Fault /\ UNCHANGED <<row, hist>> /\ Return(FALSE)
  /\ UNCHANGED <<w, cache, dep, seen, stuck>>

\* reconcileDelete: notifyRemoved, and only once it is answered
\* RemoveFinalizer and Update.
NotifyRemoved ==
  /\ pc = "removed"
  /\ \/ NoFault /\ RemovedRow /\ Goto("dropFinalizer")
     \/ Fault /\ RemovedRow /\ Return(TRUE)
     \/ Fault /\ UNCHANGED <<row, hist>> /\ Return(TRUE)
  /\ UNCHANGED <<w, cache, dep, seen, stuck>>

DropFinalizer ==
  /\ pc = "dropFinalizer"
  /\ \/ base = w /\ w' = WithoutFinalizer(w) /\ NoFault /\ Return(FALSE)
     \/ base = w /\ w' = WithoutFinalizer(w) /\ Fault /\ Return(TRUE)
     \/ base # w /\ UNCHANGED w /\ NoFault /\ Return(TRUE)
     \/ base = w /\ UNCHANGED w /\ Fault /\ Return(TRUE)
  /\ UNCHANGED <<cache, dep, seen, stuck, row, hist>>

AddFinalizer ==
  LET finalized == [obj EXCEPT !.finalizer = TRUE] IN
  /\ pc = "addFinalizer"
  /\ \/ /\ base = w /\ w' = finalized /\ NoFault
        /\ obj' = finalized /\ base' = finalized
        /\ pc' = "deployment" /\ UNCHANGED queued
     \/ base = w /\ w' = finalized /\ Fault /\ Return(TRUE)
     \/ base # w /\ UNCHANGED w /\ NoFault /\ Return(TRUE)
     \/ base = w /\ UNCHANGED w /\ Fault /\ Return(TRUE)
  /\ UNCHANGED <<cache, dep, seen, stuck, row, hist>>

\* Mutant: one replica too few.
AppliedShort(d, o) ==
  [exists |-> TRUE, replicas |-> desiredReplicaCount(o) - 1, ready |-> d.ready]

Applied(d, o) ==
  [exists |-> TRUE, replicas |-> desiredReplicaCount(o), ready |-> d.ready]

\* render failed, or a call that applies an object did so other than by a
\* conflict.
Broken == hist' = [hist EXCEPT !.broken = TRUE]

\* Mutant: a conflict goes through setFailed like any other error.
ReconcileDeploymentConflictFails ==
  /\ pc = "deployment"
  /\ \/ dep' = Applied(dep, obj) /\ NoFault /\ Goto("service") /\ UNCHANGED hist
     \/ UNCHANGED dep /\ Fault /\ Goto("setFailed") /\ UNCHANGED hist
     \/ dep' \in {dep, Applied(dep, obj)} /\ Fault /\ Goto("setFailed") /\ Broken
  /\ UNCHANGED <<w, cache, seen, stuck, row>>

\* render and reconcileDeployment.  A conflict is returned bare; any other
\* error goes through setFailed.
ReconcileDeployment ==
  /\ pc = "deployment"
  /\ \/ dep' = Applied(dep, obj) /\ NoFault /\ Goto("service") /\ UNCHANGED hist
     \/ UNCHANGED dep /\ Fault /\ Return(TRUE) /\ UNCHANGED hist
     \/ dep' \in {dep, Applied(dep, obj)} /\ Fault /\ Goto("setFailed") /\ Broken
  /\ UNCHANGED <<w, cache, seen, stuck, row>>

ReconcileService ==
  /\ pc = "service"
  /\ \/ NoFault /\ Goto("unschedulable") /\ UNCHANGED hist
     \/ Fault /\ Return(TRUE) /\ UNCHANGED hist
     \/ Fault /\ Goto("setFailed") /\ Broken
  /\ UNCHANGED <<w, cache, dep, seen, stuck, row>>

\* setFailedWithReason: the status write's own error is only logged, then one
\* fire-and-forget non-retryable report, then the error is returned.
SetFailed ==
  LET failed == [obj EXCEPT !.phase = "Failed"] IN
  /\ pc = "setFailed"
  /\ \/ base = w /\ w' = failed /\ NoFault
     \/ base # w /\ UNCHANGED w /\ NoFault
     \/ base = w /\ w' \in {w, failed} /\ Fault
  /\ GotoWith("reportFailed", failed)
  /\ UNCHANGED <<cache, dep, seen, stuck, row, hist>>

ReportFailed ==
  LET applied == ReportApplied(row, "failed", FALSE) IN
  /\ pc = "reportFailed"
  /\ \/ row' \in applied /\ NoFault
     \/ ReportMayBeStale(row, "failed", FALSE) /\ UNCHANGED row /\ NoFault
     \/ row' \in applied \cup {row} /\ Fault
  /\ Return(TRUE)
  /\ UNCHANGED <<w, cache, dep, seen, stuck, hist>>

\* checkUnschedulable: skipped for a suspended or already Running workload;
\* a failed pod list counts as "not stuck".
CheckUnschedulable ==
  /\ pc = "unschedulable"
  /\ \/ /\ ~obj.suspended /\ obj.phase # "Running" /\ stuck
        /\ Goto("release") /\ NoFault
     \/ /\ obj.suspended \/ obj.phase = "Running" \/ ~stuck
        /\ Goto("upsert") /\ NoFault
     \/ /\ ~obj.suspended /\ obj.phase # "Running" /\ stuck
        /\ Goto("upsert") /\ Fault
  /\ UNCHANGED <<w, cache, dep, seen, stuck, row, hist>>

\* Mutant: checkUnschedulable's report is not retryable.
ReopenedTerminally ==
  /\ row' \in ReportApplied(row, "failed", FALSE)
  /\ hist' = [hist EXCEPT !.released = row.st]

\* ... the retryable report, which must be answered with success ...
Reopened ==
  /\ row' \in ReportApplied(row, "failed", TRUE)
  /\ hist' = [hist EXCEPT !.released = IF row'.st = "exhausted" THEN @ ELSE row.st]

ReleaseClaim ==
  /\ pc = "release"
  /\ \/ Reopened /\ Goto("releaseDelete") /\ NoFault
     \/ /\ ReportMayBeStale(row, "failed", TRUE)
        /\ UNCHANGED <<row, hist>> /\ Goto("upsert") /\ NoFault
     \/ Reopened /\ Goto("upsert") /\ Fault
     \/ UNCHANGED <<row, hist>> /\ Goto("upsert") /\ Fault
  /\ UNCHANGED <<w, cache, dep, seen, stuck>>

\* ... before the Workload is deleted; a failed delete falls through.
ReleaseDelete ==
  /\ pc = "releaseDelete"
  /\ \/ w' = Deleted(w) /\ NoFault /\ Return(FALSE)
     \/ w' \in {w, Deleted(w)} /\ Fault /\ Goto("upsert")
  /\ UNCHANGED <<cache, dep, seen, stuck, row, hist>>

\* syncConvex: nothing to send when ConvexSynced is True for this generation.
Synced(o, ok) == [o EXCEPT !.synced = IF ok THEN o.gen ELSE 0]

UpsertedRow ==
  /\ row' = Upserted(row)
  /\ hist' = [hist EXCEPT !.upserted = @ \/ row.owner = "unnamed"]

SyncConvex ==
  /\ pc = "upsert"
  /\ \/ /\ obj.synced = obj.gen
        /\ Goto("status") /\ NoFault /\ UNCHANGED <<row, hist>>
     \/ /\ obj.synced # obj.gen
        /\ \/ UpsertedRow /\ NoFault /\ GotoWith("status", Synced(obj, TRUE))
           \/ UpsertedRow /\ Fault /\ GotoWith("status", Synced(obj, FALSE))
           \/ /\ UNCHANGED <<row, hist>> /\ Fault
              /\ GotoWith("status", Synced(obj, FALSE))
  /\ UNCHANGED <<w, cache, dep, seen, stuck>>

\* updateStatus: the phase for what the cached Deployment shows, and the
\* lifecycle phase to report, if any.
PhaseFor(o, ready) ==
  CASE o.suspended /\ ready = 0 -> "Stopped"
    [] desiredReplicaCount(o) > 0 /\ ready >= desiredReplicaCount(o) -> "Running"
    [] OTHER -> "Deploying"

Reported(phase) == IF phase = "Stopped" THEN "stopped" ELSE "active"

UpdateStatus ==
  LET phased == [obj EXCEPT !.phase = PhaseFor(obj, seen)] IN
  /\ pc = "status"
  /\ \/ seen = Missing /\ Return(TRUE)
     \/ /\ seen # Missing
        /\ GotoWith(IF phased.phase = "Deploying" \/ obj.lifecycle = obj.gen
                      THEN "save" ELSE "report", phased)
  /\ UNCHANGED <<w, cache, dep, seen, stuck, row, hist, budget>>

\* Mutant: a report that was not answered settles the condition too.
LifecycleSyncedAlways(o, ok) == [o EXCEPT !.lifecycle = o.gen]

\* syncConvexLifecyclePhase: an answer, 200 or 409, settles the condition for
\* this generation; anything else leaves it False.
LifecycleSynced(o, ok) == [o EXCEPT !.lifecycle = IF ok THEN o.gen ELSE 0]

Answered == hist' = [hist EXCEPT !.told = @ \cup {<<obj.gen, Reported(obj.phase)>>}]

\* Mutant: a 409 leaves the condition False, to be retried.
SyncConvexLifecyclePhaseRetries409 ==
  LET phase == Reported(obj.phase)
      applied == ReportApplied(row, phase, FALSE)
  IN
  /\ pc = "report"
  /\ \/ /\ row' \in applied
        /\ NoFault /\ Answered /\ GotoWith("save", LifecycleSynced(obj, TRUE))
     \/ /\ ReportMayBeStale(row, phase, FALSE) /\ UNCHANGED <<row, hist>>
        /\ NoFault /\ GotoWith("save", LifecycleSynced(obj, FALSE))
     \/ /\ row' \in applied \cup {row}
        /\ Fault /\ UNCHANGED hist /\ GotoWith("save", LifecycleSynced(obj, FALSE))
  /\ UNCHANGED <<w, cache, dep, seen, stuck>>

SyncConvexLifecyclePhase ==
  LET phase == Reported(obj.phase)
      applied == ReportApplied(row, phase, FALSE)
  IN
  /\ pc = "report"
  /\ \/ /\ \/ row' \in applied
           \/ ReportMayBeStale(row, phase, FALSE) /\ UNCHANGED row
        /\ NoFault /\ Answered /\ GotoWith("save", LifecycleSynced(obj, TRUE))
     \/ /\ row' \in applied \cup {row}
        /\ Fault /\ UNCHANGED hist /\ GotoWith("save", LifecycleSynced(obj, FALSE))
  /\ UNCHANGED <<w, cache, dep, seen, stuck>>

\* The requeue decision.
Unsettled(o) ==
  \/ o.phase \notin {"Running", "Stopped"}
  \/ o.synced # o.gen
  \/ o.lifecycle # o.gen

\* Mutant: the error of the Status().Update is logged, not returned.
SaveStatusUnchecked ==
  /\ pc = "save"
  /\ \/ base = w /\ w' = obj /\ NoFault
     \/ base # w /\ UNCHANGED w /\ NoFault
     \/ base = w /\ w' \in {w, obj} /\ Fault
  /\ Return(Unsettled(obj))
  /\ UNCHANGED <<cache, dep, seen, stuck, row, hist>>

\* The final Status().Update; every error, a conflict too, is returned.
SaveStatus ==
  /\ pc = "save"
  /\ \/ base = w /\ w' = obj /\ NoFault /\ Return(Unsettled(obj))
     \/ base # w /\ UNCHANGED w /\ NoFault /\ Return(TRUE)
     \/ base = w /\ w' \in {w, obj} /\ Fault /\ Return(TRUE)
  /\ UNCHANGED <<cache, dep, seen, stuck, row, hist>>

\* Reconcile's calls, in the order it makes them.
Reconcile ==
  \/ Start \/ NotifyGone \/ NotifyRemoved \/ DropFinalizer \/ AddFinalizer
  \/ ReconcileDeployment \/ ReconcileService \/ SetFailed \/ ReportFailed
  \/ CheckUnschedulable \/ ReleaseClaim \/ ReleaseDelete
  \/ SyncConvex \/ UpdateStatus \/ SyncConvexLifecyclePhase \/ SaveStatus
================================================================================
