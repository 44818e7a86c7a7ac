--------------------------- MODULE WorkloadLifecycle ---------------------------
(***************************************************************************)
(* One claimed Workload from its creation to its removal: the reconciler   *)
(* (WorkloadController) and the claim loop (PendingOperations) interleaved *)
(* over the shared objects (WorkloadObjects) and Convex's row (ConvexRow). *)
(***************************************************************************)
EXTENDS WorkloadController, PendingOperations

vars == <<objVars, budget, ctlVars, opVars>>

Init == ObjInit /\ CtlInit /\ OpInit

\* The process dies and comes back: both goroutines start over, the informer
\* lists what is there, and only objects that exist are enqueued.
Crash ==
  /\ Fault
  /\ pc' = "idle" /\ obj' = Gone /\ base' = Gone
  /\ ep' = "idle" /\ op' = "none"
  /\ cache' = w /\ seen' = View(dep)
  /\ queued' = w.live
  /\ UNCHANGED <<w, dep, stuck, row, hist>>

\* Nothing is running, nothing is scheduled, and no watch event is on its way.
Quiescent == pc = "idle" /\ ~queued /\ cache = w /\ seen = View(dep)

\* Convex's lease is far longer than anything the operator waits for: besides
\* racing with the operator (LeaseExpires), it runs out once nothing moves.
LeaseExpiresIdle ==
  /\ Quiescent /\ ep = "idle" /\ row.st \in InFlight
  /\ row' \in Releases(row)
  /\ UNCHANGED <<w, cache, dep, seen, stuck, queued, hist, budget, ctlVars, opVars>>

EnvStep == Environment /\ UNCHANGED <<ctlVars, opVars>>
ReconcileStep == Reconcile /\ UNCHANGED opVars
PendingStep == ProcessPending /\ UNCHANGED ctlVars

Next == EnvStep \/ ReconcileStep \/ PendingStep \/ LeaseExpiresIdle \/ Crash

\* An EnvStep of one kind.
EnvSteps(A) == A /\ UNCHANGED <<hist, ctlVars, opVars>>

Spec == Init /\ [][Next]_vars

\* The worker and the heartbeat ticker keep running, watch events arrive, the
\* Deployment controller works, and the lease runs out.  Nothing is assumed
\* of people, faults, or a pod that does not fit.
Fairness ==
  /\ WF_vars(ReconcileStep)
  /\ WF_vars(PendingStep)
  /\ WF_vars(EnvSteps(WatchWorkload))
  /\ WF_vars(EnvSteps(WatchDeployment))
  /\ WF_vars(EnvSteps(PodReady \/ PodTerminated))
  /\ WF_vars(LeaseExpiresIdle)

LiveSpec == Spec /\ Fairness

TypeOK == ObjTypeOK /\ CtlTypeOK /\ OpTypeOK
--------------------------------------------------------------------------------

\* The finalizer's promise (workloadFinalizer, reconcileDelete): a workload
\* whose name Convex has recorded never leaves the API server before Convex
\* has processed its removal, whatever was lost, retried or restarted on the
\* way, unless somebody cleared the finalizer by hand.
KnownNeverLost ==
  (hist.upserted /\ ~w.live) => (hist.removed \/ hist.forced)

\* Reconcile is level-triggered and forgets nothing: when it stops requeueing
\* a live Workload, the object is not waiting to be deleted, it carries the
\* finalizer, the Deployment has the replica count of the stored spec, the
\* phase is the one those replicas call for, and both Convex conditions are
\* True for the stored generation.
QuiescentConverged ==
  (Quiescent /\ w.live) =>
    /\ ~w.deleting /\ w.finalizer
    /\ dep.exists /\ dep.replicas = desiredReplicaCount(w)
    /\ w.phase = (IF w.suspended THEN "Stopped" ELSE "Running")
    /\ w.phase = PhaseFor(w, dep.ready)
    /\ w.synced = w.gen /\ w.lifecycle = w.gen

\* syncConvexLifecyclePhase keys its condition by the generation alone; since
\* Spec.Suspended is fixed within one, a True condition still means that
\* Convex answered a report of the phase this generation asks for.
AnsweredForGeneration ==
  (w.live /\ w.lifecycle = w.gen) =>
    <<w.gen, IF w.suspended THEN "stopped" ELSE "active">> \in hist.told

\* The report-before-delete order of checkUnschedulable: a create that was
\* reopened for other operators is never marked destroyed by the removal
\* notification of the CR it was taken from.
ReopenedCreateSurvives ==
  hist.released = "provisioning" => row.st # "destroyed"

\* A resourceVersion conflict is not a failure: the row becomes "failed" only
\* after an error of another kind.
FailedOnlyWhenBroken == row.st = "failed" => hist.broken
--------------------------------------------------------------------------------
(* Inductive invariants behind the safety properties. *)

\* Reconcile is between its finalizer write and its return.
Pinned ==
  pc \in {"deployment", "service", "setFailed", "reportFailed", "unschedulable",
          "release", "releaseDelete", "upsert", "status", "report", "save"}

\* The finalizer guards the removal: the object either still carries it or
\* went after Convex was told or by hand.
Held == IF w.live THEN w.finalizer ELSE hist.removed \/ hist.forced

\* Nothing of a deleted object is left behind in a copy.
NoGhosts == \A x \in {w, cache, base} : ~x.live => x = Gone

\* Whatever shows that the finalizer was once written, in any copy or in
\* Convex, or in how far a reconcile has come, implies Held.
FinalizerHeld ==
  (hist.upserted \/ Pinned \/ w.finalizer \/ cache.finalizer \/ base.finalizer) => Held

SameButStatus(a, b) ==
  /\ a.live = b.live /\ a.finalizer = b.finalizer /\ a.deleting = b.deleting
  /\ a.gen = b.gen /\ a.suspended = b.suspended

\* What each control point of Reconcile has established about its object.
ObjectAtPC ==
  /\ pc = "removed" => base.live /\ base.deleting
  /\ pc = "dropFinalizer" => base.live /\ base.deleting /\ hist.removed
  /\ pc = "addFinalizer" => obj = base /\ base.live /\ ~base.deleting
  /\ Pinned =>
       base.live /\ base.finalizer /\ ~base.deleting /\ SameButStatus(obj, base)

FinalizerInv == NoGhosts /\ FinalizerHeld /\ ObjectAtPC

\* A copy of the object claims an answered report only for a generation whose
\* phase Convex answered.  Generations only grow, so a stale claim is below
\* the generation it is stored with.
Truthful(x, told) ==
  x.live =>
    /\ x.gen > 0 /\ x.lifecycle <= x.gen
    /\ x.lifecycle = x.gen =>
         <<x.gen, IF x.suspended THEN "stopped" ELSE "active">> \in told

AnsweredInv ==
  /\ Truthful(w, hist.told) /\ Truthful(cache, hist.told)
  /\ Truthful(base, hist.told) /\ Truthful(obj, hist.told)
  /\ pc = "report" => obj.phase = (IF obj.suspended THEN "Stopped" ELSE "Running")

\* A row that says "failed" has its error on record, and a create that was
\* reopened belongs to nobody or to another claim.
RowSound(r, h) ==
  /\ r.st = "failed" => h.broken
  /\ h.released = "provisioning" => r.owner \in {"none", "other"} /\ r.st # "destroyed"

\* Both goroutines send a terminal failure only after an error is on record.
RowInv ==
  /\ RowSound(row, hist)
  /\ pc \in {"setFailed", "reportFailed"} => hist.broken
  /\ ep = "reportTerminal" => hist.broken

\* The stored object needs no further reconcile, going by the cached replicas.
Settled(o, ready) ==
  /\ ~o.deleting /\ o.finalizer /\ ready # Missing
  /\ o.phase = PhaseFor(o, ready) /\ ~Unsettled(o)

\* Reconcile is past its write of the Deployment.
PastApply ==
  pc \in {"service", "unschedulable", "release", "releaseDelete", "upsert", "status",
          "report", "save"}

\* A deletion is never undone, and nothing is deleting without a finalizer.
DeletionSticks ==
  /\ \A x \in {cache, base} : x.deleting /\ w.live => w.deleting
  /\ \A x \in {w, cache, base} : x.live /\ x.deleting => x.finalizer

\* What a reconcile has established and no event has called into question: an
\* event that does puts the key back into the queue.
ConvergedInv ==
  /\ (pc = "idle" /\ ~queued /\ cache = w /\ w.live) =>
       Settled(w, seen) /\ (dep.exists => dep.replicas = desiredReplicaCount(w))
  /\ (pc \in {"report", "save"} /\ ~queued) =>
       obj.phase = PhaseFor(obj, seen) /\ seen # Missing
  /\ PastApply => (dep.exists => dep.replicas = desiredReplicaCount(obj))
  /\ (pc = "gone" /\ ~queued) => ~cache.live
  /\ ((Pinned \/ pc = "addFinalizer") /\ ~queued) => ~cache.deleting
  /\ DeletionSticks
--------------------------------------------------------------------------------
(* Liveness: faults are finite, so every call succeeds in the end. *)

\* reconcileDelete retries until Convex has answered and the finalizer is off:
\* a deleted workload always disappears.  The mark goes only with the object.
DeletionCompletes == []<>(~w.deleting)

\* Reconcile never spins: once users and faults are done and every pod can be
\* placed, requeueing ends for good, also after a 409 that no retry can turn
\* into a success.
RequeueingEnds == <>[](~stuck) => <>[]Quiescent

Waiting(o) == row.st \in {o, InFlightOf[o]}

\* Redeploy's LastRedeployedAt makes every attempt a new generation, so a
\* redeploy always reaches an outcome, whichever of its calls is lost.  One of
\* a CR whose finalizer was cleared by hand is retried for good: Convex was
\* not told, and the Get that fails is reported as retryable.
RedeployResolves == <>[](~stuck) => []<>(~Waiting("redeploy") \/ hist.forced)

\* workload_controller.go on checkUnschedulable: "a failed report or delete
\* just means the same stuck Pod condition is still there on the next
\* reconcile, naturally retrying this whole sequence".
UnschedulableRetried ==
  (hist.released # "no" /\ stuck) ~> (w.deleting \/ ~w.live \/ ~stuck)
--------------------------------------------------------------------------------
(* Statements of comments and messages that the code does not keep. *)

\* runnable.go: after SetSuspended, "status stays stopping/resuming until the
\* reconciler's normal Stopped/Running-transition fires".  So once everything
\* has come to rest, no row still waits for a stop or a resume that the
\* Workload shows as done.
DoneStopIsReported ==
  (Quiescent /\ ep = "idle" /\ w.live) =>
    /\ row.st = "stopping" => ~w.suspended
    /\ row.st = "resuming" => w.suspended

================================================================================
