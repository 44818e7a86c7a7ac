------------------------ MODULE WorkloadLifecycleProofs ------------------------
(***************************************************************************)
(* Proofs about WorkloadLifecycle, for every replica count and any number  *)
(* of faults and requests.                                                 *)
(***************************************************************************)
EXTENDS WorkloadLifecycle, TLAPS

USE DEF ObjTypeOK, CtlTypeOK, OpTypeOK

\* Convex's transitions stay within its rows.
LEMMA RowTypes ==
  ASSUME NEW r \in Rows
  PROVE  /\ r.st \in InFlight => Releases(r) \subseteq Rows
         /\ \A retryable \in BOOLEAN, phase \in {"active", "stopped", "failed"} :
              /\ ReportApplied(r, phase, retryable) \subseteq Rows
              /\ ReportApplied(r, phase, retryable) # {} => r.st \in InFlight
         /\ Upserted(r) \in Rows
         /\ Removed(r) \in Rows
         /\ r.st \in Operations => [r EXCEPT !.st = InFlightOf[r.st]] \in Rows
         /\ \A st \in Requestable(r.st) : [r EXCEPT !.st = st] \in Rows
         /\ [st |-> "provisioning", owner |-> "other"] \in Rows
         /\ [r EXCEPT !.st = "active"] \in Rows
<1>1. r.st \in InFlight => Releases(r) \subseteq Rows
  BY DEF Rows, InFlight, QueuedOf, Releases, Queued, Statuses, Operations, Owners, Resolved
<1>2. ASSUME NEW retryable \in BOOLEAN, NEW phase \in {"active", "stopped", "failed"}
      PROVE  /\ ReportApplied(r, phase, retryable) \subseteq Rows
             /\ ReportApplied(r, phase, retryable) # {} => r.st \in InFlight
  <2>1. \A s \in Resolutions(phase) : [r EXCEPT !.st = s] \in Rows
    BY DEF Rows, Resolutions, Statuses, Resolved
  <2> QED
    BY <1>1, <2>1 DEF ReportApplied
<1>3. Upserted(r) \in Rows /\ Removed(r) \in Rows
  BY DEF Rows, Upserted, Removed, Owners, Statuses
<1>4. r.st \in Operations => [r EXCEPT !.st = InFlightOf[r.st]] \in Rows
  <2>1. r.st \in Operations => InFlightOf[r.st] \in Statuses
    BY DEF Operations, InFlightOf, Statuses, InFlight, QueuedOf
  <2> QED
    BY <2>1 DEF Rows
<1>5. \A st \in Requestable(r.st) : [r EXCEPT !.st = st] \in Rows
  <2>1. Requestable(r.st) \subseteq Statuses
    BY DEF Requestable, Statuses, Operations
  <2> QED
    BY <2>1 DEF Rows
<1>6. /\ [st |-> "provisioning", owner |-> "other"] \in Rows
      /\ [r EXCEPT !.st = "active"] \in Rows
  BY DEF Rows, Statuses, InFlight, QueuedOf, Resolved, Owners
<1> QED
  BY <1>1, <1>2, <1>3, <1>4, <1>5, <1>6

\* The API server's and the reconciler's edits of a Workload stay within its
\* type.
LEMMA WorkloadTypes ==
  ASSUME NEW o \in Workloads
  PROVE  /\ Gone \in Workloads
         /\ Deleted(o) \in Workloads
         /\ WithoutFinalizer(o) \in Workloads
         /\ [o EXCEPT !.finalizer = TRUE] \in Workloads
         /\ [o EXCEPT !.phase = "Failed"] \in Workloads
         /\ \A ready \in Int : [o EXCEPT !.phase = PhaseFor(o, ready)] \in Workloads
         /\ \A ok \in BOOLEAN : Synced(o, ok) \in Workloads
         /\ \A ok \in BOOLEAN : LifecycleSynced(o, ok) \in Workloads
         /\ Redeployed(o) \in Workloads
         /\ \A suspended \in BOOLEAN : Suspended(o, suspended) \in Workloads
<1>1. Gone \in Workloads
  BY DEF Gone, Workloads, Phases
<1>2. Deleted(o) \in Workloads /\ WithoutFinalizer(o) \in Workloads
  BY <1>1 DEF Deleted, WithoutFinalizer, Workloads
<1>3. [o EXCEPT !.finalizer = TRUE] \in Workloads
  BY DEF Workloads
<1>4. [o EXCEPT !.phase = "Failed"] \in Workloads
  BY DEF Workloads, Phases
<1>5. ASSUME NEW ready \in Int
      PROVE  [o EXCEPT !.phase = PhaseFor(o, ready)] \in Workloads
  <2>1. PhaseFor(o, ready) \in Phases
    BY DEF PhaseFor, Phases
  <2> QED
    BY <2>1 DEF Workloads
<1>6. \A ok \in BOOLEAN : Synced(o, ok) \in Workloads /\ LifecycleSynced(o, ok) \in Workloads
  BY DEF Synced, LifecycleSynced, Workloads
<1>7. \A x \in Workloads : NewGeneration(x) \in Workloads
  BY DEF NewGeneration, Workloads
<1>8. ASSUME NEW suspended \in BOOLEAN
      PROVE  Suspended(o, suspended) \in Workloads
  <2>1. [o EXCEPT !.suspended = suspended] \in Workloads
    BY DEF Workloads
  <2>2. NewGeneration([o EXCEPT !.suspended = suspended]) \in Workloads
    BY <1>7, <2>1
  <2> QED
    BY <2>2 DEF Suspended
<1> QED
  BY <1>1, <1>2, <1>3, <1>4, <1>5, <1>6, <1>7, <1>8 DEF Redeployed

\* So do the Deployment controller's and reconcileDeployment's edits ...
LEMMA DeploymentTypes ==
  ASSUME NEW d \in Deployments
  PROVE  /\ NoDeployment \in Deployments
         /\ View(d) \in Int
         /\ \A o \in Workloads : Applied(d, o) \in Deployments
         /\ [d EXCEPT !.ready = @ + 1] \in Deployments
         /\ d.ready > 0 => [d EXCEPT !.ready = @ - 1] \in Deployments
         /\ d.ready > d.replicas => d.ready > 0
<1>1. NoDeployment \in Deployments
  BY DEF NoDeployment, Deployments
<1>2. View(d) \in Int
  BY DEF View, Missing, Deployments
<1>3. \A o \in Workloads : Applied(d, o) \in Deployments
  BY ReplicasAssumption DEF Applied, desiredReplicaCount, Deployments, Workloads
<1>4. [d EXCEPT !.ready = @ + 1] \in Deployments
  BY DEF Deployments
<1>5. d.ready > 0 => [d EXCEPT !.ready = @ - 1] \in Deployments
  BY DEF Deployments
<1>6. d.ready > d.replicas => d.ready > 0
  BY DEF Deployments
<1> QED
  BY <1>1, <1>2, <1>3, <1>4, <1>5, <1>6

\* ... the record of what has happened ...
LEMMA HistoryTypes ==
  ASSUME NEW h \in Histories
  PROVE  /\ [h EXCEPT !.removed = TRUE] \in Histories
         /\ [h EXCEPT !.forced = TRUE] \in Histories
         /\ [h EXCEPT !.broken = TRUE] \in Histories
         /\ \A st \in InFlight \cup {"no"} : [h EXCEPT !.released = st] \in Histories
         /\ \A b \in BOOLEAN : [h EXCEPT !.upserted = @ \/ b] \in Histories
         /\ \A o \in Workloads :
              [h EXCEPT !.told = @ \cup {<<o.gen, Reported(o.phase)>>}] \in Histories
<1>1. /\ [h EXCEPT !.removed = TRUE] \in Histories
      /\ [h EXCEPT !.forced = TRUE] \in Histories
      /\ [h EXCEPT !.broken = TRUE] \in Histories
      /\ \A st \in InFlight \cup {"no"} : [h EXCEPT !.released = st] \in Histories
  BY DEF Histories
<1>2. \A b \in BOOLEAN : [h EXCEPT !.upserted = @ \/ b] \in Histories
  BY DEF Histories
<1>3. ASSUME NEW o \in Workloads
      PROVE  [h EXCEPT !.told = @ \cup {<<o.gen, Reported(o.phase)>>}] \in Histories
  <2>1. <<o.gen, Reported(o.phase)>> \in Nat \X {"active", "stopped"}
    BY DEF Workloads, Reported
  <2> QED
    BY <2>1 DEF Histories
<1> QED
  BY <1>1, <1>2, <1>3

\* ... and the fault budget.
LEMMA BudgetTypes ==
  ASSUME TypeOK, Fault \/ NoFault
  PROVE  faults' \in Nat /\ requests' \in Nat
BY DEF TypeOK, Fault, NoFault, budget

\* Every variable keeps its type: each API call, event and answer of the
\* composed system leaves objects, row and control points well-formed.
THEOREM TypeCorrect == Spec => []TypeOK
<1>1. Init => TypeOK
  <2> SUFFICES ASSUME Init PROVE TypeOK
    OBVIOUS
  <2> USE DEF Init, ObjInit, CtlInit, OpInit
  <2>1. w \in Workloads /\ cache \in Workloads /\ obj \in Workloads /\ base \in Workloads
    BY DEF Workloads, Created, Gone, Phases
  <2>2. row \in Rows
    BY DEF Rows, Statuses, InFlight, QueuedOf, Owners
  <2>3. hist \in Histories
    BY DEF Histories
  <2>4. dep \in Deployments /\ seen \in Int
    BY DEF Deployments, NoDeployment, Missing
  <2> QED
    BY <2>1, <2>2, <2>3, <2>4, BoundsAssumption DEF TypeOK, PCs
<1>2. TypeOK /\ [Next]_vars => TypeOK'
  <2> SUFFICES ASSUME TypeOK, [Next]_vars PROVE TypeOK'
    OBVIOUS
  <2> USE DEF TypeOK, PCs, budget, ctlVars, opVars
  <2>1. CASE ForceDelete /\ UNCHANGED <<ctlVars, opVars>>
    BY <2>1, WorkloadTypes, HistoryTypes DEF ForceDelete
  <2>2. CASE WatchWorkload /\ UNCHANGED <<hist, ctlVars, opVars>>
    BY <2>2 DEF WatchWorkload
  <2>3. CASE WatchDeployment /\ UNCHANGED <<hist, ctlVars, opVars>>
    BY <2>3, DeploymentTypes DEF WatchDeployment
  <2>4. CASE PodReady /\ UNCHANGED <<hist, ctlVars, opVars>>
    BY <2>4, DeploymentTypes DEF PodReady
  <2>5. CASE PodTerminated /\ UNCHANGED <<hist, ctlVars, opVars>>
    BY <2>5, DeploymentTypes DEF PodTerminated
  <2>6. CASE PodFails /\ UNCHANGED <<hist, ctlVars, opVars>>
    BY <2>6, DeploymentTypes, BudgetTypes DEF PodFails
  <2>7. CASE PodUnschedulable /\ UNCHANGED <<hist, ctlVars, opVars>>
    BY <2>7, BudgetTypes DEF PodUnschedulable
  <2>8. CASE PodUnstuck /\ UNCHANGED <<hist, ctlVars, opVars>>
    BY <2>8 DEF PodUnstuck
  <2>9. CASE DeploymentDeleted /\ UNCHANGED <<hist, ctlVars, opVars>>
    BY <2>9, DeploymentTypes, BudgetTypes DEF DeploymentDeleted
  <2>10. CASE UserDelete /\ UNCHANGED <<hist, ctlVars, opVars>>
    <3>1. requests' \in Nat
      BY <2>10 DEF UserDelete
    <3> QED
      BY <2>10, <3>1, WorkloadTypes DEF UserDelete
  <2>11. CASE UserRequest /\ UNCHANGED <<hist, ctlVars, opVars>>
    <3>1. requests' \in Nat
      BY <2>11 DEF UserRequest
    <3>2. row' \in Rows
      BY <2>11, RowTypes DEF UserRequest
    <3> QED
      BY <2>11, <3>1, <3>2 DEF UserRequest
  <2>12. CASE LeaseExpires /\ UNCHANGED <<hist, ctlVars, opVars>>
    BY <2>12, RowTypes, BudgetTypes DEF LeaseExpires
  <2>13. CASE OtherClaims /\ UNCHANGED <<hist, ctlVars, opVars>>
    BY <2>13, RowTypes DEF OtherClaims
  <2>14. CASE OtherActive /\ UNCHANGED <<hist, ctlVars, opVars>>
    BY <2>14, RowTypes DEF OtherActive
  <2>15. CASE Start /\ UNCHANGED opVars
    BY <2>15 DEF Start
  <2>16. CASE NotifyGone /\ UNCHANGED opVars
    BY <2>16, WorkloadTypes, RowTypes, HistoryTypes, BudgetTypes
    DEF NotifyGone, RemovedRow, Return
  <2>17. CASE NotifyRemoved /\ UNCHANGED opVars
    BY <2>17, WorkloadTypes, RowTypes, HistoryTypes, BudgetTypes
    DEF NotifyRemoved, RemovedRow, Return, Goto
  <2>18. CASE DropFinalizer /\ UNCHANGED opVars
    BY <2>18, WorkloadTypes, BudgetTypes DEF DropFinalizer, Return
  <2>19. CASE AddFinalizer /\ UNCHANGED opVars
    BY <2>19, WorkloadTypes, BudgetTypes DEF AddFinalizer, Return
  <2>20. CASE ReconcileDeployment /\ UNCHANGED opVars
    <3>1. dep' \in {dep, Applied(dep, obj)} /\ hist' \in {hist, [hist EXCEPT !.broken = TRUE]}
      BY <2>20 DEF ReconcileDeployment, Broken
    <3>2. dep' \in Deployments /\ hist' \in Histories
      BY <3>1, DeploymentTypes, HistoryTypes
    <3> QED
      BY <2>20, <3>2, WorkloadTypes, BudgetTypes DEF ReconcileDeployment, Return, Goto
  <2>21. CASE ReconcileService /\ UNCHANGED opVars
    BY <2>21, WorkloadTypes, HistoryTypes, BudgetTypes
    DEF ReconcileService, Return, Goto, Broken
  <2>22. CASE SetFailed /\ UNCHANGED opVars
    BY <2>22, WorkloadTypes, BudgetTypes DEF SetFailed, GotoWith
  <2>23. CASE ReportFailed /\ UNCHANGED opVars
    BY <2>23, WorkloadTypes, RowTypes, BudgetTypes DEF ReportFailed, Return
  <2>24. CASE CheckUnschedulable /\ UNCHANGED opVars
    BY <2>24, BudgetTypes DEF CheckUnschedulable, Goto
  <2>25. CASE ReleaseClaim /\ UNCHANGED opVars
    <3>1. row' \in Rows
      BY <2>25, RowTypes DEF ReleaseClaim, Reopened
    <3>2. hist.released \in InFlight \cup {"no"}
      BY DEF Histories
    <3>3. hist' = hist \/ \E st \in InFlight \cup {"no"} : hist' = [hist EXCEPT !.released = st]
      <4>1. CASE Reopened
        <5>1. row.st \in InFlight
          BY <4>1, RowTypes DEF Reopened
        <5> QED
          BY <4>1, <5>1, <3>2 DEF Reopened
      <4> QED
        BY <2>25, <4>1 DEF ReleaseClaim
    <3>4. hist' \in Histories
      <4>1. hist \in Histories
        BY DEF ObjTypeOK
      <4> QED
        BY <3>3, <4>1, HistoryTypes, Zenon
    <3> QED
      BY <2>25, <3>1, <3>4, BudgetTypes DEF ReleaseClaim, Goto
  <2>26. CASE ReleaseDelete /\ UNCHANGED opVars
    BY <2>26, WorkloadTypes, BudgetTypes DEF ReleaseDelete, Goto, Return
  <2>27. CASE SyncConvex /\ UNCHANGED opVars
    BY <2>27, WorkloadTypes, RowTypes, HistoryTypes, BudgetTypes
    DEF SyncConvex, Goto, GotoWith, UpsertedRow
  <2>28. CASE UpdateStatus /\ UNCHANGED opVars
    BY <2>28, WorkloadTypes DEF UpdateStatus, Return, GotoWith
  <2>29. CASE SyncConvexLifecyclePhase /\ UNCHANGED opVars
    <3>1. Reported(obj.phase) \in {"active", "stopped", "failed"}
      BY DEF Reported
    <3>2. row' \in Rows
      BY <2>29, <3>1, RowTypes DEF SyncConvexLifecyclePhase
    <3>3. hist' \in Histories
      BY <2>29, HistoryTypes DEF SyncConvexLifecyclePhase, Answered
    <3> QED
      BY <2>29, <3>2, <3>3, WorkloadTypes, BudgetTypes
      DEF SyncConvexLifecyclePhase, GotoWith
  <2>30. CASE SaveStatus /\ UNCHANGED opVars
    BY <2>30, WorkloadTypes, BudgetTypes DEF SaveStatus, Return
  <2>31. CASE ClaimOperation /\ UNCHANGED ctlVars
    <3>1. row' \in Rows
      BY <2>31, RowTypes DEF ClaimOperation
    <3> QED
      BY <2>31, <3>1, BudgetTypes DEF ClaimOperation
  <2>32. CASE Redeploy /\ UNCHANGED ctlVars
    BY <2>32, WorkloadTypes, HistoryTypes, BudgetTypes
    DEF Redeploy, GetAndUpdate, NextItem, Report
  <2>33. CASE SetSuspended /\ UNCHANGED ctlVars
    BY <2>33, WorkloadTypes, BudgetTypes
    DEF SetSuspended, GetAndUpdate, NextItem, Report
  <2>34. CASE Destroy /\ UNCHANGED ctlVars
    BY <2>34, WorkloadTypes, BudgetTypes DEF Destroy, NextItem, Report
  <2>35. CASE ReportOutcome /\ UNCHANGED ctlVars
    BY <2>35, RowTypes, BudgetTypes DEF ReportOutcome, NextItem
  <2>36. CASE LeaseExpiresIdle
    BY <2>36, RowTypes DEF LeaseExpiresIdle
  <2>37. CASE Crash
    <3>1. queued' \in BOOLEAN
      BY <2>37 DEF Crash, Workloads
    <3> QED
      BY <2>37, <3>1, WorkloadTypes, DeploymentTypes, BudgetTypes DEF Crash
  <2>38. CASE UNCHANGED vars
    BY <2>38 DEF vars, objVars
  <2> QED
    BY <2>1, <2>2, <2>3, <2>4, <2>5, <2>6, <2>7, <2>8, <2>9, <2>10, <2>11, <2>12, <2>13,
       <2>14, <2>15, <2>16, <2>17, <2>18, <2>19, <2>20, <2>21, <2>22, <2>23, <2>24,
       <2>25, <2>26, <2>27, <2>28, <2>29, <2>30, <2>31, <2>32, <2>33, <2>34, <2>35,
       <2>36, <2>37, <2>38
    DEF Next, EnvStep, ReconcileStep, PendingStep, Environment, Reconcile,
        ProcessPending
<1> QED
  BY <1>1, <1>2, PTL DEF Spec

\* How each edit of a Workload bears on its presence and its finalizer.
LEMMA EditFacts ==
  ASSUME NEW o \in Workloads
  PROVE  /\ ~Gone.live /\ ~Gone.finalizer /\ ~Gone.deleting
         /\ o.live /\ o.finalizer => Deleted(o).live /\ Deleted(o).finalizer
         /\ ~(o.live /\ o.finalizer) => Deleted(o) = Gone
         /\ o.deleting => WithoutFinalizer(o) = Gone
<1>1. ~Gone.live /\ ~Gone.finalizer /\ ~Gone.deleting
  BY DEF Gone
<1>2. o.live /\ o.finalizer => Deleted(o).live /\ Deleted(o).finalizer
  BY DEF Deleted, Workloads
<1>3. ~(o.live /\ o.finalizer) => Deleted(o) = Gone
  BY DEF Deleted
<1>4. o.deleting => WithoutFinalizer(o) = Gone
  BY DEF WithoutFinalizer
<1> QED
  BY <1>1, <1>2, <1>3, <1>4

\* Status writes (setFailed, updateStatus, the two conditions) leave metadata and
\* spec alone.
LEMMA StatusEdits ==
  ASSUME NEW o \in Workloads
  PROVE  /\ SameButStatus(o, o)
         /\ \A phase \in Phases : SameButStatus([o EXCEPT !.phase = phase], o)
         /\ \A ok \in BOOLEAN : SameButStatus(Synced(o, ok), o)
         /\ \A ok \in BOOLEAN : SameButStatus(LifecycleSynced(o, ok), o)
<1>1. SameButStatus(o, o)
  BY DEF SameButStatus
<1>2. \A phase \in Phases : SameButStatus([o EXCEPT !.phase = phase], o)
  BY DEF SameButStatus, Workloads
<1>3. \A ok \in BOOLEAN : SameButStatus(Synced(o, ok), o)
  BY DEF SameButStatus, Workloads, Synced
<1>4. \A ok \in BOOLEAN : SameButStatus(LifecycleSynced(o, ok), o)
  BY DEF SameButStatus, Workloads, LifecycleSynced
<1> QED
  BY <1>1, <1>2, <1>3, <1>4

\* Spec and metadata writes (Redeploy, SetSuspended, the finalizer) keep the
\* object, and take no finalizer off it.
LEMMA SpecEdits ==
  ASSUME NEW o \in Workloads
  PROVE  /\ LET n == Redeployed(o) IN
              n.live = o.live /\ n.finalizer = o.finalizer /\ n.deleting = o.deleting
         /\ \A suspended \in BOOLEAN : LET n == Suspended(o, suspended) IN
              n.live = o.live /\ n.finalizer = o.finalizer /\ n.deleting = o.deleting
         /\ LET n == [o EXCEPT !.finalizer = TRUE] IN
              n.live = o.live /\ n.finalizer /\ n.deleting = o.deleting
<1>1. ASSUME NEW x \in Workloads
      PROVE  LET n == NewGeneration(x) IN
               n.live = x.live /\ n.finalizer = x.finalizer /\ n.deleting = x.deleting
  BY DEF NewGeneration, Workloads
<1>2. ASSUME NEW suspended \in BOOLEAN
      PROVE  LET n == Suspended(o, suspended) IN
               n.live = o.live /\ n.finalizer = o.finalizer /\ n.deleting = o.deleting
  <2> DEFINE x == [o EXCEPT !.suspended = suspended]
  <2>1. x \in Workloads
    BY DEF Workloads
  <2>2. x.live = o.live /\ x.finalizer = o.finalizer /\ x.deleting = o.deleting
    BY DEF Workloads
  <2> HIDE DEF x
  <2>3. LET n == NewGeneration(x) IN
          n.live = o.live /\ n.finalizer = o.finalizer /\ n.deleting = o.deleting
    BY <1>1, <2>1, <2>2
  <2> QED
    BY <2>3 DEF Suspended, x
<1>3. LET n == [o EXCEPT !.finalizer = TRUE] IN
        n.live = o.live /\ n.finalizer /\ n.deleting = o.deleting
  BY DEF Workloads
<1> QED
  BY <1>1, <1>2, <1>3 DEF Redeployed

\* A removal told to Convex, or a finalizer cleared by hand, stays on record.
Marks(new, old) ==
  /\ old.removed => new.removed
  /\ old.forced => new.forced

\* Nothing the system does takes such a mark back.
LEMMA HistoryEdits ==
  ASSUME NEW h \in Histories
  PROVE  /\ Marks(h, h)
         /\ LET n == [h EXCEPT !.removed = TRUE] IN
              Marks(n, h) /\ n.upserted = h.upserted /\ n.removed
         /\ LET n == [h EXCEPT !.forced = TRUE] IN
              Marks(n, h) /\ n.upserted = h.upserted /\ n.forced
         /\ LET n == [h EXCEPT !.broken = TRUE] IN
              Marks(n, h) /\ n.upserted = h.upserted
         /\ \A st : LET n == [h EXCEPT !.released = st] IN
              Marks(n, h) /\ n.upserted = h.upserted
BY DEF Marks, Histories

\* A step that keeps the finalizer's guarantee: the object stays as it was,
\* stays with its finalizer, or goes with Held's licence; copies come from
\* other copies; Convex learns the name only from a pinned reconcile.
GuardedStep ==
  /\ cache' \in {cache, w}
  /\ base' \in {base, Gone, cache, w'}
  /\ \/ w' = w
     \/ w.live /\ w'.live /\ (w.finalizer => w'.finalizer)
     \/ w' = Gone /\ (hist'.removed \/ hist'.forced \/ (w.live /\ ~w.finalizer))
  /\ Marks(hist', hist)
  /\ hist'.upserted => hist.upserted \/ Pinned
  /\ Pinned' => Pinned \/ base'.finalizer

\* Guarded steps preserve the two conjuncts that are about copies.
LEMMA GuardedStepKeeps ==
  ASSUME TypeOK, TypeOK', NoGhosts, FinalizerHeld, GuardedStep
  PROVE  NoGhosts' /\ FinalizerHeld'
<1>1. NoGhosts'
  BY EditFacts DEF NoGhosts, GuardedStep, TypeOK
<1>2. FinalizerHeld'
  <2>1. CASE w' = w
    BY <2>1, EditFacts DEF FinalizerHeld, GuardedStep, Held, Marks, TypeOK
  <2>2. CASE w.live /\ w'.live /\ (w.finalizer => w'.finalizer)
    BY <2>2, EditFacts DEF FinalizerHeld, GuardedStep, Held, Marks, TypeOK
  <2>3. CASE w' = Gone /\ (hist'.removed \/ hist'.forced \/ (w.live /\ ~w.finalizer))
    BY <2>3, EditFacts DEF FinalizerHeld, GuardedStep, Held, Marks, TypeOK
  <2> QED
    BY <2>1, <2>2, <2>3 DEF GuardedStep
<1> QED
  BY <1>1, <1>2

\* The inductive invariant of the finalizer: once any copy of the Workload, or
\* Convex, shows that Reconcile's finalizer was written, the object keeps it
\* until reconcileDelete has been answered or somebody clears it.
THEOREM FinalizerInvariant == Spec => [](TypeOK /\ FinalizerInv)
<1>1. Init => FinalizerInv
  BY DEF Init, ObjInit, CtlInit, FinalizerInv, NoGhosts, FinalizerHeld, ObjectAtPC,
         Pinned, Created, Gone
<1>2. TypeOK /\ TypeOK' /\ FinalizerInv /\ [Next]_vars => FinalizerInv'
  <2> SUFFICES ASSUME TypeOK, TypeOK', FinalizerInv, [Next]_vars,
                      GuardedStep => NoGhosts' /\ FinalizerHeld'
               PROVE  FinalizerInv'
    BY GuardedStepKeeps DEF FinalizerInv
  <2> USE DEF TypeOK, FinalizerInv, ctlVars, opVars
  <2>1. CASE ForceDelete /\ UNCHANGED <<ctlVars, opVars>>
    <3>1. GuardedStep
      BY <2>1, EditFacts, HistoryEdits DEF GuardedStep, ObjectAtPC, Pinned, ForceDelete
    <3>2. ObjectAtPC'
      BY <2>1, <3>1 DEF ObjectAtPC, Pinned, Marks, GuardedStep, ForceDelete
    <3> QED
      BY <3>1, <3>2
  <2>2. CASE WatchWorkload /\ UNCHANGED <<hist, ctlVars, opVars>>
    <3>1. GuardedStep
      BY <2>2, HistoryEdits DEF GuardedStep, ObjectAtPC, Pinned, WatchWorkload
    <3>2. ObjectAtPC'
      BY <2>2, <3>1 DEF ObjectAtPC, Pinned, Marks, GuardedStep, WatchWorkload
    <3> QED
      BY <3>1, <3>2
  <2>3. CASE WatchDeployment /\ UNCHANGED <<hist, ctlVars, opVars>>
    <3>1. GuardedStep
      BY <2>3, HistoryEdits DEF GuardedStep, ObjectAtPC, Pinned, WatchDeployment
    <3>2. ObjectAtPC'
      BY <2>3, <3>1 DEF ObjectAtPC, Pinned, Marks, GuardedStep, WatchDeployment
    <3> QED
      BY <3>1, <3>2
  <2>4. CASE PodReady /\ UNCHANGED <<hist, ctlVars, opVars>>
    <3>1. GuardedStep
      BY <2>4, HistoryEdits DEF GuardedStep, ObjectAtPC, Pinned, PodReady
    <3>2. ObjectAtPC'
      BY <2>4, <3>1 DEF ObjectAtPC, Pinned, Marks, GuardedStep, PodReady
    <3> QED
      BY <3>1, <3>2
  <2>5. CASE PodTerminated /\ UNCHANGED <<hist, ctlVars, opVars>>
    <3>1. GuardedStep
      BY <2>5, HistoryEdits DEF GuardedStep, ObjectAtPC, Pinned, PodTerminated
    <3>2. ObjectAtPC'
      BY <2>5, <3>1 DEF ObjectAtPC, Pinned, Marks, GuardedStep, PodTerminated
    <3> QED
      BY <3>1, <3>2
  <2>6. CASE PodFails /\ UNCHANGED <<hist, ctlVars, opVars>>
    <3>1. GuardedStep
      BY <2>6, HistoryEdits DEF GuardedStep, ObjectAtPC, Pinned, PodFails
    <3>2. ObjectAtPC'
      BY <2>6, <3>1 DEF ObjectAtPC, Pinned, Marks, GuardedStep, PodFails
    <3> QED
      BY <3>1, <3>2
  <2>7. CASE PodUnschedulable /\ UNCHANGED <<hist, ctlVars, opVars>>
    <3>1. GuardedStep
      BY <2>7, HistoryEdits DEF GuardedStep, ObjectAtPC, Pinned, PodUnschedulable
    <3>2. ObjectAtPC'
      BY <2>7, <3>1 DEF ObjectAtPC, Pinned, Marks, GuardedStep, PodUnschedulable
    <3> QED
      BY <3>1, <3>2
  <2>8. CASE PodUnstuck /\ UNCHANGED <<hist, ctlVars, opVars>>
    <3>1. GuardedStep
      BY <2>8, HistoryEdits DEF GuardedStep, ObjectAtPC, Pinned, PodUnstuck
    <3>2. ObjectAtPC'
      BY <2>8, <3>1 DEF ObjectAtPC, Pinned, Marks, GuardedStep, PodUnstuck
    <3> QED
      BY <3>1, <3>2
  <2>9. CASE DeploymentDeleted /\ UNCHANGED <<hist, ctlVars, opVars>>
    <3>1. GuardedStep
      BY <2>9, HistoryEdits DEF GuardedStep, ObjectAtPC, Pinned, DeploymentDeleted
    <3>2. ObjectAtPC'
      BY <2>9, <3>1 DEF ObjectAtPC, Pinned, Marks, GuardedStep, DeploymentDeleted
    <3> QED
      BY <3>1, <3>2
  <2>10. CASE UserDelete /\ UNCHANGED <<hist, ctlVars, opVars>>
    <3>1. GuardedStep
      BY <2>10, EditFacts, HistoryEdits
      DEF GuardedStep, ObjectAtPC, Pinned, NoGhosts, UserDelete
    <3>2. ObjectAtPC'
      BY <2>10, <3>1 DEF ObjectAtPC, Pinned, Marks, GuardedStep, UserDelete
    <3> QED
      BY <3>1, <3>2
  <2>11. CASE UserRequest /\ UNCHANGED <<hist, ctlVars, opVars>>
    <3>1. GuardedStep
      BY <2>11, HistoryEdits DEF GuardedStep, ObjectAtPC, Pinned, UserRequest
    <3>2. ObjectAtPC'
      BY <2>11, <3>1 DEF ObjectAtPC, Pinned, Marks, GuardedStep, UserRequest
    <3> QED
      BY <3>1, <3>2
  <2>12. CASE LeaseExpires /\ UNCHANGED <<hist, ctlVars, opVars>>
    <3>1. GuardedStep
      BY <2>12, HistoryEdits DEF GuardedStep, ObjectAtPC, Pinned, LeaseExpires
    <3>2. ObjectAtPC'
      BY <2>12, <3>1 DEF ObjectAtPC, Pinned, Marks, GuardedStep, LeaseExpires
    <3> QED
      BY <3>1, <3>2
  <2>13. CASE OtherClaims /\ UNCHANGED <<hist, ctlVars, opVars>>
    <3>1. GuardedStep
      BY <2>13, HistoryEdits DEF GuardedStep, ObjectAtPC, Pinned, OtherClaims
    <3>2. ObjectAtPC'
      BY <2>13, <3>1 DEF ObjectAtPC, Pinned, Marks, GuardedStep, OtherClaims
    <3> QED
      BY <3>1, <3>2
  <2>14. CASE OtherActive /\ UNCHANGED <<hist, ctlVars, opVars>>
    <3>1. GuardedStep
      BY <2>14, HistoryEdits DEF GuardedStep, ObjectAtPC, Pinned, OtherActive
    <3>2. ObjectAtPC'
      BY <2>14, <3>1 DEF ObjectAtPC, Pinned, Marks, GuardedStep, OtherActive
    <3> QED
      BY <3>1, <3>2
  <2>15. CASE Start /\ UNCHANGED opVars
    <3>1. GuardedStep
      BY <2>15, HistoryEdits
      DEF GuardedStep, ObjectAtPC, Pinned, Start, SameButStatus, Phases
    <3>2. ObjectAtPC'
      BY <2>15, <3>1, StatusEdits
      DEF ObjectAtPC, Pinned, Marks, GuardedStep, Start, SameButStatus, Phases
    <3> QED
      BY <3>1, <3>2
  <2>16. CASE NotifyGone /\ UNCHANGED opVars
    <3>1. GuardedStep
      BY <2>16, HistoryEdits
      DEF GuardedStep, ObjectAtPC, Pinned, NotifyGone, RemovedRow, Return
    <3>2. ObjectAtPC'
      BY <2>16, <3>1
      DEF ObjectAtPC, Pinned, Marks, GuardedStep, NotifyGone, RemovedRow, Return
    <3> QED
      BY <3>1, <3>2
  <2>17. CASE NotifyRemoved /\ UNCHANGED opVars
    <3>1. GuardedStep
      BY <2>17, HistoryEdits
      DEF GuardedStep, Pinned, NotifyRemoved, RemovedRow, Return, Goto
    <3>2. pc' = "dropFinalizer" => hist'.removed
      BY <2>17, HistoryEdits DEF NotifyRemoved, RemovedRow, Return, Goto
    <3>3. ObjectAtPC'
      BY <2>17, <3>2 DEF ObjectAtPC, Pinned, NotifyRemoved, Return, Goto
    <3> QED
      BY <3>1, <3>3
  <2>18. CASE DropFinalizer /\ UNCHANGED opVars
    <3>1. GuardedStep
      BY <2>18, EditFacts, HistoryEdits
      DEF GuardedStep, ObjectAtPC, Pinned, DropFinalizer, Return
    <3>2. ObjectAtPC'
      BY <2>18, <3>1 DEF ObjectAtPC, Pinned, Marks, GuardedStep, DropFinalizer, Return
    <3> QED
      BY <3>1, <3>2
  <2>19. CASE AddFinalizer /\ UNCHANGED opVars
    <3> DEFINE finalized == [obj EXCEPT !.finalizer = TRUE]
    <3>1. obj = base /\ base.live /\ ~base.deleting /\ ~Pinned
      BY <2>19 DEF ObjectAtPC, AddFinalizer, Pinned
    <3>2. finalized.live /\ finalized.finalizer /\ ~finalized.deleting
      BY <3>1, SpecEdits
    <3>3. SameButStatus(finalized, finalized)
      BY DEF SameButStatus
    <3>4. /\ cache' = cache /\ hist' = hist
          /\ w' = w \/ (base = w /\ w' = finalized)
          /\ \/ pc' = "deployment" /\ obj' = finalized /\ base' = finalized /\ w' = finalized
             \/ pc' = "idle" /\ base' = Gone
      BY <2>19 DEF AddFinalizer, Return
    <3> HIDE DEF finalized
    <3>5. GuardedStep
      BY <3>1, <3>2, <3>4, HistoryEdits DEF GuardedStep, Pinned
    <3>6. ObjectAtPC'
      BY <3>2, <3>3, <3>4 DEF ObjectAtPC, Pinned
    <3> QED
      BY <3>5, <3>6
  <2>20. CASE ReconcileDeployment /\ UNCHANGED opVars
    <3>1. GuardedStep
      BY <2>20, HistoryEdits
      DEF GuardedStep, ObjectAtPC, Pinned, ReconcileDeployment, Return, Goto, Broken
    <3>2. ObjectAtPC'
      BY <2>20, <3>1
      DEF ObjectAtPC, Pinned, Marks, GuardedStep, ReconcileDeployment, Return, Goto,
          Broken
    <3> QED
      BY <3>1, <3>2
  <2>21. CASE ReconcileService /\ UNCHANGED opVars
    <3>1. GuardedStep
      BY <2>21, HistoryEdits
      DEF GuardedStep, ObjectAtPC, Pinned, ReconcileService, Return, Goto, Broken
    <3>2. ObjectAtPC'
      BY <2>21, <3>1
      DEF ObjectAtPC, Pinned, Marks, GuardedStep, ReconcileService, Return, Goto, Broken
    <3> QED
      BY <3>1, <3>2
  <2>22. CASE SetFailed /\ UNCHANGED opVars
    <3> DEFINE failed == [obj EXCEPT !.phase = "Failed"]
    <3>1. base.live /\ base.finalizer /\ SameButStatus(obj, base)
      BY <2>22 DEF ObjectAtPC, SetFailed, Pinned
    <3>2. SameButStatus(failed, base) /\ failed.live /\ failed.finalizer
      BY <3>1, StatusEdits DEF SameButStatus, Phases
    <3>3. /\ cache' = cache /\ hist' = hist /\ base' = base
          /\ w' = w \/ (base = w /\ w' = failed)
          /\ pc' = "reportFailed" /\ obj' = failed /\ pc = "setFailed"
      BY <2>22 DEF SetFailed, GotoWith
    <3> HIDE DEF failed
    <3>4. GuardedStep
      BY <3>1, <3>2, <3>3, HistoryEdits DEF GuardedStep, Pinned
    <3>5. ObjectAtPC'
      BY <3>2, <3>3 DEF ObjectAtPC, Pinned
    <3> QED
      BY <3>4, <3>5
  <2>23. CASE ReportFailed /\ UNCHANGED opVars
    <3>1. GuardedStep
      BY <2>23, HistoryEdits DEF GuardedStep, ObjectAtPC, Pinned, ReportFailed, Return
    <3>2. ObjectAtPC'
      BY <2>23, <3>1 DEF ObjectAtPC, Pinned, Marks, GuardedStep, ReportFailed, Return
    <3> QED
      BY <3>1, <3>2
  <2>24. CASE CheckUnschedulable /\ UNCHANGED opVars
    <3>1. GuardedStep
      BY <2>24, HistoryEdits
      DEF GuardedStep, ObjectAtPC, Pinned, CheckUnschedulable, Goto
    <3>2. ObjectAtPC'
      BY <2>24, <3>1
      DEF ObjectAtPC, Pinned, Marks, GuardedStep, CheckUnschedulable, Goto
    <3> QED
      BY <3>1, <3>2
  <2>25. CASE ReleaseClaim /\ UNCHANGED opVars
    <3>1. GuardedStep
      BY <2>25, HistoryEdits
      DEF GuardedStep, ObjectAtPC, Pinned, ReleaseClaim, Goto, Reopened
    <3>2. ObjectAtPC'
      BY <2>25, <3>1
      DEF ObjectAtPC, Pinned, Marks, GuardedStep, ReleaseClaim, Goto, Reopened
    <3> QED
      BY <3>1, <3>2
  <2>26. CASE ReleaseDelete /\ UNCHANGED opVars
    <3>1. GuardedStep
      BY <2>26, EditFacts, HistoryEdits
      DEF GuardedStep, ObjectAtPC, Pinned, NoGhosts, ReleaseDelete, Goto, Return
    <3>2. ObjectAtPC'
      BY <2>26, <3>1
      DEF ObjectAtPC, Pinned, Marks, GuardedStep, ReleaseDelete, Goto, Return
    <3> QED
      BY <3>1, <3>2
  <2>27. CASE SyncConvex /\ UNCHANGED opVars
    <3>1. /\ w' = w /\ cache' = cache /\ base' \in {base, Gone}
          /\ Pinned /\ SameButStatus(obj, base)
          /\ Pinned' => pc' \in {"status", "report", "save"} /\ base' = base
      BY <2>27 DEF ObjectAtPC, SyncConvex, UpsertedRow, Goto, GotoWith, Pinned
    <3>2. Marks(hist', hist)
      BY <2>27 DEF Marks, Histories, SyncConvex, UpsertedRow, Goto, GotoWith
    <3>3. GuardedStep
      BY <3>1, <3>2 DEF GuardedStep
    <3>4. Pinned' => SameButStatus(obj', obj)
      BY <2>27, StatusEdits DEF SyncConvex, UpsertedRow, Goto, GotoWith, Pinned
    <3>5. ObjectAtPC'
      BY <2>27, <3>1, <3>4
      DEF ObjectAtPC, Pinned, SameButStatus, SyncConvex, UpsertedRow, Goto, GotoWith
    <3> QED
      BY <3>3, <3>5
  <2>28. CASE UpdateStatus /\ UNCHANGED opVars
    <3>1. /\ w' = w /\ cache' = cache /\ base' \in {base, Gone}
          /\ Pinned /\ SameButStatus(obj, base)
          /\ Pinned' => pc' \in {"status", "report", "save"} /\ base' = base
      BY <2>28 DEF ObjectAtPC, UpdateStatus, Return, GotoWith, Pinned
    <3>2. Marks(hist', hist)
      BY <2>28 DEF Marks, Histories, UpdateStatus, Return, GotoWith
    <3>3. GuardedStep
      BY <3>1, <3>2 DEF GuardedStep
    <3>4. Pinned' => SameButStatus(obj', obj)
      BY <2>28, StatusEdits DEF PhaseFor, Phases, UpdateStatus, Return, GotoWith, Pinned
    <3>5. ObjectAtPC'
      BY <2>28, <3>1, <3>4
      DEF ObjectAtPC, Pinned, SameButStatus, UpdateStatus, Return, GotoWith
    <3> QED
      BY <3>3, <3>5
  <2>29. CASE SyncConvexLifecyclePhase /\ UNCHANGED opVars
    <3>1. /\ w' = w /\ cache' = cache /\ base' \in {base, Gone}
          /\ Pinned /\ SameButStatus(obj, base)
          /\ Pinned' => pc' \in {"status", "report", "save"} /\ base' = base
      BY <2>29 DEF ObjectAtPC, SyncConvexLifecyclePhase, Answered, GotoWith, Pinned
    <3>2. Marks(hist', hist)
      BY <2>29 DEF Marks, Histories, SyncConvexLifecyclePhase, Answered, GotoWith
    <3>3. GuardedStep
      BY <3>1, <3>2 DEF GuardedStep
    <3>4. Pinned' => SameButStatus(obj', obj)
      BY <2>29, StatusEdits DEF SyncConvexLifecyclePhase, Answered, GotoWith, Pinned
    <3>5. ObjectAtPC'
      BY <2>29, <3>1, <3>4
      DEF ObjectAtPC, Pinned, SameButStatus, SyncConvexLifecyclePhase, Answered,
          GotoWith
    <3> QED
      BY <3>3, <3>5
  <2>30. CASE SaveStatus /\ UNCHANGED opVars
    <3>1. GuardedStep
      BY <2>30, StatusEdits, HistoryEdits
      DEF GuardedStep, ObjectAtPC, Pinned, SaveStatus, Return, SameButStatus, Phases
    <3>2. ObjectAtPC'
      BY <2>30, <3>1
      DEF ObjectAtPC, Pinned, Marks, GuardedStep, SaveStatus, Return, SameButStatus,
          Phases
    <3> QED
      BY <3>1, <3>2
  <2>31. CASE ClaimOperation /\ UNCHANGED ctlVars
    <3>1. GuardedStep
      BY <2>31, HistoryEdits DEF GuardedStep, ObjectAtPC, Pinned, ClaimOperation
    <3>2. ObjectAtPC'
      BY <2>31, <3>1 DEF ObjectAtPC, Pinned, Marks, GuardedStep, ClaimOperation
    <3> QED
      BY <3>1, <3>2
  <2>32. CASE Redeploy /\ UNCHANGED ctlVars
    <3>1. GuardedStep
      BY <2>32, SpecEdits, HistoryEdits
      DEF GuardedStep, ObjectAtPC, Pinned, Redeploy, GetAndUpdate, NextItem, Report
    <3>2. ObjectAtPC'
      BY <2>32, <3>1
      DEF ObjectAtPC, Pinned, Marks, GuardedStep, Redeploy, GetAndUpdate, NextItem,
          Report
    <3> QED
      BY <3>1, <3>2
  <2>33. CASE SetSuspended /\ UNCHANGED ctlVars
    <3>1. GuardedStep
      BY <2>33, SpecEdits, HistoryEdits
      DEF GuardedStep, ObjectAtPC, Pinned, SetSuspended, GetAndUpdate, NextItem, Report
    <3>2. ObjectAtPC'
      BY <2>33, <3>1
      DEF ObjectAtPC, Pinned, Marks, GuardedStep, SetSuspended, GetAndUpdate, NextItem,
          Report
    <3> QED
      BY <3>1, <3>2
  <2>34. CASE Destroy /\ UNCHANGED ctlVars
    <3>1. GuardedStep
      BY <2>34, EditFacts, HistoryEdits
      DEF GuardedStep, ObjectAtPC, Pinned, NoGhosts, Destroy, NextItem, Report
    <3>2. ObjectAtPC'
      BY <2>34, <3>1
      DEF ObjectAtPC, Pinned, Marks, GuardedStep, Destroy, NextItem, Report
    <3> QED
      BY <3>1, <3>2
  <2>35. CASE ReportOutcome /\ UNCHANGED ctlVars
    <3>1. GuardedStep
      BY <2>35, HistoryEdits
      DEF GuardedStep, ObjectAtPC, Pinned, ReportOutcome, NextItem
    <3>2. ObjectAtPC'
      BY <2>35, <3>1 DEF ObjectAtPC, Pinned, Marks, GuardedStep, ReportOutcome, NextItem
    <3> QED
      BY <3>1, <3>2
  <2>36. CASE LeaseExpiresIdle
    <3>1. GuardedStep
      BY <2>36, HistoryEdits DEF GuardedStep, ObjectAtPC, Pinned, LeaseExpiresIdle
    <3>2. ObjectAtPC'
      BY <2>36, <3>1 DEF ObjectAtPC, Pinned, Marks, GuardedStep, LeaseExpiresIdle
    <3> QED
      BY <3>1, <3>2
  <2>37. CASE Crash
    <3>1. GuardedStep
      BY <2>37, HistoryEdits DEF GuardedStep, ObjectAtPC, Pinned, Crash
    <3>2. ObjectAtPC'
      BY <2>37, <3>1 DEF ObjectAtPC, Pinned, Marks, GuardedStep, Crash
    <3> QED
      BY <3>1, <3>2
  <2>38. CASE UNCHANGED vars
    <3>1. GuardedStep
      BY <2>38, HistoryEdits DEF GuardedStep, ObjectAtPC, Pinned, vars, objVars
    <3>2. ObjectAtPC'
      BY <2>38, <3>1 DEF ObjectAtPC, Pinned, Marks, GuardedStep, vars, objVars
    <3> QED
      BY <3>1, <3>2
  <2> QED
    BY <2>1, <2>2, <2>3, <2>4, <2>5, <2>6, <2>7, <2>8, <2>9, <2>10, <2>11, <2>12, <2>13,
       <2>14, <2>15, <2>16, <2>17, <2>18, <2>19, <2>20, <2>21, <2>22, <2>23, <2>24,
       <2>25, <2>26, <2>27, <2>28, <2>29, <2>30, <2>31, <2>32, <2>33, <2>34, <2>35,
       <2>36, <2>37, <2>38
    DEF Next, EnvStep, ReconcileStep, PendingStep, Environment, Reconcile,
        ProcessPending
<1> QED
  BY <1>1, <1>2, TypeCorrect, PTL DEF Spec

\* The promise of workloadFinalizer and reconcileDelete, whatever calls are
\* lost and whenever the process restarts: a workload whose name Convex has
\* recorded is gone only after Convex processed its removal, or by hand.
THEOREM RemovalIsNeverLost == Spec => []KnownNeverLost
<1>1. TypeOK /\ FinalizerInv => KnownNeverLost
  BY DEF FinalizerInv, FinalizerHeld, Held, KnownNeverLost
<1> QED
  BY <1>1, FinalizerInvariant, PTL
================================================================================
