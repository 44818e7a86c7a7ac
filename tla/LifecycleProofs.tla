---------------------------- MODULE LifecycleProofs ----------------------------
(***************************************************************************)
(* What is proved of WorkloadLifecycle beyond its types and its finalizer: *)
(* that the condition ConvexLifecycleSynced never claims an answer Convex  *)
(* did not give; that the two goroutines' reports leave no failure without *)
(* an error and no destroyed row for a reopened create; and that Reconcile *)
(* stops requeueing only when nothing is left to do.                       *)
(***************************************************************************)
EXTENDS WorkloadLifecycleProofs

USE DEF ObjTypeOK, CtlTypeOK, OpTypeOK
--------------------------------------------------------------------------------
(* Answers: the condition is keyed by the generation alone.                *)

\* Convex's answers are never taken back.
LEMMA TruthfulForever ==
  ASSUME NEW o, NEW told, NEW more, Truthful(o, told), told \subseteq more
  PROVE  Truthful(o, more)
BY DEF Truthful

\* No edit of a truthful object but an answered report adds a claim.
LEMMA TruthfulEdits ==
  ASSUME NEW o \in Workloads, NEW told, Truthful(o, told)
  PROVE  /\ Truthful(Gone, told)
         /\ Truthful(Deleted(o), told)
         /\ Truthful(WithoutFinalizer(o), told)
         /\ Truthful([o EXCEPT !.finalizer = TRUE], told)
         /\ \A phase \in Phases : Truthful([o EXCEPT !.phase = phase], told)
         /\ \A ok \in BOOLEAN : Truthful(Synced(o, ok), told)
         /\ Truthful(LifecycleSynced(o, FALSE), told)
         /\ Truthful(Redeployed(o), told)
         /\ \A suspended \in BOOLEAN : Truthful(Suspended(o, suspended), told)
<1>1. Truthful(Gone, told)
  BY DEF Truthful, Gone
<1>2. Truthful(Deleted(o), told) /\ Truthful(WithoutFinalizer(o), told)
  BY <1>1 DEF Truthful, Deleted, WithoutFinalizer, Workloads
<1>3. Truthful([o EXCEPT !.finalizer = TRUE], told)
  BY <1>1 DEF Truthful, Workloads
<1>4. \A phase \in Phases : Truthful([o EXCEPT !.phase = phase], told)
  BY <1>1 DEF Truthful, Workloads
<1>5. \A ok \in BOOLEAN : Truthful(Synced(o, ok), told)
  BY <1>1 DEF Truthful, Synced, Workloads
<1>6. Truthful(LifecycleSynced(o, FALSE), told)
  BY <1>1 DEF Truthful, LifecycleSynced, Workloads
<1>7. ASSUME NEW x \in Workloads, x.live => x.gen > 0 /\ x.lifecycle <= x.gen
      PROVE  Truthful(NewGeneration(x), told)
  BY <1>7 DEF Truthful, NewGeneration, Workloads
<1>8. ASSUME NEW suspended \in BOOLEAN PROVE Truthful(Suspended(o, suspended), told)
  <2> DEFINE x == [o EXCEPT !.suspended = suspended]
  <2>1. x \in Workloads /\ (x.live => x.gen > 0 /\ x.lifecycle <= x.gen)
    BY <1>1 DEF Workloads, Truthful
  <2> HIDE DEF x
  <2>2. Truthful(NewGeneration(x), told)
    BY <1>7, <2>1
  <2> QED
    BY <1>1, <2>2 DEF Suspended, x
<1>9. Truthful(Redeployed(o), told)
  BY <1>1, <1>7 DEF Redeployed, Truthful
<1> QED
  BY <1>1, <1>2, <1>3, <1>4, <1>5, <1>6, <1>8, <1>9

\* What an answered report of the object's own phase settles.
LEMMA AnsweredIsTruthful ==
  ASSUME NEW o \in Workloads, NEW told, Truthful(o, told),
         o.phase = (IF o.suspended THEN "Stopped" ELSE "Running")
  PROVE  Truthful(LifecycleSynced(o, TRUE), told \cup {<<o.gen, Reported(o.phase)>>})
<1>1. Reported(o.phase) = IF o.suspended THEN "stopped" ELSE "active"
  BY DEF Reported
<1> QED
  BY <1>1 DEF Truthful, LifecycleSynced, Workloads

\* The other marks of the history do not touch the answers.
LEMMA ToldGrows ==
  ASSUME NEW h \in Histories
  PROVE  /\ [h EXCEPT !.removed = TRUE].told = h.told
         /\ [h EXCEPT !.forced = TRUE].told = h.told
         /\ [h EXCEPT !.broken = TRUE].told = h.told
         /\ \A st : [h EXCEPT !.released = st].told = h.told
         /\ \A t : [h EXCEPT !.told = t].told = t
BY DEF Histories

\* A step that adds no unanswered claim: the cache and the reconciler's base
\* version copy other versions, and what is new is truthful.
CopyStep ==
  /\ hist.told \subseteq hist'.told
  /\ cache' \in {cache, w}
  /\ base' \in {base, Gone, cache, w'}
  /\ w' = w \/ Truthful(w', hist.told)
  /\ obj' \in {obj, cache} \/ Truthful(obj', hist.told) \/ Truthful(obj', hist'.told)
  /\ pc' = "report" =>
       \/ obj' = obj /\ pc = "report"
       \/ obj'.phase = (IF obj'.suspended THEN "Stopped" ELSE "Running")

\* Such steps preserve the invariant.
LEMMA CopyStepKeeps ==
  ASSUME TypeOK, TypeOK', AnsweredInv, CopyStep
  PROVE  AnsweredInv'
<1>1. /\ Truthful(w, hist'.told) /\ Truthful(cache, hist'.told)
      /\ Truthful(base, hist'.told) /\ Truthful(obj, hist'.told)
  BY TruthfulForever DEF AnsweredInv, CopyStep
<1>2. Truthful(Gone, hist'.told)
  BY DEF Truthful, Gone
<1>3. Truthful(w', hist'.told) /\ Truthful(obj', hist'.told)
  BY <1>1, TruthfulForever DEF CopyStep
<1> QED
  BY <1>1, <1>2, <1>3 DEF AnsweredInv, CopyStep

\* The inductive step behind AnsweredForGeneration.
THEOREM AnsweredInvariant == Spec => [](TypeOK /\ AnsweredInv)
<1>1. Init => AnsweredInv
  BY DEF Init, ObjInit, CtlInit, AnsweredInv, Truthful, Created, Gone
<1>2. TypeOK /\ TypeOK' /\ AnsweredInv /\ [Next]_vars => AnsweredInv'
  <2> SUFFICES ASSUME TypeOK, TypeOK', AnsweredInv, [Next]_vars PROVE CopyStep
    BY CopyStepKeeps
  <2>1. /\ Truthful(Gone, hist.told)
        /\ Truthful(Deleted(w), hist.told) /\ Truthful(WithoutFinalizer(w), hist.told)
        /\ Truthful(Redeployed(w), hist.told)
        /\ Truthful(Suspended(w, TRUE), hist.told)
        /\ Truthful(Suspended(w, FALSE), hist.told)
    BY TruthfulEdits DEF TypeOK, AnsweredInv
  <2>2. /\ Truthful([obj EXCEPT !.finalizer = TRUE], hist.told)
        /\ \A phase \in Phases : Truthful([obj EXCEPT !.phase = phase], hist.told)
        /\ Truthful(Synced(obj, TRUE), hist.told) /\ Truthful(Synced(obj, FALSE), hist.told)
        /\ Truthful(LifecycleSynced(obj, FALSE), hist.told)
    BY TruthfulEdits DEF TypeOK, AnsweredInv
  <2> USE DEF TypeOK, AnsweredInv, CopyStep, ctlVars, opVars
  <2>3. CASE ForceDelete /\ UNCHANGED <<ctlVars, opVars>>
    BY <2>3, <2>1, ToldGrows DEF ForceDelete
  <2>4. CASE WatchWorkload /\ UNCHANGED <<hist, ctlVars, opVars>>
    BY <2>4 DEF WatchWorkload
  <2>5. CASE WatchDeployment /\ UNCHANGED <<hist, ctlVars, opVars>>
    BY <2>5 DEF WatchDeployment
  <2>6. CASE PodReady /\ UNCHANGED <<hist, ctlVars, opVars>>
    BY <2>6 DEF PodReady
  <2>7. CASE PodTerminated /\ UNCHANGED <<hist, ctlVars, opVars>>
    BY <2>7 DEF PodTerminated
  <2>8. CASE PodFails /\ UNCHANGED <<hist, ctlVars, opVars>>
    BY <2>8 DEF PodFails
  <2>9. CASE PodUnschedulable /\ UNCHANGED <<hist, ctlVars, opVars>>
    BY <2>9 DEF PodUnschedulable
  <2>10. CASE PodUnstuck /\ UNCHANGED <<hist, ctlVars, opVars>>
    BY <2>10 DEF PodUnstuck
  <2>11. CASE DeploymentDeleted /\ UNCHANGED <<hist, ctlVars, opVars>>
    BY <2>11 DEF DeploymentDeleted
  <2>12. CASE UserDelete /\ UNCHANGED <<hist, ctlVars, opVars>>
    BY <2>12, <2>1 DEF UserDelete
  <2>13. CASE UserRequest /\ UNCHANGED <<hist, ctlVars, opVars>>
    BY <2>13 DEF UserRequest
  <2>14. CASE LeaseExpires /\ UNCHANGED <<hist, ctlVars, opVars>>
    BY <2>14 DEF LeaseExpires
  <2>15. CASE OtherClaims /\ UNCHANGED <<hist, ctlVars, opVars>>
    BY <2>15 DEF OtherClaims
  <2>16. CASE OtherActive /\ UNCHANGED <<hist, ctlVars, opVars>>
    BY <2>16 DEF OtherActive
  <2>17. CASE Start /\ UNCHANGED opVars
    BY <2>17 DEF Start
  <2>18. CASE NotifyGone /\ UNCHANGED opVars
    BY <2>18, <2>1, ToldGrows DEF NotifyGone, RemovedRow, Return
  <2>19. CASE NotifyRemoved /\ UNCHANGED opVars
    BY <2>19, <2>1, ToldGrows DEF NotifyRemoved, RemovedRow, Return, Goto
  <2>20. CASE DropFinalizer /\ UNCHANGED opVars
    BY <2>20, <2>1 DEF DropFinalizer, Return
  <2>21. CASE AddFinalizer /\ UNCHANGED opVars
    BY <2>21, <2>1, <2>2 DEF AddFinalizer, Return
  <2>22. CASE ReconcileDeployment /\ UNCHANGED opVars
    BY <2>22, <2>1, ToldGrows DEF ReconcileDeployment, Return, Goto, Broken
  <2>23. CASE ReconcileService /\ UNCHANGED opVars
    BY <2>23, <2>1, ToldGrows DEF ReconcileService, Return, Goto, Broken
  <2>24. CASE SetFailed /\ UNCHANGED opVars
    BY <2>24, <2>2 DEF SetFailed, GotoWith, Phases
  <2>25. CASE ReportFailed /\ UNCHANGED opVars
    BY <2>25, <2>1 DEF ReportFailed, Return
  <2>26. CASE CheckUnschedulable /\ UNCHANGED opVars
    BY <2>26 DEF CheckUnschedulable, Goto
  <2>27. CASE ReleaseClaim /\ UNCHANGED opVars
    <3>1. hist'.told = hist.told
      BY <2>27 DEF ReleaseClaim, Reopened, Histories
    <3> QED
      BY <2>27, <3>1 DEF ReleaseClaim, Goto
  <2>28. CASE ReleaseDelete /\ UNCHANGED opVars
    BY <2>28, <2>1 DEF ReleaseDelete, Goto, Return
  <2>29. CASE SyncConvex /\ UNCHANGED opVars
    <3>1. hist'.told = hist.told
      BY <2>29 DEF SyncConvex, UpsertedRow, Histories
    <3>2. obj' \in {obj, Synced(obj, TRUE), Synced(obj, FALSE)}
      BY <2>29 DEF SyncConvex, Goto, GotoWith
    <3>3. Truthful(obj', hist'.told)
      BY <3>1, <3>2, <2>2
    <3> QED
      BY <2>29, <3>1, <3>3 DEF SyncConvex, Goto, GotoWith
  <2>30. CASE UpdateStatus /\ UNCHANGED opVars
    <3> DEFINE phased == [obj EXCEPT !.phase = PhaseFor(obj, seen)]
    <3>1. PhaseFor(obj, seen) \in Phases
      BY DEF PhaseFor, Phases
    <3>2. Truthful(phased, hist.told)
      BY <3>1, <2>2
    <3>3. phased.phase = PhaseFor(obj, seen) /\ phased.suspended = obj.suspended
      BY <3>1 DEF Workloads
    <3>4. PhaseFor(obj, seen) # "Deploying" =>
            PhaseFor(obj, seen) = IF obj.suspended THEN "Stopped" ELSE "Running"
      BY DEF PhaseFor, desiredReplicaCount, Workloads
    <3>5. /\ w' = w /\ cache' = cache /\ hist' = hist
          /\ base' \in {base, Gone} /\ obj' \in {Gone, phased}
          /\ pc' = "report" => obj' = phased /\ phased.phase # "Deploying"
      BY <2>30 DEF UpdateStatus, Return, GotoWith
    <3> HIDE DEF phased
    <3> QED
      BY <3>2, <3>3, <3>4, <3>5, <2>1
  <2>31. CASE SyncConvexLifecyclePhase /\ UNCHANGED opVars
    <3> DEFINE told == hist.told \cup {<<obj.gen, Reported(obj.phase)>>}
    <3>1. \/ obj' = LifecycleSynced(obj, TRUE) /\ hist'.told = told
          \/ obj' = LifecycleSynced(obj, FALSE) /\ hist'.told = hist.told
      BY <2>31 DEF SyncConvexLifecyclePhase, GotoWith, Answered, Histories
    <3>2. Truthful(LifecycleSynced(obj, TRUE), told)
      BY <2>31, AnsweredIsTruthful DEF SyncConvexLifecyclePhase
    <3>3. hist.told \subseteq told
      OBVIOUS
    <3> HIDE DEF told
    <3>4. hist.told \subseteq hist'.told /\ (Truthful(obj', hist.told) \/ Truthful(obj', hist'.told))
      BY <3>1, <3>2, <3>3, <2>2
    <3> QED
      BY <2>31, <3>4 DEF SyncConvexLifecyclePhase, GotoWith
  <2>32. CASE SaveStatus /\ UNCHANGED opVars
    BY <2>32, <2>1 DEF SaveStatus, Return
  <2>33. CASE ClaimOperation /\ UNCHANGED ctlVars
    BY <2>33 DEF ClaimOperation
  <2>34. CASE Redeploy /\ UNCHANGED ctlVars
    BY <2>34, <2>1, ToldGrows DEF Redeploy, GetAndUpdate, NextItem, Report
  <2>35. CASE SetSuspended /\ UNCHANGED ctlVars
    BY <2>35, <2>1 DEF SetSuspended, GetAndUpdate, NextItem, Report
  <2>36. CASE Destroy /\ UNCHANGED ctlVars
    BY <2>36, <2>1 DEF Destroy, NextItem, Report
  <2>37. CASE ReportOutcome /\ UNCHANGED ctlVars
    BY <2>37 DEF ReportOutcome, NextItem
  <2>38. CASE LeaseExpiresIdle
    BY <2>38 DEF LeaseExpiresIdle
  <2>39. CASE Crash
    BY <2>39, <2>1 DEF Crash
  <2>40. CASE UNCHANGED vars
    BY <2>40 DEF vars, objVars
  <2> QED
    BY <2>3, <2>4, <2>5, <2>6, <2>7, <2>8, <2>9, <2>10, <2>11, <2>12, <2>13, <2>14,
       <2>15, <2>16, <2>17, <2>18, <2>19, <2>20, <2>21, <2>22, <2>23, <2>24, <2>25,
       <2>26, <2>27, <2>28, <2>29, <2>30, <2>31, <2>32, <2>33, <2>34, <2>35, <2>36,
       <2>37, <2>38, <2>39, <2>40
    DEF Next, EnvStep, ReconcileStep, PendingStep, Environment, Reconcile,
        ProcessPending
<1> QED
  BY <1>1, <1>2, TypeCorrect, PTL DEF Spec

\* syncConvexLifecyclePhase's condition is never True for a generation whose
\* phase Convex has not answered a report of, in the stored object.
THEOREM AnswersAreReal == Spec => []AnsweredForGeneration
<1>1. TypeOK /\ AnsweredInv => AnsweredForGeneration
  BY DEF AnsweredInv, Truthful, AnsweredForGeneration
<1> QED
  BY <1>1, AnsweredInvariant, PTL
--------------------------------------------------------------------------------
(* Convex's row.                                                           *)

\* What happens later does not make a row unsound.
LEMMA SoundHistory ==
  ASSUME NEW r, NEW h \in Histories, RowSound(r, h)
  PROVE  /\ RowSound(r, [h EXCEPT !.removed = TRUE])
         /\ RowSound(r, [h EXCEPT !.forced = TRUE])
         /\ RowSound(r, [h EXCEPT !.broken = TRUE])
         /\ \A b : RowSound(r, [h EXCEPT !.upserted = b])
         /\ \A t : RowSound(r, [h EXCEPT !.told = t])
BY DEF RowSound, Histories

\* The other marks of the history do not touch the record of an error.
LEMMA BrokenStays ==
  ASSUME NEW h \in Histories
  PROVE  /\ [h EXCEPT !.removed = TRUE].broken = h.broken
         /\ [h EXCEPT !.forced = TRUE].broken = h.broken
         /\ [h EXCEPT !.broken = TRUE].broken
         /\ \A b : [h EXCEPT !.upserted = b].broken = h.broken
         /\ \A t : [h EXCEPT !.told = t].broken = h.broken
         /\ \A st : [h EXCEPT !.released = st].broken = h.broken
BY DEF Histories

\* A release requeues or exhausts a row, and neither is a failure.
LEMMA SoundReleases ==
  ASSUME NEW r \in Rows, NEW h \in Histories, RowSound(r, h), r.st \in InFlight,
         NEW n \in Releases(r)
  PROVE  RowSound(n, h)
<1>1. n = Queued(r) \/ n = [r EXCEPT !.st = "exhausted"]
  BY DEF Releases
<1>2. CASE n = Queued(r)
  <2>1. n.st \in {"requested", "redeploy", "stop", "resume", "destroy"}
    BY <1>2 DEF Queued, InFlight, QueuedOf
  <2>2. n.owner = r.owner \/ n.owner = "none"
    BY <1>2 DEF Queued
  <2> QED
    BY <2>1, <2>2 DEF RowSound
<1>3. CASE n = [r EXCEPT !.st = "exhausted"]
  BY <1>3 DEF RowSound, Rows
<1> QED
  BY <1>1, <1>2, <1>3

\* A report leaves a sound row; a terminal failure needs its error on record.
LEMMA SoundReports ==
  ASSUME NEW r \in Rows, NEW h \in Histories, RowSound(r, h),
         NEW phase \in {"active", "stopped", "failed"}, NEW retryable \in BOOLEAN,
         NEW n \in ReportApplied(r, phase, retryable),
         phase = "failed" /\ ~retryable => h.broken
  PROVE  RowSound(n, h)
<1>1. r.st \in InFlight
  BY RowTypes
<1>2. CASE retryable
  BY <1>1, <1>2, SoundReleases DEF ReportApplied
<1>3. CASE ~retryable
  <2>1. PICK s \in Resolutions(phase) : n = [r EXCEPT !.st = s]
    BY <1>1, <1>3 DEF ReportApplied
  <2>2. s # "destroyed" /\ (s = "failed" => phase = "failed")
    BY DEF Resolutions
  <2> QED
    BY <1>3, <2>1, <2>2 DEF RowSound, Rows
<1> QED
  BY <1>2, <1>3

\* checkUnschedulable's report: a create goes back without an owner.
LEMMA SoundReopened ==
  ASSUME NEW r \in Rows, NEW h \in Histories, RowSound(r, h),
         NEW n \in ReportApplied(r, "failed", TRUE)
  PROVE  RowSound(n, [h EXCEPT !.released =
                        IF n.st = "exhausted" THEN h.released ELSE r.st])
<1>1. r.st \in InFlight /\ n \in Releases(r)
  BY RowTypes DEF ReportApplied
<1>2. RowSound(n, h)
  BY <1>1, SoundReleases
<1>3. CASE n.st = "exhausted"
  BY <1>2, <1>3 DEF RowSound, Histories
<1>4. CASE n.st # "exhausted"
  <2>1. n = Queued(r)
    BY <1>1, <1>4 DEF Releases, Rows
  <2>2. r.st = "provisioning" => n.owner = "none" /\ n.st = "requested"
    BY <2>1 DEF Queued, QueuedOf
  <2> QED
    BY <1>2, <1>4, <2>2 DEF RowSound, Histories
<1> QED
  BY <1>3, <1>4

\* The other transitions of the row.
LEMMA SoundRows ==
  ASSUME NEW r \in Rows, NEW h \in Histories, RowSound(r, h)
  PROVE  /\ RowSound(Upserted(r), h)
         /\ RowSound(Removed(r), h)
         /\ RowSound([st |-> "provisioning", owner |-> "other"], h)
         /\ RowSound([r EXCEPT !.st = "active"], h)
         /\ r.st \in Operations => RowSound([r EXCEPT !.st = InFlightOf[r.st]], h)
         /\ \A st \in Requestable(r.st) : RowSound([r EXCEPT !.st = st], h)
<1>1. RowSound(Upserted(r), h) /\ RowSound(Removed(r), h)
  BY DEF RowSound, Upserted, Removed, Rows
<1>2. /\ RowSound([st |-> "provisioning", owner |-> "other"], h)
      /\ RowSound([r EXCEPT !.st = "active"], h)
  BY DEF RowSound, Rows
<1>3. ASSUME r.st \in Operations PROVE RowSound([r EXCEPT !.st = InFlightOf[r.st]], h)
  <2>1. InFlightOf[r.st] \notin {"failed", "destroyed"}
    BY <1>3 DEF Operations, InFlightOf
  <2> QED
    BY <2>1 DEF RowSound, Rows
<1>4. ASSUME NEW st \in Requestable(r.st) PROVE RowSound([r EXCEPT !.st = st], h)
  <2>1. st \notin {"failed", "destroyed"}
    BY DEF Requestable
  <2> QED
    BY <2>1 DEF RowSound, Rows
<1> QED
  BY <1>1, <1>2, <1>3, <1>4

\* A step that keeps the row sound, forgets no error, and turns to a terminal
\* report only after one.
ReportStep ==
  /\ RowSound(row', hist')
  /\ hist.broken => hist'.broken
  /\ pc' \in {"setFailed", "reportFailed"} => pc \in {"setFailed", "reportFailed"} \/ hist'.broken
  /\ ep' = "reportTerminal" => ep = "reportTerminal" \/ hist'.broken

\* Such a step keeps the invariant.
LEMMA ReportStepKeeps ==
  ASSUME RowInv, ReportStep PROVE RowInv'
BY DEF RowInv, ReportStep

\* Every step of the composed system is such a step.
LEMMA RowStep == TypeOK /\ RowInv /\ [Next]_vars => RowInv'
<1> SUFFICES ASSUME TypeOK, RowInv, [Next]_vars PROVE ReportStep
  BY ReportStepKeeps
<1> USE DEF ReportStep, ctlVars, opVars
<1>0. row \in Rows /\ hist \in Histories /\ RowSound(row, hist)
  BY DEF TypeOK, RowInv
<1>1. ASSUME UNCHANGED <<row, hist>>,
             pc' \notin {"setFailed", "reportFailed"} \/ pc \in {"setFailed", "reportFailed"},
             ep' # "reportTerminal" \/ ep = "reportTerminal"
      PROVE  ReportStep
  BY <1>0, <1>1
<1>2. CASE UNCHANGED vars
  BY <1>1, <1>2 DEF vars, objVars
<1>3. CASE ForceDelete /\ UNCHANGED <<ctlVars, opVars>>
  BY <1>0, <1>3, SoundHistory, BrokenStays DEF ForceDelete
<1>4. CASE /\ UNCHANGED <<hist, ctlVars, opVars>>
           /\ \/ WatchWorkload \/ WatchDeployment \/ PodReady \/ PodTerminated \/ PodFails
              \/ PodUnschedulable \/ PodUnstuck \/ DeploymentDeleted \/ UserDelete
  BY <1>1, <1>4
  DEF WatchWorkload, WatchDeployment, PodReady, PodTerminated, PodFails,
      PodUnschedulable, PodUnstuck, DeploymentDeleted, UserDelete
<1>5. CASE /\ UNCHANGED <<hist, ctlVars, opVars>>
           /\ UserRequest \/ OtherClaims \/ OtherActive
  BY <1>0, <1>5, SoundRows DEF UserRequest, OtherClaims, OtherActive
<1>6. CASE (LeaseExpires /\ UNCHANGED <<hist, ctlVars, opVars>>) \/ LeaseExpiresIdle
  BY <1>0, <1>6, SoundReleases DEF LeaseExpires, LeaseExpiresIdle
<1>7. CASE Crash
  BY <1>1, <1>7 DEF Crash
<1>8. CASE /\ UNCHANGED opVars
           /\ Start \/ DropFinalizer \/ AddFinalizer \/ CheckUnschedulable
              \/ ReleaseDelete \/ UpdateStatus \/ SaveStatus
  <2>1. UNCHANGED <<row, hist>> /\ pc' \notin {"setFailed", "reportFailed"}
    <3>1. CASE Start
      BY <3>1, <1>8 DEF Start
    <3>2. CASE DropFinalizer \/ AddFinalizer \/ SaveStatus
      BY <3>2 DEF DropFinalizer, AddFinalizer, SaveStatus, Return
    <3>3. CASE CheckUnschedulable \/ ReleaseDelete \/ UpdateStatus
      BY <3>3 DEF CheckUnschedulable, ReleaseDelete, UpdateStatus, Return, Goto, GotoWith
    <3> QED
      BY <1>8, <3>1, <3>2, <3>3
  <2> QED
    BY <1>1, <1>8, <2>1
<1>9. CASE UNCHANGED opVars /\ (NotifyGone \/ NotifyRemoved)
  <2>1. RowSound(Removed(row), [hist EXCEPT !.removed = TRUE])
    BY <1>0, SoundRows, SoundHistory
  <2> QED
    BY <1>0, <1>9, <2>1, BrokenStays
    DEF NotifyGone, NotifyRemoved, RemovedRow, Return, Goto
<1>10. CASE UNCHANGED opVars /\ (ReconcileDeployment \/ ReconcileService)
  BY <1>0, <1>10, SoundHistory, BrokenStays
  DEF ReconcileDeployment, ReconcileService, Return, Goto, Broken
<1>11. CASE UNCHANGED opVars /\ SetFailed
  BY <1>0, <1>11 DEF SetFailed, GotoWith
<1>12. CASE UNCHANGED opVars /\ ReportFailed
  <2>1. hist.broken
    BY <1>12 DEF RowInv, ReportFailed
  <2>2. \A n \in ReportApplied(row, "failed", FALSE) : RowSound(n, hist)
    BY <1>0, <2>1, SoundReports
  <2> QED
    BY <1>0, <1>12, <2>2 DEF ReportFailed, Return
<1>13. CASE UNCHANGED opVars /\ ReleaseClaim
  <2>1. pc' \notin {"setFailed", "reportFailed"}
    BY <1>13 DEF ReleaseClaim, Goto
  <2>2. CASE UNCHANGED <<row, hist>>
    BY <1>1, <1>13, <2>1, <2>2
  <2>3. CASE Reopened
    <3>1. hist' = [hist EXCEPT !.released =
                     IF row'.st = "exhausted" THEN hist.released ELSE row.st]
      BY <1>0, <2>3 DEF Reopened, Histories
    <3>2. RowSound(row', hist')
      <4>1. row' \in ReportApplied(row, "failed", TRUE)
        BY <2>3 DEF Reopened
      <4> QED
        BY <1>0, <3>1, <4>1, SoundReopened
    <3> QED
      BY <1>0, <1>13, <2>1, <3>1, <3>2, BrokenStays
  <2> QED
    BY <1>13, <2>2, <2>3 DEF ReleaseClaim
<1>14. CASE UNCHANGED opVars /\ SyncConvex
  <2>1. pc' = "status"
    BY <1>14 DEF SyncConvex, Goto, GotoWith
  <2>2. CASE UNCHANGED <<row, hist>>
    BY <1>1, <1>14, <2>1, <2>2
  <2>3. CASE UpsertedRow
    <3>1. \E b : hist' = [hist EXCEPT !.upserted = b]
      <4> WITNESS hist.upserted \/ row.owner = "unnamed"
      <4> QED
        BY <2>3 DEF UpsertedRow
    <3>2. RowSound(Upserted(row), hist)
      BY <1>0, SoundRows
    <3>3. RowSound(row', hist')
      BY <1>0, <2>3, <3>1, <3>2, SoundHistory DEF UpsertedRow
    <3> QED
      BY <1>0, <1>14, <2>1, <3>1, <3>3, BrokenStays
  <2> QED
    BY <1>14, <2>2, <2>3 DEF SyncConvex
<1>15. CASE UNCHANGED opVars /\ SyncConvexLifecyclePhase
  <2>1. pc' = "save"
    BY <1>15 DEF SyncConvexLifecyclePhase, GotoWith
  <2>2. row' \in ReportApplied(row, Reported(obj.phase), FALSE) \cup {row}
    BY <1>15 DEF SyncConvexLifecyclePhase
  <2>3. Reported(obj.phase) \in {"active", "stopped"}
    BY DEF Reported
  <2>4. RowSound(row', hist)
    BY <1>0, <2>2, <2>3, SoundReports
  <2> DEFINE told == hist.told \cup {<<obj.gen, Reported(obj.phase)>>}
  <2>5. hist' = hist \/ hist' = [hist EXCEPT !.told = told]
    BY <1>15 DEF SyncConvexLifecyclePhase, Answered
  <2> HIDE DEF told
  <2>6. RowSound(row', [hist EXCEPT !.told = told])
    BY <1>0, <2>4, SoundHistory
  <2>7. RowSound(row', hist')
    BY <2>4, <2>5, <2>6, Zenon
  <2>8. hist.broken => hist'.broken
    <3>1. [hist EXCEPT !.told = told].broken = hist.broken
      BY <1>0, BrokenStays, Zenon
    <3> QED
      BY <2>5, <3>1, Zenon
  <2> QED
    BY <1>15, <2>1, <2>7, <2>8
<1>16. CASE UNCHANGED ctlVars /\ ClaimOperation
  BY <1>0, <1>16, SoundRows DEF ClaimOperation
<1>17. CASE UNCHANGED ctlVars /\ Redeploy
  BY <1>0, <1>17, SoundHistory, BrokenStays
  DEF Redeploy, GetAndUpdate, NextItem, Report
<1>18. CASE UNCHANGED ctlVars /\ (SetSuspended \/ Destroy)
  BY <1>1, <1>18 DEF SetSuspended, Destroy, GetAndUpdate, NextItem, Report
<1>19. CASE UNCHANGED ctlVars /\ ReportOutcome
  <2> DEFINE retryable == ep = "reportRetryable"
  <2>1. ~retryable => hist.broken
    BY <1>19 DEF RowInv, ReportOutcome
  <2>2. row' \in ReportApplied(row, "failed", retryable) \cup {row}
    BY <1>19 DEF ReportOutcome
  <2>3. retryable \in BOOLEAN
    OBVIOUS
  <2> HIDE DEF retryable
  <2>4. RowSound(row', hist)
    BY <1>0, <2>1, <2>2, <2>3, SoundReports
  <2> QED
    BY <1>19, <2>4 DEF ReportOutcome, NextItem
<1> QED
  BY <1>2, <1>3, <1>4, <1>5, <1>6, <1>7, <1>8, <1>9, <1>10, <1>11, <1>12, <1>13, <1>14,
     <1>15, <1>16, <1>17, <1>18, <1>19
  DEF Next, EnvStep, ReconcileStep, PendingStep, Environment, Reconcile, ProcessPending

\* RowInv holds in every reachable state.
LEMMA RowInvariant == Spec => []RowInv
<1>1. Init => RowInv
  BY DEF Init, ObjInit, CtlInit, OpInit, RowInv, RowSound
<1> QED
  BY <1>1, RowStep, TypeCorrect, PTL DEF Spec

\* However the two goroutines' reports, leases and answers interleave, a row
\* is "failed" only after an error that was not a conflict.
THEOREM FailuresAreReal == Spec => []FailedOnlyWhenBroken
<1>1. RowInv => FailedOnlyWhenBroken
  BY DEF RowInv, RowSound, FailedOnlyWhenBroken
<1> QED
  BY <1>1, RowInvariant, PTL

\* A create checkUnschedulable reopened is never marked destroyed by the CR it
\* was taken from.
THEOREM ReopenedCreatesSurvive == Spec => []ReopenedCreateSurvives
<1>1. RowInv => ReopenedCreateSurvives
  BY DEF RowInv, RowSound, ReopenedCreateSurvives
<1> QED
  BY <1>1, RowInvariant, PTL
--------------------------------------------------------------------------------
(* Rest: whenever the key is at rest, the stored object, its Deployment and *)
(* both conditions agree.  First, a deletion is never undone.              *)

\* The object stays, is edited without losing its deletion mark, or goes;
\* copies come from other copies.
MarkedStep ==
  /\ cache' \in {cache, w}
  /\ base' \in {base, Gone, cache, w'}
  /\ \/ w' = w
     \/ w' = Gone
     \/ w.live /\ (w.deleting => w'.deleting) /\ (w'.deleting => w'.finalizer)

\* Such steps keep every copy's deletion mark true of the object.
LEMMA MarkedStepKeeps ==
  ASSUME TypeOK, TypeOK', DeletionSticks, MarkedStep
  PROVE  DeletionSticks'
<1>g. ~Gone.live /\ ~Gone.deleting
  BY DEF Gone
<1>1. \A x \in {w', cache', base'} : x.live /\ x.deleting => x.finalizer
  BY <1>g DEF DeletionSticks, MarkedStep
<1>2. \A x \in {cache, base, w} : x.deleting /\ w'.live => w'.deleting
  BY <1>g DEF DeletionSticks, MarkedStep
<1>3. \A x \in {cache', base'} : x.deleting /\ w'.live => w'.deleting
  BY <1>g, <1>2 DEF MarkedStep
<1> QED
  BY <1>1, <1>3 DEF DeletionSticks

\* What each edit of an object does to its deletion mark.
LEMMA MarkEdits ==
  ASSUME NEW o \in Workloads, o.live, o.deleting => o.finalizer
  PROVE  /\ \/ Deleted(o) = Gone
            \/ (o.deleting => Deleted(o).deleting) /\ Deleted(o).finalizer
         /\ LET n == Redeployed(o) IN
              (o.deleting => n.deleting) /\ (n.deleting => n.finalizer)
         /\ \A b \in BOOLEAN : LET n == Suspended(o, b) IN
              (o.deleting => n.deleting) /\ (n.deleting => n.finalizer)
<1>1. \/ Deleted(o) = Gone
      \/ (o.deleting => Deleted(o).deleting) /\ Deleted(o).finalizer
  BY DEF Deleted, Workloads
<1> QED
  BY <1>1, SpecEdits

\* The steps of the reconciler that may write the object, as marked steps.
LEMMA StatusWritesMark ==
  ASSUME TypeOK, ObjectAtPC, DeletionSticks, Pinned, base = w,
         NEW n, SameButStatus(n, obj)
  PROVE  w.live /\ ~w.deleting /\ n.live /\ ~n.deleting /\ n.finalizer
BY DEF ObjectAtPC, SameButStatus, TypeOK, Workloads

\* Every step of the composed system is a marked step.
LEMMA MarkedNext ==
  ASSUME TypeOK, ObjectAtPC, DeletionSticks, [Next]_vars
  PROVE  MarkedStep
<1> USE DEF MarkedStep, ctlVars, opVars
<1>m. w.live => (w.deleting => w.finalizer)
  BY DEF DeletionSticks
<1>1. CASE UNCHANGED vars
  BY <1>1 DEF vars, objVars
<1>2. CASE ForceDelete /\ UNCHANGED <<ctlVars, opVars>>
  BY <1>2 DEF ForceDelete
<1>3. CASE /\ UNCHANGED <<hist, ctlVars, opVars>>
           /\ \/ WatchWorkload \/ WatchDeployment \/ PodReady \/ PodTerminated \/ PodFails
              \/ PodUnschedulable \/ PodUnstuck \/ DeploymentDeleted
              \/ UserRequest \/ LeaseExpires \/ OtherClaims \/ OtherActive
  BY <1>3
  DEF WatchWorkload, WatchDeployment, PodReady, PodTerminated, PodFails,
      PodUnschedulable, PodUnstuck, DeploymentDeleted, UserRequest, LeaseExpires,
      OtherClaims, OtherActive
<1>4. w' = Deleted(w) => w' = Gone \/ (w.live /\ (w.deleting => w'.deleting) /\ w'.finalizer)
  <2>1. CASE w.live
    BY <1>m, <2>1, MarkEdits DEF TypeOK
  <2>2. CASE ~w.live
    BY <2>2 DEF Deleted
  <2> QED
    BY <2>1, <2>2
<1>5. CASE UserDelete /\ UNCHANGED <<hist, ctlVars, opVars>>
  BY <1>4, <1>5 DEF UserDelete
<1>6. CASE Destroy /\ UNCHANGED ctlVars
  BY <1>4, <1>6 DEF Destroy
<1>7. CASE Redeploy /\ UNCHANGED ctlVars
  <2>1. w' = w \/ (w.live /\ w' = Redeployed(w))
    BY <1>7 DEF Redeploy, GetAndUpdate
  <2> QED
    BY <1>7, <1>m, <2>1, MarkEdits DEF Redeploy, TypeOK
<1>8. CASE SetSuspended /\ UNCHANGED ctlVars
  <2>1. w' = w \/ (w.live /\ \E b \in BOOLEAN : w' = Suspended(w, b))
    BY <1>8 DEF SetSuspended, GetAndUpdate
  <2> QED
    BY <1>8, <1>m, <2>1, MarkEdits DEF SetSuspended, TypeOK
<1>9. CASE (ClaimOperation \/ ReportOutcome) /\ UNCHANGED ctlVars
  BY <1>9 DEF ClaimOperation, ReportOutcome
<1>10. CASE LeaseExpiresIdle \/ Crash
  BY <1>10 DEF LeaseExpiresIdle, Crash
<1>11. CASE Start
  BY <1>11 DEF Start
<1>12. CASE NotifyGone \/ NotifyRemoved \/ ReconcileDeployment \/ ReconcileService
            \/ ReportFailed
  BY <1>12
  DEF NotifyGone, NotifyRemoved, ReconcileDeployment, ReconcileService, ReportFailed,
      Return, Goto
<1>13. CASE CheckUnschedulable \/ ReleaseClaim \/ SyncConvex \/ UpdateStatus
            \/ SyncConvexLifecyclePhase
  BY <1>13
  DEF CheckUnschedulable, ReleaseClaim, SyncConvex, UpdateStatus,
      SyncConvexLifecyclePhase, Return, Goto, GotoWith
<1>14. CASE DropFinalizer
  <2>1. w' = w \/ w' = Gone
    BY <1>14 DEF DropFinalizer, ObjectAtPC, WithoutFinalizer
  <2> QED
    BY <1>14, <2>1 DEF DropFinalizer, Return
<1>15. CASE AddFinalizer
  <2>1. base = w => w.live /\ ~w.deleting /\ ~[obj EXCEPT !.finalizer = TRUE].deleting
    BY <1>15, SpecEdits DEF AddFinalizer, ObjectAtPC, TypeOK
  <2> QED
    BY <1>15, <2>1 DEF AddFinalizer, Return
<1>16. CASE SetFailed
  <2> DEFINE failed == [obj EXCEPT !.phase = "Failed"]
  <2>1. SameButStatus(failed, obj)
    BY StatusEdits DEF TypeOK, Phases
  <2>2. base = w => w.live /\ ~w.deleting /\ ~failed.deleting
    BY <1>16, <2>1, StatusWritesMark DEF SetFailed, Pinned
  <2>3. UNCHANGED <<cache, base>> /\ (w' = w \/ (base = w /\ w' = failed))
    BY <1>16 DEF SetFailed, GotoWith
  <2> HIDE DEF failed
  <2> QED
    BY <2>2, <2>3
<1>17. CASE ReleaseDelete
  BY <1>4, <1>17 DEF ReleaseDelete, Return, Goto
<1>18. CASE SaveStatus
  <2>1. SameButStatus(obj, obj)
    BY StatusEdits DEF TypeOK
  <2>2. base = w => w.live /\ ~w.deleting /\ ~obj.deleting
    BY <1>18, <2>1, StatusWritesMark DEF SaveStatus, Pinned
  <2> QED
    BY <1>18, <2>2 DEF SaveStatus, Return
<1> QED
  BY <1>1, <1>2, <1>3, <1>5, <1>6, <1>7, <1>8, <1>9, <1>10, <1>11, <1>12, <1>13, <1>14,
     <1>15, <1>16, <1>17, <1>18
  DEF Next, EnvStep, ReconcileStep, PendingStep, Environment, Reconcile, ProcessPending

--------------------------------------------------------------------------------
(* The kinds of steps, as far as convergence goes.                         *)

Applies(d, o) == d.exists => d.replicas = desiredReplicaCount(o)

\* A reconcile returns with the key in the queue, with a watch event on its
\* way, or with nothing left to do.
Ends ==
  /\ pc' = "idle"
  /\ \/ queued' \/ cache' # w' \/ ~w'.live
     \/ Settled(w', seen') /\ Applies(dep', w')

\* An event puts the key into the queue.
Arrives == queued' /\ UNCHANGED <<pc, obj, dep>>

\* Something happens outside the reconcile that its cached reads do not show.
Outside ==
  /\ UNCHANGED <<pc, obj, cache, seen, queued>>
  /\ dep'.exists => dep.exists /\ dep'.replicas = dep.replicas
  /\ w' = w \/ cache # w' \/ ~w'.live

\* A reconcile goes on to its next call.
Onward ==
  /\ UNCHANGED <<cache, seen, queued>>
  /\ pc' \notin {"idle", "gone", "addFinalizer"}
  /\ Pinned' => Pinned \/ pc = "addFinalizer"
  /\ PastApply' => Applies(dep', obj')
  /\ (pc' \in {"report", "save"} /\ ~queued) =>
       obj'.phase = PhaseFor(obj', seen) /\ seen # Missing

\* A reconcile begins with what the cache shows.
Begins ==
  /\ UNCHANGED <<cache, seen, dep>>
  /\ pc' \in {"gone", "removed", "addFinalizer", "deployment"}
  /\ pc' = "gone" => ~cache.live
  /\ pc' \in {"addFinalizer", "deployment"} => ~cache.deleting

\* ConvergedInv without DeletionSticks, which has its own proof.
Converging ==
  /\ (pc = "idle" /\ ~queued /\ cache = w /\ w.live) =>
       Settled(w, seen) /\ Applies(dep, w)
  /\ (pc \in {"report", "save"} /\ ~queued) =>
       obj.phase = PhaseFor(obj, seen) /\ seen # Missing
  /\ PastApply => Applies(dep, obj)
  /\ (pc = "gone" /\ ~queued) => ~cache.live
  /\ ((Pinned \/ pc = "addFinalizer") /\ ~queued) => ~cache.deleting

\* ConvergedInv is what reconciles establish and what deletions are.
LEMMA ConvergedParts == ConvergedInv <=> Converging /\ DeletionSticks
BY DEF ConvergedInv, Converging, Applies

\* So it is after a step.
LEMMA ConvergedPartsNext == ConvergedInv' <=> Converging' /\ DeletionSticks'
BY DEF ConvergedInv, Converging, Applies

\* Steps of these kinds keep what the reconcile has established.
LEMMA ConvergingKept ==
  ASSUME Converging, Ends \/ Arrives \/ Outside \/ Onward \/ Begins
  PROVE  Converging'
<1>1. CASE Ends
  BY <1>1 DEF Converging, Ends, PastApply, Pinned
<1>2. CASE Arrives
  BY <1>2 DEF Converging, Arrives, PastApply, Applies
<1>3. CASE Outside
  BY <1>3 DEF Converging, Outside, PastApply, Pinned, Applies
<1>4. CASE Onward
  BY <1>4 DEF Converging, Onward
<1>5. CASE Begins
  BY <1>5 DEF Converging, Begins, PastApply, Pinned
<1> QED
  BY <1>1, <1>2, <1>3, <1>4, <1>5

\* A Delete of an object a reconcile has seen without a deletion mark cannot
\* give the cached version back.
LEMMA DeleteIsSeen ==
  ASSUME TypeOK, DeletionSticks, w' = Deleted(w)
  PROVE  w' = w \/ ~w'.live \/ (w'.deleting /\ cache # w')
<1>1. CASE w.live /\ w.finalizer /\ ~w.deleting
  <2>1. w'.deleting
    BY <1>1 DEF Deleted, TypeOK, Workloads
  <2>2. ~cache.deleting
    BY <1>1 DEF DeletionSticks
  <2> QED
    BY <2>1, <2>2
<1>2. CASE w.live /\ w.finalizer /\ w.deleting
  BY <1>2 DEF Deleted, TypeOK, Workloads
<1>3. CASE ~(w.live /\ w.finalizer)
  BY <1>3 DEF Deleted, Gone
<1> QED
  BY <1>1, <1>2, <1>3

\* The status a reconcile computed is the one its object's spec calls for,
\* whichever of the status fields it has written since.
LEMMA PhaseKept ==
  ASSUME NEW o \in Workloads, NEW ready \in Int
  PROVE  /\ LET n == [o EXCEPT !.phase = PhaseFor(o, ready)] IN
              n.phase = PhaseFor(n, ready) /\ n.suspended = o.suspended
         /\ \A ok \in BOOLEAN : LET n == LifecycleSynced(o, ok) IN
              /\ n.phase = o.phase /\ PhaseFor(n, ready) = PhaseFor(o, ready)
              /\ n.suspended = o.suspended
         /\ \A ok \in BOOLEAN : Synced(o, ok).suspended = o.suspended
<1>1. ASSUME NEW n, n.suspended = o.suspended
      PROVE  PhaseFor(n, ready) = PhaseFor(o, ready)
  BY <1>1 DEF PhaseFor, desiredReplicaCount
<1>2. LET n == [o EXCEPT !.phase = PhaseFor(o, ready)] IN
        n.phase = PhaseFor(o, ready) /\ n.suspended = o.suspended
  BY DEF Workloads
<1>3. \A ok \in BOOLEAN : LET n == LifecycleSynced(o, ok) IN
        n.phase = o.phase /\ n.suspended = o.suspended
  BY DEF LifecycleSynced, Workloads
<1>4. \A ok \in BOOLEAN : Synced(o, ok).suspended = o.suspended
  BY DEF Synced, Workloads
<1> QED
  BY <1>1, <1>2, <1>3, <1>4

\* A reconcile that is past its write of the Deployment stays so whatever it
\* writes into the status.
LEMMA AppliesKept ==
  ASSUME NEW d, NEW o, NEW n, Applies(d, o), n.suspended = o.suspended
  PROVE  Applies(d, n)
BY DEF Applies, desiredReplicaCount

\* Every step of the composed system is of one of the kinds.
LEMMA ConvergingNext ==
  ASSUME TypeOK, ObjectAtPC, ConvergedInv, [Next]_vars
  PROVE  Ends \/ Arrives \/ Outside \/ Onward \/ Begins
<1>0. Converging /\ DeletionSticks
  BY ConvergedParts
<1> USE DEF ctlVars, opVars
<1>1. CASE UNCHANGED vars
  BY <1>1 DEF vars, objVars, Outside
<1>2. CASE ForceDelete /\ UNCHANGED <<ctlVars, opVars>>
  BY <1>2 DEF ForceDelete, Outside, Gone
<1>3. CASE (WatchWorkload \/ WatchDeployment) /\ UNCHANGED <<hist, ctlVars, opVars>>
  BY <1>3 DEF WatchWorkload, WatchDeployment, Arrives
<1>4. CASE /\ UNCHANGED <<hist, ctlVars, opVars>>
           /\ PodReady \/ PodTerminated \/ PodFails \/ DeploymentDeleted
  <2>1. dep'.exists => dep.exists /\ dep'.replicas = dep.replicas
    BY <1>4
    DEF PodReady, PodTerminated, PodFails, DeploymentDeleted, NoDeployment, TypeOK,
        Deployments
  <2> QED
    BY <1>4, <2>1 DEF PodReady, PodTerminated, PodFails, DeploymentDeleted, Outside
<1>5. CASE /\ UNCHANGED <<hist, ctlVars, opVars>>
           /\ PodUnschedulable \/ PodUnstuck \/ UserRequest \/ LeaseExpires
              \/ OtherClaims \/ OtherActive
  BY <1>5
  DEF PodUnschedulable, PodUnstuck, UserRequest, LeaseExpires, OtherClaims,
      OtherActive, Outside
<1>6. CASE UserDelete /\ UNCHANGED <<hist, ctlVars, opVars>>
  BY <1>0, <1>6, DeleteIsSeen DEF UserDelete, Outside
<1>7. CASE Destroy /\ UNCHANGED ctlVars
  BY <1>0, <1>7, DeleteIsSeen DEF Destroy, Outside
<1>8. CASE (Redeploy \/ SetSuspended) /\ UNCHANGED ctlVars
  BY <1>8 DEF Redeploy, SetSuspended, GetAndUpdate, Outside
<1>9. CASE (ClaimOperation \/ ReportOutcome) /\ UNCHANGED ctlVars
  BY <1>9 DEF ClaimOperation, ReportOutcome, Outside
<1>10. CASE LeaseExpiresIdle
  BY <1>10 DEF LeaseExpiresIdle, Outside
<1>11. CASE Crash
  BY <1>11 DEF Crash, Ends
<1>12. CASE Start
  <2>1. ~(cache.live /\ cache.deleting /\ ~cache.finalizer)
    BY <1>0 DEF DeletionSticks
  <2>2. /\ cache.live => (pc' = "removed" /\ cache.deleting)
             \/ (pc' \in {"addFinalizer", "deployment"} /\ ~cache.deleting)
        /\ ~cache.live => pc' = "gone"
    BY <1>12, <2>1 DEF Start
  <2> QED
    BY <1>12, <2>2 DEF Start, Begins
<1>13. CASE NotifyGone
  <2>1. ~queued => ~cache.live
    BY <1>0, <1>13 DEF Converging, NotifyGone
  <2>2. pc' = "idle" /\ UNCHANGED <<w, cache>> /\ queued' = (queued \/ FALSE)
    BY <1>13 DEF NotifyGone, Return
  <2>3. queued' \/ cache' # w' \/ ~w'.live
    BY <2>1, <2>2, Zenon DEF TypeOK
  <2> QED
    BY <2>2, <2>3 DEF Ends
<1>14. CASE NotifyRemoved
  <2>1. CASE Goto("dropFinalizer")
    BY <1>14, <2>1 DEF NotifyRemoved, Goto, Onward, Pinned, PastApply
  <2>2. CASE Return(TRUE)
    BY <2>2 DEF Return, Ends
  <2> QED
    BY <1>14, <2>1, <2>2 DEF NotifyRemoved
<1>15. CASE DropFinalizer
  <2>1. CASE Return(TRUE)
    BY <2>1 DEF Return, Ends
  <2>2. CASE base = w /\ w' = WithoutFinalizer(w) /\ Return(FALSE)
    BY <1>15, <2>2
    DEF DropFinalizer, ObjectAtPC, WithoutFinalizer, Return, Ends, Gone
  <2> QED
    BY <1>15, <2>1, <2>2 DEF DropFinalizer
<1>16. CASE AddFinalizer
  <2>1. CASE Return(TRUE)
    BY <2>1 DEF Return, Ends
  <2>2. CASE pc' = "deployment" /\ UNCHANGED queued
    BY <1>16, <2>2 DEF AddFinalizer, Onward, PastApply
  <2> QED
    BY <1>16, <2>1, <2>2 DEF AddFinalizer
<1>17. CASE ReconcileDeployment
  <2>1. CASE Return(TRUE)
    BY <2>1 DEF Return, Ends
  <2>2. CASE dep' = Applied(dep, obj) /\ Goto("service")
    BY <1>17, <2>2
    DEF ReconcileDeployment, Goto, Onward, Pinned, PastApply, Applied, Applies
  <2>3. CASE Goto("setFailed")
    BY <1>17, <2>3 DEF ReconcileDeployment, Goto, Onward, Pinned, PastApply
  <2> QED
    BY <1>17, <2>1, <2>2, <2>3 DEF ReconcileDeployment
<1>18. CASE ReconcileService
  <2>1. CASE Return(TRUE)
    BY <2>1 DEF Return, Ends
  <2>2. CASE Goto("unschedulable") \/ Goto("setFailed")
    BY <1>0, <1>18, <2>2
    DEF ReconcileService, Goto, Onward, Pinned, PastApply, Converging
  <2> QED
    BY <1>18, <2>1, <2>2 DEF ReconcileService
<1>19. CASE SetFailed
  BY <1>19 DEF SetFailed, GotoWith, Onward, Pinned, PastApply
<1>20. CASE ReportFailed
  BY <1>20 DEF ReportFailed, Return, Ends
<1>21. CASE CheckUnschedulable \/ ReleaseClaim
  BY <1>0, <1>21
  DEF CheckUnschedulable, ReleaseClaim, Goto, Onward, Pinned, PastApply, Converging
<1>22. CASE ReleaseDelete
  <2>1. CASE Goto("upsert")
    BY <1>0, <1>22, <2>1
    DEF ReleaseDelete, Goto, Onward, Pinned, PastApply, Converging
  <2>2. CASE w' = Deleted(w) /\ Return(FALSE)
    <3>1. ~queued => ~cache.deleting
      BY <1>0, <1>22 DEF ReleaseDelete, Converging, Pinned
    <3>2. ~w'.live \/ w'.deleting
      BY <2>2, EditFacts DEF Deleted, TypeOK, Workloads
    <3>3. pc' = "idle" /\ UNCHANGED cache /\ queued' = (queued \/ FALSE)
      BY <1>22, <2>2 DEF ReleaseDelete, Return
    <3>4. queued' \/ cache' # w' \/ ~w'.live
      BY <3>1, <3>2, <3>3, Zenon DEF TypeOK
    <3> QED
      BY <3>3, <3>4 DEF Ends
  <2> QED
    BY <1>22, <2>1, <2>2 DEF ReleaseDelete
<1>23. CASE SyncConvex
  <2>1. UNCHANGED <<cache, seen, queued, dep>> /\ pc = "upsert" /\ pc' = "status"
    BY <1>23 DEF SyncConvex, Goto, GotoWith
  <2>2. obj' = obj \/ obj' = Synced(obj, TRUE) \/ obj' = Synced(obj, FALSE)
    BY <1>23 DEF SyncConvex, Goto, GotoWith
  <2>3. obj'.suspended = obj.suspended
    BY <2>2, PhaseKept DEF TypeOK
  <2>4. Applies(dep, obj')
    BY <1>0, <2>1, <2>3, AppliesKept DEF Converging, PastApply
  <2> QED
    BY <2>1, <2>4 DEF Onward, Pinned
<1>24. CASE UpdateStatus
  <2>1. CASE Return(TRUE)
    BY <2>1 DEF Return, Ends
  <2>2. CASE seen # Missing /\ ~Return(TRUE)
    <3> DEFINE phased == [obj EXCEPT !.phase = PhaseFor(obj, seen)]
    <3>1. /\ UNCHANGED <<cache, seen, queued, dep>> /\ pc = "status"
          /\ pc' \in {"save", "report"} /\ obj' = phased
      BY <1>24, <2>2 DEF UpdateStatus, GotoWith
    <3>2. phased.phase = PhaseFor(phased, seen) /\ phased.suspended = obj.suspended
      BY PhaseKept DEF TypeOK
    <3> HIDE DEF phased
    <3>3. Applies(dep, phased)
      BY <1>0, <3>1, <3>2, AppliesKept DEF Converging, PastApply
    <3> QED
      BY <2>2, <3>1, <3>2, <3>3 DEF Onward, Pinned
  <2> QED
    BY <1>24, <2>1, <2>2 DEF UpdateStatus
<1>25. CASE SyncConvexLifecyclePhase
  <2>1. /\ UNCHANGED <<cache, seen, queued, dep>> /\ pc = "report" /\ pc' = "save"
        /\ \E ok \in BOOLEAN : obj' = LifecycleSynced(obj, ok)
    BY <1>25 DEF SyncConvexLifecyclePhase, GotoWith
  <2>2. /\ obj'.phase = obj.phase /\ PhaseFor(obj', seen) = PhaseFor(obj, seen)
        /\ obj'.suspended = obj.suspended
    <3>1. PICK ok \in BOOLEAN : obj' = LifecycleSynced(obj, ok)
      BY <2>1
    <3>2. obj \in Workloads /\ seen \in Int
      BY DEF TypeOK
    <3>3. LET n == LifecycleSynced(obj, ok) IN
            /\ n.phase = obj.phase /\ PhaseFor(n, seen) = PhaseFor(obj, seen)
            /\ n.suspended = obj.suspended
      BY <3>2, PhaseKept
    <3> QED
      BY <3>1, <3>3
  <2>3. Applies(dep, obj')
    BY <1>0, <2>1, <2>2, AppliesKept DEF Converging, PastApply
  <2> QED
    BY <1>0, <2>1, <2>2, <2>3 DEF Converging, Onward, Pinned
<1>26. CASE SaveStatus
  <2>1. CASE Return(TRUE)
    BY <2>1 DEF Return, Ends
  <2>2. CASE base = w /\ w' = obj /\ Return(Unsettled(obj))
    <3>1. pc' = "idle" /\ UNCHANGED <<seen, dep>> /\ queued' = (queued \/ Unsettled(obj))
      BY <1>26, <2>2 DEF SaveStatus, Return
    <3>2. ~obj.deleting /\ obj.finalizer /\ Applies(dep, obj)
      BY <1>0, <1>26 DEF SaveStatus, ObjectAtPC, Pinned, SameButStatus, Converging, PastApply
    <3>3. ~queued => obj.phase = PhaseFor(obj, seen) /\ seen # Missing
      BY <1>0, <1>26 DEF SaveStatus, Converging
    <3>4. ~queued' => ~queued /\ ~Unsettled(obj)
      BY <3>1, Zenon
    <3>5. ~queued' => Settled(obj, seen)
      BY <3>2, <3>3, <3>4 DEF Settled
    <3> QED
      BY <2>2, <3>1, <3>2, <3>5 DEF Ends
  <2> QED
    BY <1>26, <2>1, <2>2 DEF SaveStatus
<1> QED
  BY <1>1, <1>2, <1>3, <1>4, <1>5, <1>6, <1>7, <1>8, <1>9, <1>10, <1>11, <1>12, <1>13,
     <1>14, <1>15, <1>16, <1>17, <1>18, <1>19, <1>20, <1>21, <1>22, <1>23, <1>24, <1>25,
     <1>26
  DEF Next, EnvStep, ReconcileStep, PendingStep, Environment, Reconcile, ProcessPending

\* ConvergedInv holds in every reachable state.
LEMMA ConvergedInvariant == Spec => []ConvergedInv
<1>1. Init => ConvergedInv
  BY DEF Init, ObjInit, CtlInit, ConvergedInv, DeletionSticks, Created, Gone, PastApply,
         Pinned
<1>2. TypeOK /\ TypeOK' /\ FinalizerInv /\ ConvergedInv /\ [Next]_vars => ConvergedInv'
  BY ConvergedParts, ConvergedPartsNext, MarkedNext, MarkedStepKeeps, ConvergingNext,
     ConvergingKept
  DEF FinalizerInv
<1> QED
  BY <1>1, <1>2, FinalizerInvariant, PTL DEF Spec

\* Whenever Reconcile has stopped requeueing a live Workload and no watch event
\* is on its way, the Deployment, the phase and both Convex conditions are the
\* ones its stored spec calls for.
THEOREM RestMeansConverged == Spec => []QuiescentConverged
<1>1. TypeOK /\ ConvergedInv => QuiescentConverged
  <2> SUFFICES ASSUME TypeOK, ConvergedInv, Quiescent, w.live
               PROVE  QuiescentConverged
    BY DEF QuiescentConverged
  <2>1. Settled(w, seen) /\ (dep.exists => dep.replicas = desiredReplicaCount(w))
    BY DEF ConvergedInv, Quiescent
  <2>2. dep.exists /\ seen = dep.ready
    BY <2>1 DEF Quiescent, Settled, View
  <2>3. w.phase = (IF w.suspended THEN "Stopped" ELSE "Running")
    BY <2>1 DEF Settled, Unsettled, PhaseFor, desiredReplicaCount, TypeOK, Workloads
  <2> QED
    BY <2>1, <2>2, <2>3 DEF QuiescentConverged, Settled, Unsettled
<1> QED
  BY <1>1, ConvergedInvariant, TypeCorrect, PTL
================================================================================
