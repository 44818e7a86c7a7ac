---------------------------- MODULE WorkloadObjects ----------------------------
(***************************************************************************)
(* What the reconciler and the claim loop share for one Workload: the      *)
(* object in the API server, the manager's informer cache of it, the       *)
(* backing Deployment, the work queue entry of its key, and Convex's row.  *)
(* The environment's own steps are here too: watch events, the Deployment  *)
(* controller and its pods, garbage collection, people with kubectl, and   *)
(* the users and leases on the Convex side.                                *)
(*                                                                         *)
(* Faults: every lost call, lost answer, crash, pod failure or expired     *)
(* lease takes one from the budget "faults", and every user request one    *)
(* from "requests".  MaxFaults and MaxRequests name those two bounds.      *)
(***************************************************************************)
EXTENDS Integers, ConvexRow

CONSTANTS Replicas,     \* desiredReplicaCount of a workload not suspended
          MaxFaults,    \* faults a behaviour may contain
          MaxRequests   \* operations users ask for

ASSUME ReplicasAssumption == Replicas \in Nat \ {0}
ASSUME BoundsAssumption == MaxFaults \in Nat /\ MaxRequests \in Nat

VARIABLES
  w,         \* the Workload object in the API server
  cache,     \* the informer's copy of it, which r.Get reads
  dep,       \* the backing Deployment
  seen,      \* ready replicas of the Deployment in the informer's cache
  stuck,     \* a pod has been Unschedulable for unschedulableGracePeriod
  queued,    \* the key is in the work queue, or a requeue is scheduled
  row,       \* Convex's row
  hist,      \* what has happened so far, for the properties only
  faults,    \* faults left
  requests   \* user requests left

objVars == <<w, cache, dep, seen, stuck, queued, row, hist>>
budget == <<faults, requests>>

Phases == {"None", "Deploying", "Running", "Stopped", "Failed"}

\* synced and lifecycle are the generations for which the conditions
\* ConvexSynced and ConvexLifecycleSynced are True, 0 when they are not.
Workloads ==
  [live : BOOLEAN, gen : Nat, suspended : BOOLEAN, finalizer : BOOLEAN,
   deleting : BOOLEAN, phase : Phases, synced : Nat, lifecycle : Nat]

Created ==
  [live |-> TRUE, gen |-> 1, suspended |-> FALSE, finalizer |-> FALSE,
   deleting |-> FALSE, phase |-> "None", synced |-> 0, lifecycle |-> 0]

Gone ==
  [live |-> FALSE, gen |-> 0, suspended |-> FALSE, finalizer |-> FALSE,
   deleting |-> FALSE, phase |-> "None", synced |-> 0, lifecycle |-> 0]

\* upserted: Convex recorded this CR's name.  removed: Convex applied a removal
\* of this CR.  forced: the finalizer was cleared by hand.  released: the
\* status of the row when checkUnschedulable's report reopened it.  told: the
\* generations whose phase Convex has answered a report of.  broken: a
\* reconcile met an error that was not a conflict, or a redeploy was refused
\* for its template version.
Histories ==
  [upserted : BOOLEAN, removed : BOOLEAN, forced : BOOLEAN, broken : BOOLEAN,
   released : InFlight \cup {"no"}, told : SUBSET (Nat \X {"active", "stopped"})]

Deployments == [exists : BOOLEAN, replicas : Nat, ready : Nat]

NoDeployment == [exists |-> FALSE, replicas |-> 0, ready |-> 0]

\* What a cached read of the Deployment returns: its ready replicas, or -1
\* for NotFound.
Missing == -1
View(d) == IF d.exists THEN d.ready ELSE Missing

desiredReplicaCount(obj) == IF obj.suspended THEN 0 ELSE Replicas

\* A Delete only marks an object that has a finalizer.
Deleted(obj) ==
  IF obj.live /\ obj.finalizer THEN [obj EXCEPT !.deleting = TRUE] ELSE Gone

\* An Update that takes the last finalizer off a deleting object removes it.
WithoutFinalizer(obj) ==
  IF obj.deleting THEN Gone ELSE [obj EXCEPT !.finalizer = FALSE]

Fault == faults > 0 /\ faults' = faults - 1 /\ UNCHANGED requests
NoFault == UNCHANGED budget

ObjInit ==
  /\ w = Created
  /\ cache = Gone
  /\ dep = NoDeployment
  /\ seen = Missing
  /\ stuck = FALSE
  /\ queued = FALSE
  /\ row = [st |-> "provisioning", owner |-> "unnamed"]
  /\ hist = [upserted |-> FALSE, removed |-> FALSE, forced |-> FALSE,
             broken |-> FALSE, released |-> "no", told |-> {}]
  /\ faults = MaxFaults
  /\ requests = MaxRequests

ObjTypeOK ==
  /\ w \in Workloads
  /\ cache \in Workloads
  /\ dep \in Deployments
  /\ seen \in Int
  /\ stuck \in BOOLEAN
  /\ queued \in BOOLEAN
  /\ row \in Rows
  /\ hist \in Histories
  /\ faults \in Nat
  /\ requests \in Nat
--------------------------------------------------------------------------------
\* For(&Workload{}) and Owns(&Deployment{}): an event refreshes the cache and
\* puts the key in the queue.
WatchWorkload ==
  /\ cache # w
  /\ cache' = w
  /\ queued' = TRUE
  /\ UNCHANGED <<w, dep, seen, stuck, row, budget>>

WatchDeployment ==
  /\ seen # View(dep)
  /\ seen' = View(dep)
  /\ queued' = TRUE
  /\ UNCHANGED <<w, cache, dep, stuck, row, budget>>

\* The Deployment controller brings the pods towards the replica count.
PodReady ==
  /\ dep.exists /\ dep.ready < dep.replicas /\ ~stuck
  /\ dep' = [dep EXCEPT !.ready = @ + 1]
  /\ UNCHANGED <<w, cache, seen, stuck, queued, row, budget>>

PodTerminated ==
  /\ dep.exists /\ dep.ready > dep.replicas
  /\ dep' = [dep EXCEPT !.ready = @ - 1]
  /\ UNCHANGED <<w, cache, seen, stuck, queued, row, budget>>

PodFails ==
  /\ dep.exists /\ dep.ready > 0
  /\ Fault
  /\ dep' = [dep EXCEPT !.ready = @ - 1]
  /\ UNCHANGED <<w, cache, seen, stuck, queued, row>>

\* No node fits a pod for the whole grace period; no watch covers pods.
PodUnschedulable ==
  /\ dep.exists /\ dep.ready < dep.replicas /\ ~stuck
  /\ Fault
  /\ stuck' = TRUE
  /\ UNCHANGED <<w, cache, dep, seen, queued, row>>

\* The pod is placed after all, or is deleted because the count went down.
PodUnstuck ==
  /\ stuck
  /\ stuck' = FALSE
  /\ UNCHANGED <<w, cache, dep, seen, queued, row, budget>>

\* The Deployment goes: by hand, or by owner reference after its Workload.
DeploymentDeleted ==
  /\ dep.exists
  /\ \/ ~w.live /\ NoFault
     \/ w.live /\ Fault
  /\ dep' = NoDeployment
  /\ stuck' = FALSE
  /\ UNCHANGED <<w, cache, seen, queued, row>>

\* kubectl delete, or the API server's handleDelete.
UserDelete ==
  /\ w.live /\ ~w.deleting
  /\ requests > 0
  /\ requests' = requests - 1
  /\ w' = Deleted(w)
  /\ UNCHANGED <<cache, dep, seen, stuck, queued, row, faults>>

\* The escape hatch beside workloadFinalizer: kubectl patch clears it.
ForceDelete ==
  /\ w.live /\ w.deleting
  /\ w' = Gone
  /\ hist' = [hist EXCEPT !.forced = TRUE]
  /\ UNCHANGED <<cache, dep, seen, stuck, queued, row, budget>>

\* A user asks Convex for an operation on a workload it holds by name.
UserRequest ==
  \E op \in Requestable(row.st) :
    /\ row.owner = "named"
    /\ requests > 0
    /\ requests' = requests - 1
    /\ row' = [row EXCEPT !.st = op]
    /\ UNCHANGED <<w, cache, dep, seen, stuck, queued, faults>>

\* Convex gives up waiting for an in-flight row and requeues it.
LeaseExpires ==
  /\ row.st \in InFlight
  /\ Fault
  /\ row' \in Releases(row)
  /\ UNCHANGED <<w, cache, dep, seen, stuck, queued>>

\* A reopened create is claimed again under another name, and succeeds.
OtherClaims ==
  /\ row.st = "requested"
  /\ row' = [st |-> "provisioning", owner |-> "other"]
  /\ UNCHANGED <<w, cache, dep, seen, stuck, queued, budget>>

OtherActive ==
  /\ row = [st |-> "provisioning", owner |-> "other"]
  /\ row' = [row EXCEPT !.st = "active"]
  /\ UNCHANGED <<w, cache, dep, seen, stuck, queued, budget>>

Environment ==
  \/ ForceDelete
  \/ /\ UNCHANGED hist
     /\ \/ WatchWorkload \/ WatchDeployment
        \/ PodReady \/ PodTerminated \/ PodFails \/ PodUnschedulable \/ PodUnstuck
        \/ DeploymentDeleted \/ UserDelete \/ UserRequest
        \/ LeaseExpires \/ OtherClaims \/ OtherActive
================================================================================
