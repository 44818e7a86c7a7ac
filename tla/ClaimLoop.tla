------------------------------- MODULE ClaimLoop -------------------------------
(***************************************************************************)
(* How brand-new requests become Workload CRs: every operator's heartbeat  *)
(* goroutine computes a capacity snapshot, takes the claimable list of the *)
(* heartbeat, and for each item gates on the snapshot, claims, checks the  *)
(* template version, creates the CR and reports what failed (heartbeatOnce *)
(* and processClaimable of runnable.go, Tracker of tracker.go, Create of   *)
(* creator.go).  Several operators run the loop against one Convex, which  *)
(* is external: its rows, its claim lease and its attempt cap are modelled *)
(* from the calls and the comments beside them.                            *)
(***************************************************************************)
EXTENDS Integers, FiniteSets, Functions

CONSTANTS
  Operators,          \* the operators registered with this Convex
  Requests,           \* the requests, numbered in the order Convex lists them
  Resources,          \* the dimensions of a Snapshot: CPU, memory
  Demand,             \* Demand[r]: EstimatedResources of r's template
  Allocatable,        \* Allocatable[o]: the node capacity o sums up
  Known,              \* Known[o]: the requests whose template o's catalog has
  Compatible,         \* Compatible[o]: those whose version matches as well
  Invalid,            \* the requests whose config ResolveParams rejects
  maxClaimsPerTick,
  MaxAttempts,        \* Convex's attempt cap
  MaxFaults           \* bound on lost calls, crashes and early leases

ASSUME RequestsAssumption ==
  /\ Requests \subseteq Nat /\ IsFiniteSet(Requests)
  /\ IsFiniteSet(Operators)
  /\ Demand \in [Requests -> [Resources -> Nat]]
  /\ Allocatable \in [Operators -> [Resources -> Nat]]
  /\ Known \in [Operators -> SUBSET Requests]
  /\ \A o \in Operators : Compatible[o] \subseteq Known[o]
  /\ Invalid \subseteq Requests

ASSUME BoundsAssumption ==
  /\ maxClaimsPerTick \in Nat \ {0}
  /\ MaxAttempts \in Nat \ {0}
  /\ MaxFaults \in Nat

VARIABLES
  row,      \* Convex's row of each request
  crs,      \* crs[o][r]: the CRs of o that carry r's workload-id label
  cached,   \* those whose Deployment o's informer cache shows
  pc,       \* where each operator's tick is
  todo,     \* the items of the tick still to process, in the order of the list
  snap,     \* the tick's Snapshot; not ok when computing it failed
  extra,    \* history: lost Create answers and leases that ran out early
  blind,    \* history: a snapshot of o did not count all that o had created
  faults    \* what is left of the fault budget

vars == <<row, crs, cached, pc, todo, snap, extra, blind, faults>>

PCs == {"idle", "item", "create", "retryable", "terminal"}

Rows == [st : {"requested", "provisioning", "active", "failed", "exhausted"},
         owner : Operators \cup {"none"}, attempts : 0..MaxAttempts]

NoSnapshot == [ok |-> FALSE, used |-> [d \in Resources |-> 0]]

Init ==
  /\ row = [r \in Requests |-> [st |-> "requested", owner |-> "none", attempts |-> 0]]
  /\ crs = [o \in Operators |-> [r \in Requests |-> 0]]
  /\ cached = crs
  /\ pc = [o \in Operators |-> "idle"]
  /\ todo = [o \in Operators |-> {}]
  /\ snap = [o \in Operators |-> NoSnapshot]
  /\ extra = [r \in Requests |-> 0]
  /\ blind = [o \in Operators |-> FALSE]
  /\ faults = MaxFaults

Fault == faults > 0 /\ faults' = faults - 1

NoFault == UNCHANGED faults

--------------------------------------------------------------------------------
(* Capacity.                                                               *)

\* The sum of the requests of the Deployments counted in n[r].
Requested(n) ==
  [d \in Resources |-> SumFunction([r \in Requests |-> n[r] * Demand[r][d]])]

Fits(o, used, r) ==
  \A d \in Resources : Allocatable[o][d] - used[d] >= Demand[r][d]

\* Snapshot reads the informer cache; an error leaves the tick without one.
Snapshot(o) ==
  \/ /\ NoFault
     /\ snap' = [snap EXCEPT ![o] = [ok |-> TRUE, used |-> Requested(cached[o])]]
     /\ blind' = [blind EXCEPT ![o] = @ \/ cached[o] # crs[o]]
  \/ /\ Fault
     /\ snap' = [snap EXCEPT ![o] = NoSnapshot]
     /\ blind' = [blind EXCEPT ![o] = TRUE]

--------------------------------------------------------------------------------
(* Convex.                                                                 *)

Claimable == {r \in Requests : row[r].st = "requested"}

\* releaseClaim: back to the queue for any operator, up to the attempt cap.
Released(w) ==
  [st |-> IF w.attempts + 1 >= MaxAttempts THEN "exhausted" ELSE "requested",
   owner |-> "none", attempts |-> w.attempts + 1]

ClaimedBy(o, w) == [w EXCEPT !.st = "provisioning", !.owner = o]

\* The rows a report that names only the workload id may leave behind; one
\* about a claim that is somebody else's by now may be refused or applied.
ReportOutcomes(o, w, retryable) ==
  LET applied == IF retryable THEN Released(w) ELSE [w EXCEPT !.st = "failed"]
  IN  CASE w.st # "provisioning" -> {w}
        [] w.st = "provisioning" /\ w.owner = o -> {applied}
        [] OTHER -> {w, applied}

--------------------------------------------------------------------------------
(* The heartbeat goroutine of operator o.                                  *)

\* The item the loop is at.
Current(o, r) == r \in todo[o] /\ \A q \in todo[o] : r <= q

\* Mutant: goes one item past the per-tick cut.
ContinueOffByOne(o, r, s) ==
  /\ todo' = [todo EXCEPT ![o] = @ \ {r}]
  /\ pc' = [pc EXCEPT ![o] = "item"]
  /\ snap' = [snap EXCEPT ![o] = s]

\* The loop moves on to its next item with snapshot s; the tick, and the
\* snapshot with it, ends after the last one.
Continue(o, r, s) ==
  /\ todo' = [todo EXCEPT ![o] = @ \ {r}]
  /\ pc' = [pc EXCEPT ![o] = IF todo[o] = {r} THEN "idle" ELSE "item"]
  /\ snap' = [snap EXCEPT ![o] = IF todo[o] = {r} THEN NoSnapshot ELSE s]

Goto(o, label) ==
  /\ pc' = [pc EXCEPT ![o] = label]
  /\ UNCHANGED <<todo, snap>>

\* heartbeatOnce up to processClaimable's loop: the snapshot, then the list
\* cut to maxClaimsPerTick.  A tick that finds nothing changes nothing.
HeartbeatOnce(o) ==
  /\ pc[o] = "idle"
  /\ Claimable # {}
  /\ Snapshot(o)
  /\ todo' = [todo EXCEPT ![o] =
       {r \in Claimable : Cardinality({q \in Claimable : q < r}) < maxClaimsPerTick}]
  /\ pc' = [pc EXCEPT ![o] = "item"]
  /\ UNCHANGED <<row, crs, cached, extra>>

\* The self-gate lets a template it does not know through: the lookup after
\* the claim reports that.
Gated(o, r) == snap[o].ok /\ r \in Known[o] /\ ~Fits(o, snap[o].used, r)

\* Mutant: one request that does not fit ends the tick instead of being passed over.
SkipAborts(o, r) ==
  /\ pc[o] = "item" /\ Current(o, r)
  /\ Gated(o, r)
  /\ todo' = [todo EXCEPT ![o] = {}]
  /\ snap' = [snap EXCEPT ![o] = NoSnapshot]
  /\ pc' = [pc EXCEPT ![o] = "idle"]
  /\ UNCHANGED <<row, crs, cached, extra, blind, faults>>

\* A candidate that does not fit is skipped, the loop goes on.
Skip(o, r) ==
  /\ pc[o] = "item" /\ Current(o, r)
  /\ Gated(o, r)
  /\ Continue(o, r, snap[o])
  /\ UNCHANGED <<row, crs, cached, extra, blind, faults>>

\* Mutant: the refusal of a row another operator won is not looked at.
ClaimWorkloadUnchecked(o, r) ==
  /\ pc[o] = "item" /\ Current(o, r)
  /\ ~Gated(o, r)
  /\ \/ /\ row[r].st = "requested"
        /\ row' = [row EXCEPT ![r] = ClaimedBy(o, @)]
        /\ \/ NoFault /\ Goto(o, "create")
           \/ Fault /\ Continue(o, r, snap[o])
     \/ /\ row[r].st # "requested"
        /\ Goto(o, "create") /\ NoFault /\ UNCHANGED row
     \/ Fault /\ Continue(o, r, snap[o]) /\ UNCHANGED row
  /\ UNCHANGED <<crs, cached, extra, blind>>

\* ClaimWorkload: it lands, or lands and the answer is lost, or the row is
\* no longer claimable (404, 409), or the call is lost.
ClaimWorkload(o, r) ==
  /\ pc[o] = "item" /\ Current(o, r)
  /\ ~Gated(o, r)
  /\ \/ /\ row[r].st = "requested"
        /\ row' = [row EXCEPT ![r] = ClaimedBy(o, @)]
        /\ \/ NoFault /\ Goto(o, "create")
           \/ Fault /\ Continue(o, r, snap[o])
     \/ /\ row[r].st # "requested"
        /\ Continue(o, r, snap[o]) /\ NoFault /\ UNCHANGED row
     \/ Fault /\ Continue(o, r, snap[o]) /\ UNCHANGED row
  /\ UNCHANGED <<crs, cached, extra, blind>>

\* The template lookup and version check after the claim.
VersionMismatch(o, r) ==
  /\ pc[o] = "create" /\ Current(o, r)
  /\ r \notin Compatible[o]
  /\ Goto(o, "terminal")
  /\ UNCHANGED <<row, crs, cached, extra, blind, faults>>

\* Mutant: the snapshot is not shrunk after a successful Create.
CountedNever(o, r) == snap[o]

\* The snapshot shrinks in place after a successful Create.
Counted(o, r) ==
  IF snap[o].ok
  THEN [snap[o] EXCEPT !.used = [d \in Resources |-> @[d] + Demand[r][d]]]
  ELSE snap[o]

\* Mutant: a failed Create is retried in place and never reported.
CreateRetriesInPlace(o, r) ==
  /\ pc[o] = "create" /\ Current(o, r)
  /\ r \in Compatible[o]
  /\ r \notin Invalid
  /\ crs' = [crs EXCEPT ![o][r] = @ + 1]
  /\ Continue(o, r, Counted(o, r))
  /\ UNCHANGED <<row, cached, extra, blind, faults>>

\* Create: an invalid config fails before anything is written; the write may
\* succeed, fail, or succeed with its answer lost, which reads as a failure.
Create(o, r) ==
  /\ pc[o] = "create" /\ Current(o, r)
  /\ r \in Compatible[o]
  /\ \/ /\ r \in Invalid
        /\ NoFault /\ Goto(o, "retryable")
        /\ UNCHANGED <<crs, extra, blind>>
     \/ /\ r \notin Invalid
        /\ crs' = [crs EXCEPT ![o][r] = @ + 1]
        /\ NoFault /\ Continue(o, r, Counted(o, r))
        /\ UNCHANGED <<extra, blind>>
     \/ /\ r \notin Invalid
        /\ Fault /\ Goto(o, "retryable")
        /\ UNCHANGED <<crs, extra, blind>>
     \/ /\ r \notin Invalid
        /\ crs' = [crs EXCEPT ![o][r] = @ + 1]
        /\ extra' = [extra EXCEPT ![r] = @ + 1]
        /\ blind' = [blind EXCEPT ![o] = TRUE]
        /\ Fault /\ Goto(o, "retryable")
  /\ UNCHANGED <<row, cached>>

\* ReportLifecycle of a failed item, with the workload id only: applied or
\* refused, its answer possibly lost, or lost itself.  The loop goes on
\* whatever came back.
ReportLifecycle(o, r) ==
  /\ pc[o] \in {"retryable", "terminal"} /\ Current(o, r)
  /\ \/ /\ \E w \in ReportOutcomes(o, row[r], pc[o] = "retryable") :
             row' = [row EXCEPT ![r] = w]
        /\ NoFault
     \/ Fault /\ UNCHANGED row
  /\ Continue(o, r, snap[o])
  /\ UNCHANGED <<crs, cached, extra, blind>>

\* The process restarts: the tick is forgotten, Convex and the cluster stay.
Crash(o) ==
  /\ pc[o] # "idle"
  /\ Fault
  /\ pc' = [pc EXCEPT ![o] = "idle"]
  /\ todo' = [todo EXCEPT ![o] = {}]
  /\ snap' = [snap EXCEPT ![o] = NoSnapshot]
  /\ UNCHANGED <<row, crs, cached, extra, blind>>

--------------------------------------------------------------------------------
(* What goes on around the loop.                                           *)

\* The reconciler has applied a CR's Deployment and the cache shows it.
Appear(o, r) ==
  /\ cached[o][r] < crs[o][r]
  /\ cached' = [cached EXCEPT ![o][r] = @ + 1]
  /\ UNCHANGED <<row, crs, pc, todo, snap, extra, blind, faults>>

\* The reconciler's first reports about a CR settle the row that carries its
\* workload id; about a claim that is another operator's they may as well.
Settle(o, r) ==
  /\ crs[o][r] > 0
  /\ row[r].st = "provisioning"
  /\ row' = [row EXCEPT ![r].st = "active", ![r].owner = o]
  /\ UNCHANGED <<crs, cached, pc, todo, snap, extra, blind, faults>>

\* Who is between a claim of r and its outcome.
Holders(r) ==
  {o \in Operators : pc[o] \in {"create", "retryable", "terminal"}
                     /\ Current(o, r)}

\* The claim's owner is not working on it and has no CR to show for it.
Orphaned(r) ==
  /\ row[r].st = "provisioning"
  /\ row[r].owner \notin Holders(r)
  /\ crs[row[r].owner][r] = 0

\* Convex's lease on a claim nobody will report about runs out.
LeaseExpires(r) ==
  /\ Orphaned(r)
  /\ row' = [row EXCEPT ![r] = Released(@)]
  /\ UNCHANGED <<crs, cached, pc, todo, snap, extra, blind, faults>>

\* A lease runs out on an operator that is merely slow.
LeaseExpiresEarly(r) ==
  /\ row[r].st = "provisioning" /\ ~Orphaned(r)
  /\ Fault
  /\ row' = [row EXCEPT ![r] = Released(@)]
  /\ extra' = [extra EXCEPT ![r] = @ + 1]
  /\ UNCHANGED <<crs, cached, pc, todo, snap, blind>>

Tick(o) ==
  \/ HeartbeatOnce(o)
  \/ \E r \in todo[o] :
       \/ Skip(o, r) \/ ClaimWorkload(o, r)
       \/ VersionMismatch(o, r) \/ Create(o, r) \/ ReportLifecycle(o, r)

Next ==
  \/ \E o \in Operators : Tick(o) \/ Crash(o)
  \/ \E o \in Operators, r \in Requests : Appear(o, r) \/ Settle(o, r)
  \/ \E r \in Requests : LeaseExpires(r) \/ LeaseExpiresEarly(r)

Spec == Init /\ [][Next]_vars

\* The ticker fires for ever and every step of a tick returns (each call has
\* the client's timeout); claims get their outcome: the owner's reconciler
\* reports about its CR, or Convex's lease sweep runs.
Fairness ==
  /\ \A o \in Operators : WF_vars(Tick(o))
  /\ WF_vars(\E r \in Requests :
               \/ LeaseExpires(r)
               \/ \E o \in Operators : row[r].owner = o /\ Settle(o, r))

LiveSpec == Spec /\ Fairness

--------------------------------------------------------------------------------
(* Properties.                                                             *)

\* Every variable stays in its set; a busy tick has an item, a claimed row an
\* owner, a row that may be released an attempt left, and each early lease or
\* lost Create answer cost a fault.
TypeOK ==
  /\ row \in [Requests -> Rows]
  /\ crs \in [Operators -> [Requests -> Nat]]
  /\ cached \in [Operators -> [Requests -> Nat]]
  /\ pc \in [Operators -> PCs]
  /\ todo \in [Operators -> SUBSET Requests]
  /\ extra \in [Requests -> Nat]
  /\ blind \in [Operators -> BOOLEAN]
  /\ faults \in 0..MaxFaults
  /\ \A o \in Operators : pc[o] = "idle" <=> todo[o] = {}
  /\ \A r \in Requests :
       /\ row[r].st = "provisioning" => row[r].owner \in Operators
       /\ row[r].st \in {"requested", "provisioning"} => row[r].attempts < MaxAttempts
       /\ extra[r] + faults <= MaxFaults

CRsOf(r) == SumFunction([o \in Operators |-> crs[o][r]])

\* One claim, one CR, across every operator of the fleet: a second CR for the
\* same request is always accounted for by a Create whose answer was lost or
\* a lease that ran out on a slow operator (processClaimable, ClaimWorkload).
DuplicatesAccounted == \A r \in Requests : CRsOf(r) <= 1 + extra[r]

\* The stronger promise where nothing went astray: a request none of whose
\* Create answers was lost and whose lease never ran out on a slow operator is
\* in the hands of one operator, the one its row names, which either still
\* works on the claim or has exactly one CR for it; a queued, failed or
\* exhausted request is in nobody's hands (processClaimable, releaseClaim).
OneClaimOneOperator ==
  \A r \in Requests, o \in Operators : extra[r] = 0 =>
    /\ (o \in Holders(r) \/ crs[o][r] > 0) =>
         row[r].st \in {"provisioning", "active"} /\ row[r].owner = o
    /\ crs[o][r] <= IF o \in Holders(r) THEN 0 ELSE 1

\* The self-gate works across items and ticks: an operator none of whose
\* snapshots missed anything (cache lag, a failed snapshot, a lost Create
\* answer) has never created more than its nodes can hold.
NoOvercommitUnlessBlind ==
  \A o \in Operators : ~blind[o] =>
    \A d \in Resources : Requested(crs[o])[d] <= Allocatable[o][d]

\* "so the row never gets stuck in provisioning forever" (runnable.go:358):
\* whatever is lost, a claim ends in a CR, in a failure or back in the queue.
ProvisioningEnds ==
  \A r \in Requests : []<>(row[r].st # "provisioning")

\* Some operator would let r through its gate, judging by its cache.
RoomFor(r) == \E o \in Operators : Fits(o, Requested(cached[o]), r)

Waiting(r) == row[r].st \in {"requested", "provisioning"} /\ RoomFor(r)

\* A request some operator has room for does not wait in the queue for ever:
\* "Unclaimed remainder is picked up on the next tick." (runnable.go:54-55)
RemainderPickedUp == \A r \in Requests : []<>(~Waiting(r))

--------------------------------------------------------------------------------
(* Refinement.                                                             *)

\* The request's life as RequestLife sees it.
Life == INSTANCE RequestLife WITH
  holders <- [r \in Requests |-> Holders(r)],
  made <- [r \in Requests |-> {o \in Operators : crs[o][r] > 0}]

\* Every fleet running heartbeatOnce and processClaimable gives each request
\* the life RequestLife describes: nobody makes a CR without a claim, nobody
\* settles a request without a CR, and a settled request is never reopened.
LifeSpec == Life!Spec

================================================================================
