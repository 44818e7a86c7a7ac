# A TLA+ verification project for ai-cloud-operator

The operator turns requests for workloads, kept in a Convex backend, into
Kubernetes objects, and reports back what became of them. Nothing in it is a
transaction: a Kubernetes write, a Convex call and a status update are three
calls, each of which can fail, land without its answer, or be cut off by a
restart, while a second goroutine and other operators go on. The project models
that control flow, checks it with TLC on small instances and proves the safety
properties that matter most with TLAPS for every instance.

Line numbers refer to the sources under `src/`. `PROJECT.json` holds the exact
map from definitions to source lines, the list of hazards, the runs and the
theorems.

## 1. The system

| Part | Source | What it does |
|---|---|---|
| Workload reconciler | `internal/controller` | Workload CR to Deployment and Service; phase, upsert and lifecycle reports to Convex; finalizer; release of unschedulable claims |
| Heartbeat loop | `internal/convexclient/runnable.go` | registration, heartbeat, claim of new requests, execution of pending operations |
| Convex client | `internal/convexclient/client.go` | one method per endpoint, errors by status code |
| Workload creator | `internal/provisioning` | Create, Redeploy, SetSuspended, Destroy on the CR |
| Capacity tracker | `internal/capacity` | allocatable minus requested, from the informer cache |
| Token store, enrollment watcher | `internal/tokenstore`, `internal/convexclient/enrollment.go` | the token Secret, the mounted enrollment secret |
| Gateway | `internal/gateway`, `internal/api/server.go` | signing key, token exchange, cookies, proxy, status pages |
| Deploy API | `internal/api` | deploy, get, delete, run-function (backup of a profile) |
| Catalog | `internal/catalog` | templates, parameter resolution, rendering |
| Metrics, pod exec, namespace, labels | `internal/metrics`, `podexec`, `workloadns`, `labels` | cluster reads, exec streams, one create at startup, constants |
| Wiring | `cmd/main.go` | order of startup, informer cache with uncached Secrets |

They meet in six places, and each of them is a composition in this project:

* the reconciler and the heartbeat goroutine write the same CR and report to
  the same Convex row (`WorkloadLifecycle`);
* several operators race for the same requests, each with its own cache
  (`ClaimLoop`, which implements `RequestLife`);
* the heartbeat goroutine replaces the tokens that other goroutines copy
  (`OperatorRegistration`);
* several processes share one signing-key Secret and serve the same browsers
  (`GatewaySession`);
* HTTP calls, the heartbeat and the reconciler read the same Workloads through
  a cache and write them back whole; what they store is resolved and rendered
  by the catalog (`DeployApi` with `Catalog`);
* operations run scripts in the pods of a workload, which outlive the calls
  that started them and leave archives that later pods restore
  (`BackupOperation` with `Catalog`).

## 2. Modules

```
ConvexRow <- WorkloadObjects <- WorkloadController, PendingOperations
                                     \            /
                                  WorkloadLifecycle <- MCWorkloadLifecycle
                                                    <- WorkloadLifecycleProofs
                                                         <- LifecycleProofs
RequestLife <- (INSTANCE) ClaimLoop <- MCClaimLoop, ClaimProofs
OperatorRegistration <- MCOperatorRegistration, RegistrationProofs
GatewaySession       <- MCGatewaySession, GatewayProofs
Catalog, HttpStatus <- DeployApi       <- MCDeployApi, DeployProofs
                    <- BackupOperation <- MCBackupOperation, BackupProofs
```

**ConvexRow** is the backend's row of one workload: status and owner, and what
each call of the client does to it. It is not part of this repository. It is
modelled from how the code uses it: where the code and its comments say what an
endpoint does, that is the definition, and where they do not, the definition
allows every outcome (a `failed` report may be resolved to `failed` or to
`active`, a release may meet the attempt cap or not, a report against a row
that has gone elsewhere is refused).

**WorkloadObjects** is the API server and what happens around the operator: the
stored Workload `w`, the operator's cached copy `cache`, the Deployment `dep`
and its cached readiness `seen`, pods that become ready, end, fail or cannot be
placed, users who delete and request, Convex's leases and other operators. A
condition of the status is kept as the generation it is True for (0: none).

**WorkloadController** is `Reconcile`, one action per call that leaves the
process. `pc` is where it is, `base` the copy it read (its resourceVersion),
`obj` the copy it changes. A write succeeds when `base = w`, else it is a
conflict. `queued` is the work queue's key: controller-runtime runs one
reconcile per key at a time and runs it again for an event that comes
meanwhile.

**PendingOperations** is `processPendingOperations` for this workload: claim,
act, report. An Update that changes nothing leaves the generation alone and
makes no event, as the API server does.

**WorkloadLifecycle** composes the two with the environment, adds crashes of
the process, and states the properties. A crash loses `pc`, `obj` and the claim
in hand; the restart queues every object again.

**OperatorRegistration** is the runnable's `Start`: load the Secret, compare
the fingerprints, register, save, install, heartbeat, watch the enrollment
file. Around it: crashes, redeployments with another configuration, rotation
and unmounting of the secret, revocation by Convex, a caller on another
goroutine that copies a token, is delayed, and uses it. `requireDeployToken`
holds the token that Convex presents to the deploy API against the pair in use.

**ClaimLoop** is `heartbeatOnce` and `processClaimable` of several operators:
snapshot, the list cut to `maxClaimsPerTick`, and for each item gate, claim,
version check, Create, report or shrink the snapshot. `crs` counts the CRs that
exist, `cached` those the cache shows. `todo` is the set of the items left; a
request is a number, its place in Convex's order, and a tick takes the least
first. Two history variables account for what the code cannot rule out: `extra`
counts the lost Create answers and early leases that justify another CR,
`blind` says that an operator's snapshot missed something.

**RequestLife** is the abstract specification: what the fleet promises about
each request. It is claimed by one operator at a time; only an operator that
holds a claim makes a CR; a claim that comes to nothing goes back to the queue
until the attempts are used up; only an operator that made a CR settles the
request; a settled request stays settled. Ticks, snapshots, capacity, catalogs,
caches and the order of the queue are not seen. The mapping keeps Convex's
`row`, takes for `holders[r]` the operators whose tick stands at `r` between
claim and outcome, and for `made[r]` those with a CR for `r`.

**GatewaySession** is `KeyStore.LoadOrGenerate` of several processes,
`requireGatewayToken` with its two ways in (one-time token, cookie), `Sign`,
`Verify`, the phase switch and Service lookup of the proxy and the pages that
reload themselves. Keys and tokens are model values, the time is a small clock.
`grant` remembers when a browser last exchanged a token for a workload.

**Catalog** is pure: the parameters of the four templates, `ResolveParams`
(defaults for absent keys, then visibility, required and validation), the
`Build` functions as far as parameters decide what they return, and the
reconciler's `render`. A JSON value is a tagged tuple; numbers are in halves, so
that the truncation of `paramInt32` shows. `Build` reads `profileDownloadUrl`
whatever `restoreProfile` says, as in the code. **HttpStatus** names the codes
of `net/http` that the handlers answer with.

**DeployApi** is `handleDeploy` on both of its paths, `handleGet` and
`handleDelete` as concurrent calls, `Redeploy` and `SetSuspended` of the
heartbeat, the informer, the garbage collector, and a reconcile as one step:
its single calls are the subject of `WorkloadController`. The raw path is two
steps, since `CreateOrUpdate` reads from the cache and writes later. An object
has a version, and an Update is taken only of the version it was read at. The
history `latest` is the spec that the accepted writes add up to.

**BackupOperation** is `handleRunFunction` with its checks in their order,
`FindPod`, the exec, the steps of the `backup_state` script on a file that all
calls in a pod share, and the `restore-profile` init container of later pods.
`content` follows what each file ever created holds, so that a `curl` that has a
file open keeps it after it was truncated or removed. The history `overlapped`
holds the calls whose scripts met another in their pod. `OneAtATime` says
whether the caller waits for a call to end before it makes the next.

Definitions marked `Mutant` are deliberately wrong forms of the definition that
follows them. Replacing one by the other must violate a property: they show
that each property depends on the code it is about. No specification uses them.

## 3. What the models assume

* **Optimistic locking.** A resourceVersion check is equality of the copy read
  with the stored object. The two differ only when a write put back an earlier
  value, which the models' objects cannot tell apart either.
* **The cache** jumps to the latest object; a lag of several versions is one
  longer lag. Secrets are read uncached (`cmd/main.go:185-187`).
* **Lost calls.** A call fails before it lands, or lands and its answer is
  lost; both cost one of `MaxFaults`. A request that was given up and is carried
  out much later is not modelled.
* **Convex** keeps claimable rows in a stable order, honours only the token
  pair it minted last, and clears the owner of a released row only for a row in
  `provisioning`: an operation stays with the operator that has the workload.
* **Names.** `GenerateName` never makes a name that was used before; a raw
  deploy may use any.
* **Pods of a backup.** The Deployment takes an old pod away once a newer one
  runs; for a while both may carry the label that `FindPod` looks for.
* **One active process** per operator, by leader election. The gateway and the
  claim loop are checked with two processes and two operators all the same.
* **Replicas** is positive in `WorkloadLifecycle`. A claimed workload always has the default of 1; a
  manual deploy with 0 replicas is a case of `DeployApi`.

## 4. Runs

The instances are chosen so that each of the listed cases happens in them; the
bounds only limit how often.

| Run | Instance | Result |
|---|---|---|
| `lifecycle` | 1 replica, 1 fault, 1 request | pass, 222K states |
| `registration` | 2 configurations, 3 faults, 2 changes | pass, 130K states |
| `claim` | 2 operators, 3 requests, cut 2, 2 attempts, 1 fault | pass, 74K states |
| `gateway` | 2 processes, 2 keys, 2 names, 1 browser, clock 0..2, 2 faults, 1 change | pass, 163K states |
| `deploy_api` | 2 names, 3 calls, 1 heartbeat operation, 1 fault | pass, 318K states |
| `backup` | 3 calls that may overlap, 2 pods, 1 fault | pass, 1.3M states |
| `stop_lost_answer`, `unschedulable_delete_lost`, `rotation_lost`, `claim_remainder`, `deploy_stands`, `backup_torn` | see section 6 | violation |

**lifecycle.** `KnownNeverLost`: a workload Convex was told of does not
disappear without Convex being told, unless somebody cleared the finalizer by
hand. `ReopenedCreateSurvives`: the order report, then delete, of
`checkUnschedulable` keeps a create that was opened for other operators from
being destroyed. `QuiescentConverged`: when nothing is queued and the cache is
current, the object, the Deployment, the phase and both Convex conditions agree
with the stored spec. `AnsweredForGeneration`: a True lifecycle condition is
backed by an answer of Convex about that generation's phase.
`FailedOnlyWhenBroken`: conflicts never become failures. A deletion ends,
requeueing ends (also after a 409 that no retry can change), and a redeploy
reaches an outcome. The fault can be at any call of any of the reconciles. One
request keeps the graph small enough for the three liveness properties; the
invariants are proved for any number of requests and faults.

**registration.** Tokens in use are stored ones or older (`PersistedFirst`); a
process whose token Convex honours is described by Convex's row
(`ServingMatchesFleet`), also after a roll-back and a registration whose answer
or Save was lost; tokens converge, so that each side accepts the other's calls,
and refused calls get through. Deadlock is checked here: the heartbeat never
stops.

**claim.** A second CR for one request always has a lost Create answer or an
early lease behind it (`DuplicatesAccounted`); without either, a request is in
the hands of one operator, the one its row names (`OneClaimOneOperator`); an
operator whose snapshots missed nothing never creates more than its nodes hold;
no row stays in `provisioning`; a request with room somewhere is picked up; and
the fleet implements `RequestLife` (`LifeSpec`). There is one request more than
a tick takes; only the large operator has room for the first, either has room
for the second, the third can never be created, and each catalog lacks one
version. Two attempts let a release happen both below the cap and at it.

**gateway.** However the boots race, the processes that serve have the stored
key; a cookie verifies at every one of them until its time is over; a browser
reaches a workload only on its own session for it; boots complete; and no
self-reloading page stays for ever on a stopped workload. The clock reaches
past `TTL + Skew`, so both ends of a cookie's life are met. Two keys are enough
for a fresh one to be left whenever one is generated.

**deploy_api.** No accepted write undoes another (`NoLostUpdate`). What `Create`
and `Redeploy` let through can be rendered from what was stored
(`AcceptedRenders`). No container gets a worker count outside the parameter's
range, however its config was stored (`RenderedWithinRules`). A null or empty
value renders as an absent key does, although the default is written down twice
(`BlanksMeanDefaults`). An accepted workload gets to run what its spec says,
also when its name was used before (`WantedRuns`). The configs are the ones that
tell the rules apart: a number past its range, a null, an empty required value
and a complete profile. Three calls let a name be deployed, deleted and deployed
again beside a heartbeat operation.

**backup.** Only scripts that met another in their pod upload a torn archive,
and only such an archive keeps a pod from starting (`TornOnlyIfOverlapped`); a
recorded backup was uploaded (`RecordedWasUploaded`); a failed or expired
download never keeps a pod from starting (`PodsStart`). Three calls are needed
for a third script to open the file of the first while the second sends it; the
requests include each one that `handleRunFunction` turns away.

Deadlock is not checked where the system may stop: a workload that is gone, a
queue that is empty, a clock or a number of calls at its bound.

### Fairness

Only weak fairness, of steps the code or the platform keeps taking.

* `lifecycle`: the reconcile worker runs while the key is queued, the heartbeat
  goroutine goes on, watches deliver, the Deployment controller acts on pods
  that can be placed, Convex's leases end.
* `registration`: the heartbeat goroutine, callers, the kubelet's refresh of the
  mounted volume.
* `claim`: each operator's tick (every call has the client's timeout), and the
  outcome of a claim: the owner's report or Convex's lease sweep.
* `gateway`: a container that exited is started again, a request is handled, a
  page with a refresh header is loaded again.
* `deploy_api`: watches, the garbage collector, the reconcile worker. No call is
  assumed to arrive or to finish.
* `backup`: only the kubelet's restarts of the init container. Nothing in the
  code limits how long `tar` and `curl` take.

No fairness is assumed of users, faults, crashes or the scheduler's verdict.
Faults and user actions are bounded by budgets, so "in the end
every call succeeds" is the assumption behind each liveness property; where a
pod may stay unplaceable the property says so (`<>[](~stuck)`).

## 5. Proofs

The theorems hold for every value of the constants that satisfies the named
assumptions, which say what kind of thing each constant is:
`ReplicasAssumption` and `BoundsAssumption` (lifecycle), `ConfigsAssumption` and
`LimitsAssumption` (registration), `RequestsAssumption` and `BoundsAssumption`
(claim loop: any finite fleet and queue), `GatewayAssumption`, `GeneratedNames`,
`ConfigNumbers` and `DeployBounds` (deploy API: the numbers of the configs are
whole halves, as `Catalog` has them) and `BackupBounds`. The proofs about
`RequestLife` use none. No assumption bounds the number of faults, requests,
calls or changes.

**WorkloadLifecycleProofs.** `TypeCorrect`, then `RemovalIsNeverLost`, which is
`Spec => []KnownNeverLost`. The property speaks of Convex's knowledge and of
the object only. It is not inductive: the finalizer is written in one step,
Convex told in a later one, and in between there are copies of the object that
may be older or newer. `FinalizerInv` adds that anything which shows the
finalizer was once written (a copy that has it, a control point behind the
write, Convex's knowledge) implies that it is still on the stored object or that
the removal was told (`FinalizerHeld`), that a dead copy is blank (`NoGhosts`),
and what each control point knows of its copy (`ObjectAtPC`). The step is one
lemma per action; the actions of the environment share one that says what they
may change.

**LifecycleProofs** has the other invariants of the lifecycle.

* `AnswersAreReal` (`AnsweredForGeneration`). The inductive `AnsweredInv` asks
  the same of the stored object, the cached one, the one read and the one being
  changed, and that generations only grow past what was answered: a stale
  condition then is below the generation it is stored with.
* `FailuresAreReal` (`FailedOnlyWhenBroken`) and `ReopenedCreatesSurvive`
  (`ReopenedCreateSurvives`), from `RowInv`: each goroutine is on its way to a
  terminal report only with an error on record, and a reopened create belongs
  to nobody or to a claim of another operator.
* `RestMeansConverged` (`QuiescentConverged`). `ConvergedInv` says at each
  control point what the reconcile under way has established, provided that no
  event has queued the key again meanwhile. Every step that parts the object,
  the Deployment and the status from one another queues the key. TLC has
  checked `RowInv` and `ConvergedInv` on larger instances than the run's, with
  two faults and with two replicas and two requests.

**RequestLife** proves of the abstract specification that an active request has
a CR at the operator its row names (`ActiveAlwaysMade`) and that a settled one
stays so (`SettledAlwaysStays`). **ClaimProofs** proves `TypeOK`,
`OneOperatorPerClaim` (`OneClaimOneOperator`, inductive together with `TypeOK`)
and the refinement: `ClaimLoopRefinesLife` is `Spec => LifeSpec`. Initial states
map to initial states; each action of an operator's tick, the lease and the
reconciler's report maps to the step of `RequestLife` with the same outcome, or
to a stutter. A crash is `GiveUp` of the claim in hand, or a stutter.
`ActiveWorkloadsRun` and `SettledRequestsStay` carry the abstract theorems over
to the fleet.

Two more theorems of ClaimProofs are about sums.

* `DuplicatesAlwaysAccounted` (`DuplicatesAccounted`) bounds the CRs of a
  request over the whole fleet. A claim in hand may still become a CR, and so
  may a row that Convex may yet hand out, so `AccountInv` counts those too: the
  CRs, the operators that hold the claim (`Weight`), and one for a row that is
  queued or whose owner has lost it (`Loose`), add up to at most `1 + extra`.
  A claim moves the one from the row to the operator, a Create from the claim
  to the CR, a release back to the row; only a lost Create answer or a lease
  that runs out on a slow operator adds one, and both count in `extra`.
* `SelfGateHolds` (`NoOvercommitUnlessBlind`): `GateInv` says of an operator
  that is not blind that what it created fits, that the tick's snapshot, shrunk
  after each Create, is exactly that, and that the request it is about to create
  was let through by this very snapshot.

Both rest on what a sum over a function does when one value of it changes
(`SumInt`, `SumUpdate`, `SumMonotone`, `SumZero`). The library's induction
theorems cannot be used, so these are proved by least counterexample, from the
well-foundedness of the naturals: the recursion that defines the fold has a
solution on all subsets of a finite set (`FoldExists`), `SumFunction` is that
solution (`SumByPicks`), and a smallest set for which a claim about it failed
(`MinimalSubset`) has an element that can be taken out.

**RegistrationProofs.** `RegistrationInv` orders Convex's pair, the stored pair
and the pair in use, and ties each to the fingerprints it was made for.
`FleetIsCurrent` and `TokensArePersisted` follow.

**GatewayProofs.** `SessionInv` ties each cookie to the stored key and to the
exchange it came from. `KeysAlwaysAgree` and `SessionsAlwaysSurvive` follow from
it; `AdmissionNeedsGrant` is the action property `AdmittedByGrant`, proved from
the invariant for each step. `GatewayTypes` is the type invariant.

**DeployProofs.** `NoUpdateIsLost` (`NoLostUpdate`) and `AcceptedAlwaysRenders`
(`AcceptedRenders`), for any names, requests and configs. `DeployInv` asks of
each stored object that it carries the sum of the accepted writes and, if a
validating writer wrote it last, a config that its template takes (`StoreInv`);
and of the copies that calls, the heartbeat and the informer hold that they are
objects, the heartbeat's with a config that was validated against the template
of that very copy (`CopiesInv`). Since an Update needs the stored object to be
the copy, what was validated for the copy holds of the object.

What is rendered is the subject of two more. `BlanksAlwaysMeanDefaults`
(`BlanksMeanDefaults`) goes through `ResolveParams` and the four `Build`
functions: each parameter reads the same from a config and from the config
without its blanks, since the default of each parameter is what `Build` falls
back to. `RenderedAlwaysWithinRules` (`RenderedWithinRules`) needs both halves
of the code: a number that `ResolveParams` lets through is in range, and for a
value that is no number `paramInt32` takes the fallback. `RunsInv`
keeps that for the Deployment after its object has changed or gone. `DeployTypeOK`
is the type invariant, from `DeployInv` with `RunsInv`, `AnswersInv` (only a raw
deploy has a second half; each answer is one of its handler's codes) and
`BoundsInv`.

`AcceptsStandUnlessMisled` marks off the disagreement that `deploy_stands`
shows: a 202 for a Workload that does not carry what was sent is that of a raw
deploy, and it was misled by a stale cache into writing nothing, or was applied
to a Workload that is going away or to a template's, whose image it does not
replace (`FalseAcceptsExplained`). TLC reaches each of the three cases. The 202
of a template's deploy, and of a raw deploy that creates its Workload, always
hold.

**BackupProofs.** `TornNeedsOverlap` (`TornOnlyIfOverlapped`) and
`RecordedAlwaysUploaded` (`RecordedWasUploaded`). `BackupInv` says that no two
pods share a file and whoever has one open is in its pod (`FilesInv`), that a
script which met no other has its pod to itself from its `tar` to the end of its
`curl`, and its archive as it left it (`AloneInv`), and that a script past its
`curl` has uploaded (`UploadInv`). `BackupTypes` is the type invariant. That a
script which goes on is in a running pod follows from how each step moves a
call and its pod together (`Goes`), that a named file has content from how it
moves the files (`ArchivesMove`).

`WaitingCallersRestore` does the same for `backup_torn`: with `OneAtATime`, and
as long as no connection was lost, every recorded backup can be restored,
whatever transfers fail and pods go away. By `WaitingInv` such a caller has one
call under way, and by `TypeOK` every script belongs to a call under way or
lost, so no two scripts meet.

Every invariant and action property of the passing runs, and the refinement, is
proved. Only model-checked is liveness, which is out of the prover's reach.
TLC found each inductive invariant true in all states of the run's instance, or
of a larger one, before it was proved.

## 6. What the code does not keep

Each has a run that TLC refutes.

* **A stop or resume whose answer is lost is never reported**
  (`stop_lost_answer`). `SetSuspended` (`creator.go:173-185`) writes one field.
  A retry after the write landed changes nothing, so there is no new generation
  and the lifecycle report is skipped as already made; the row stays in
  `stopping`. `runnable.go:453-456` says that the Stopped transition resolves
  it. `Redeploy` writes `LastRedeployedAt` and has no such gap
  (`RedeployResolves`). With two requests (`MaxRequests = 2`) no fault is needed:
  a reconcile that read the object before the stop may report `active` to the
  row in `stopping`, and the second stop that the user then asks for finds the
  Workload suspended. That rests on the backend taking the report.
* **A failed delete is not retried** (`unschedulable_delete_lost`). After the
  release landed, the row is no longer in flight and the next report is refused
  with 409, which returns before the delete (`workload_controller.go:353-358`).
  The comment at `:318-321` says the whole sequence is retried.
* **A rotation can be lost** (`rotation_lost`). `checkEnrollmentSecret` stores
  the new secret before it registers with it (`runnable.go:237`), so one failed
  call ends the attempt for good. `docs/production-deploy.md:60` says that the
  operator re-registers on its own.
* **The remainder is not always picked up** (`claim_remainder`). The list is cut
  to `maxClaimsPerTick` before the gate skips (`runnable.go:375`): five requests
  at its head that fit nowhere are looked at on every tick and the sixth never.
  `runnable.go:54-55` says that it is picked up on the next tick.

* **An accepted raw deploy may be nothing** (`deploy_stands`).
  `CreateOrUpdate` (`server.go:491`) compares the request with the cached object
  and writes nothing when they agree. If another call has deleted or changed the
  Workload and the cache has not seen it, the answer is 202 all the same, and
  the Workload goes away. `server.go:507` logs it as applied.
* **A retried backup may be recorded and not restorable** (`backup_torn`). Every
  call in a pod writes `/tmp/backup.tar.gz` (`browser.go:266`), and the script of
  a call that lost its connection goes on. A caller that makes one call at a time
  and retries a lost one has two scripts on one file; both exit 0, and the
  archive that is recorded cannot be unpacked. `browser.go:218` says that it can
  be restored into a future deploy.

Three smaller disagreements between comments and code, without a run of their
own: a 409 is recorded as "Convex already reflects this workload's current
phase" (`workload_controller.go:513`) whatever the row's status; a phase report
without `Retryable` can meet a row in `destroying` (`client.go:505-508` says it
must not), because the heartbeat goroutine moves the row while a reconcile is
under way; and a released resume or redeploy keeps its operator and name, so the
delete that follows does mark the reopened row destroyed
(`workload_controller.go:312-316` says that the lookup finds nothing). The third
rests on how the backend treats a released operation, which is not in this
repository.

## 7. Not modelled

* Metrics: reads of the cluster and a report nobody waits for; no state of the
  operator depends on them. The token of the report is a caller of
  `OperatorRegistration`.
* The namespace: one idempotent create at startup. Labels: constants and a merge
  of maps.
* Of the catalog: the fixed parts of the rendered pods, options and
  descriptions, the hash of a template (a version that matches or does not, in
  `ClaimLoop`) and its estimated resources (`Demand`, there).
* Wire formats, HTML, logging, flags, TLS, probes, generated code, the chart.
* Late execution of timed-out requests (`client.go:664`): a removal that was
  given up could meet a new workload of the same name, which only a raw deploy
  can make.
* A cache that shows several versions one after the other: it jumps to the
  latest.
* A repair or deletion of the signing-key Secret by an administrator.
* A token whose exchange with Convex lost its answer (`server.go:241`) is a step
  of `GatewaySession`, without a property: the code promises nothing about it.
