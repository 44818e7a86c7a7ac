-------------------------------- MODULE DeployApi --------------------------------
(***************************************************************************)
(* The deploy API of internal/api: concurrent HTTP calls that create,      *)
(* read, overwrite and delete Workloads, beside the heartbeat goroutine's  *)
(* Redeploy and SetSuspended and the reconciler.  All of them read through *)
(* the manager's informer cache and write to the API server, which takes   *)
(* an Update only of the version it was read at.                           *)
(*                                                                         *)
(* The reconciler's single calls are the subject of WorkloadController;    *)
(* here a reconcile is one step that settles its object or fails, and what *)
(* it renders (Catalog) is what counts.                                    *)
(***************************************************************************)
EXTENDS Integers, Catalog, HttpStatus

CONSTANTS
  Names,       \* Workload names
  Generated,   \* those that GenerateName can make of a template's ID
  MaxCalls,    \* bound on the HTTP calls
  Requests,    \* what a call may ask for
  Configs,     \* configs a claimed redeploy may carry
  MaxBeats,    \* bound on the heartbeat's operations
  MaxFaults    \* bound on lost calls and answers

ASSUME GeneratedNames == Generated \in [Templates -> SUBSET Names]

\* The numbers of the configs are whole halves.
ASSUME ConfigNumbers ==
  \A config \in Configs \cup {r.config : r \in Requests} :
    \A k \in DOMAIN config : IsNumber(config[k]) => config[k][2] \in Int

ASSUME DeployBounds == MaxCalls \in Nat /\ MaxBeats \in Nat /\ MaxFaults \in Nat

\* The calls, in the order of their arrival.
Calls == 1..MaxCalls

VARIABLES
  store,    \* the Workloads in the API server
  cache,    \* the informer's copy
  dep,      \* the Deployment of each name
  call,     \* the state of each HTTP call
  beat,     \* the heartbeat goroutine's operation in progress
  uids,     \* the Workloads of each name created so far
  latest,   \* history: the spec that the writes accepted so far add up to
  beats, faults

vars == <<store, cache, dep, call, beat, uids, latest, beats, faults>>

None == [live |-> FALSE]

\* A Workload of template tmpl, "" for a raw image.
NewObject(n, tmpl, image, replicas, config) ==
  [live |-> TRUE, uid |-> uids[n] + 1, tmpl |-> tmpl, image |-> image,
   replicas |-> replicas, config |-> config, suspended |-> FALSE,
   redeploys |-> 0, finalizer |-> FALSE, deleting |-> FALSE, phase |-> "None",
   version |-> 0]

\* What is written of a Workload's spec after its creation.
SpecOf(o) == [image |-> o.image, replicas |-> o.replicas, config |-> o.config,
              suspended |-> o.suspended]

NoDeployment == [uid |-> 0]

Init ==
  /\ store = [n \in Names |-> None]
  /\ cache = store
  /\ dep = [n \in Names |-> NoDeployment]
  /\ call = [c \in Calls |-> [at |-> "idle"]]
  /\ beat = [at |-> "idle"]
  /\ uids = [n \in Names |-> 0]
  /\ latest = [n \in Names |-> [spec |-> None, by |-> "nobody"]]
  /\ beats = MaxBeats
  /\ faults = MaxFaults

Fault == faults > 0 /\ faults' = faults - 1
NoFault == UNCHANGED faults
--------------------------------------------------------------------------------
(* The API server and the informer. *)

Create(n, o, by) ==
  /\ ~store[n].live
  /\ store' = [store EXCEPT ![n] = o]
  /\ uids' = [uids EXCEPT ![n] = @ + 1]
  /\ latest' = [latest EXCEPT ![n] = [spec |-> SpecOf(o), by |-> by]]

\* A write that changes something makes a new version.
Versioned(base, o) ==
  IF o.live /\ o # base THEN [o EXCEPT !.version = @ + 1] ELSE o

\* Mutant: the version is not compared.
UpdateUnchecked(n, base, o) ==
  /\ store[n].live
  /\ store' = [store EXCEPT ![n] = Versioned(base, o)]
  /\ UNCHANGED uids

\* An Update of an object that was read as base.
Update(n, base, o) ==
  /\ store[n] = base
  /\ store' = [store EXCEPT ![n] = Versioned(base, o)]
  /\ UNCHANGED uids

\* A Delete only marks an object that has a finalizer.
Deleted(o) ==
  IF o.live /\ o.finalizer THEN Versioned(o, [o EXCEPT !.deleting = TRUE]) ELSE None

Watch(n) ==
  /\ cache[n] # store[n]
  /\ cache' = [cache EXCEPT ![n] = store[n]]
  /\ UNCHANGED <<store, dep, call, beat, uids, latest, beats, faults>>

\* A Deployment goes after its owner.
Collect(n) ==
  /\ dep[n].uid # 0
  /\ ~(store[n].live /\ store[n].uid = dep[n].uid)
  /\ dep' = [dep EXCEPT ![n] = NoDeployment]
  /\ UNCHANGED <<store, cache, call, beat, uids, latest, beats, faults>>
--------------------------------------------------------------------------------
(* HTTP calls. *)

\* Call c, the next to arrive, is for r.
Receives(c, r, kind) ==
  /\ call[c].at = "idle" /\ \A d \in 1 .. c - 1 : call[d].at # "idle"
  /\ r.kind = kind

Answered(c, r, code, n, stands) ==
  call' = [call EXCEPT ![c] = [at |-> "answered", kind |-> r.kind, code |-> code,
                               name |-> n, stands |-> stands]]

Answer(c, r, code) == Answered(c, r, code, r.name, TRUE)

\* What a 202 says is there: a Workload that is not going away, with the
\* spec of the request.
Carries(o, r) ==
  /\ o.live /\ ~o.deleting
  /\ o.config = r.config
  /\ IF r.kind = "template" THEN o.tmpl = r.tmpl
     ELSE o.tmpl = "" /\ o.image = r.image /\ o.replicas = r.replicas

\* 202, with the name, and for the record whether it is true at this moment.
Accept(c, r, n) == Answered(c, r, StatusAccepted, n, Carries(store'[n], r))

\* Mutant: the config is not looked at before the CR is written.
RejectsUnread(r) == ~(r.user /\ r.tmpl \in Templates)

\* handleDeploy's userId check, and WorkloadCreator.Create's of the template
\* and the config.
Rejects(r) ==
  ~(r.user /\ r.tmpl \in Templates /\ ResolveParams(Parameters[r.tmpl], r.config).ok)

\* GenerateName: one of the template's names, never one that was used before.
FreeNames(tmpl) == {n \in Generated[tmpl] : uids[n] = 0}

DeployTemplate(c, r) ==
  /\ Receives(c, r, "template")
  /\ \/ Rejects(r) /\ Answer(c, r, StatusBadRequest) /\ NoFault /\ UNCHANGED <<store, uids, latest>>
     \/ /\ ~Rejects(r)
        /\ \E n \in FreeNames(r.tmpl) :
             /\ Create(n, NewObject(n, r.tmpl, "", 1, r.config), "template")
             /\ \/ NoFault /\ Accept(c, r, n)
                \/ Fault /\ Answer(c, r, StatusInternalServerError)
     \/ ~Rejects(r) /\ Fault /\ Answer(c, r, StatusInternalServerError)
         /\ UNCHANGED <<store, uids, latest>>
  /\ UNCHANGED <<cache, dep, beat, beats>>

\* The mutate function of the raw path: TemplateName and Suspended stay.
Mutated(o, r) ==
  [o EXCEPT !.image = r.image, !.replicas = r.replicas, !.config = r.config]

\* The raw path's checks, then CreateOrUpdate's Get.  When the cached object
\* is already what the request asks for nothing is written.
DeployRaw(c, r) ==
  LET base == cache[r.name] IN
  /\ Receives(c, r, "raw")
  /\ \/ (r.image = "" \/ r.name \notin Names) /\ Answer(c, r, StatusBadRequest)
     \/ /\ r.image # "" /\ r.name \in Names
        /\ base.live /\ Mutated(base, r) = base
        /\ Answered(c, r, StatusAccepted, r.name, Carries(store[r.name], r))
     \/ /\ r.image # "" /\ r.name \in Names
        /\ base.live => Mutated(base, r) # base
        /\ call' = [call EXCEPT ![c] = [at |-> "apply", req |-> r, base |-> base]]
  /\ UNCHANGED <<store, cache, dep, beat, uids, latest, beats, faults>>

\* CreateOrUpdate's Create or Update; a conflict or AlreadyExists is a 500.
CreateOrUpdate(n, base, r) ==
  \/ /\ ~base.live
     /\ Create(n, NewObject(n, "", r.image, r.replicas, r.config), "raw")
  \/ /\ base.live
     /\ Update(n, base, Mutated(base, r))
     /\ latest' = [latest EXCEPT ![n] =
          [spec |-> [@.spec EXCEPT !.image = r.image, !.replicas = r.replicas,
                                   !.config = r.config],
           by |-> "raw"]]

DeployRawApply(c) ==
  LET r == call[c].req
      base == call[c].base
  IN
  /\ call[c].at = "apply"
  /\ \/ CreateOrUpdate(r.name, base, r) /\ NoFault /\ Accept(c, r, r.name)
     \/ CreateOrUpdate(r.name, base, r) /\ Fault /\ Answer(c, r, StatusInternalServerError)
     \/ /\ IF base.live THEN store[r.name] # base ELSE store[r.name].live
        /\ NoFault /\ Answer(c, r, StatusInternalServerError) /\ UNCHANGED <<store, uids, latest>>
     \/ Fault /\ Answer(c, r, StatusInternalServerError) /\ UNCHANGED <<store, uids, latest>>
  /\ UNCHANGED <<cache, dep, beat, beats>>

\* handleGet: the cached object's status.
Get(c, r) ==
  /\ Receives(c, r, "get")
  /\ Answer(c, r, IF cache[r.name].live THEN StatusOK ELSE StatusNotFound)
  /\ UNCHANGED <<store, cache, dep, beat, uids, latest, beats, faults>>

\* Mutant: a Workload that is gone is an error to whoever deletes it again.
DeleteOnce(c, r) ==
  /\ Receives(c, r, "delete")
  /\ store' = [store EXCEPT ![r.name] = Deleted(@)]
  /\ Answer(c, r, IF store[r.name].live THEN StatusNoContent ELSE StatusNotFound)
  /\ UNCHANGED <<cache, dep, beat, uids, latest, beats, faults>>

\* handleDelete: NotFound is success too.
Delete(c, r) ==
  LET deleted == [store EXCEPT ![r.name] = Deleted(@)] IN
  /\ Receives(c, r, "delete")
  /\ \/ store' = deleted /\ NoFault /\ Answer(c, r, StatusNoContent)
     \/ store' \in {store, deleted} /\ Fault /\ Answer(c, r, StatusInternalServerError)
  /\ UNCHANGED <<cache, dep, beat, uids, latest, beats>>

Handle(c) ==
  \/ \E r \in Requests :
       DeployTemplate(c, r) \/ DeployRaw(c, r) \/ Get(c, r) \/ Delete(c, r)
  \/ DeployRawApply(c)
--------------------------------------------------------------------------------
(* The heartbeat goroutine: SetSuspended and Redeploy are a cached Get and *)
(* an Update of the whole object.                                          *)

Redeployable(o, config) ==
  o.tmpl \in Templates /\ ResolveParams(Parameters[o.tmpl], config).ok

Suspending == {[op |-> "suspend", value |-> b] : b \in BOOLEAN}

Redeploying(o) == {[op |-> "redeploy", value |-> g] : g \in {h \in Configs : Redeployable(o, h)}}

BeatGet(n) ==
  /\ beat.at = "idle" /\ beats > 0
  /\ beats' = beats - 1
  /\ cache[n].live
  /\ \E p \in Suspending \cup Redeploying(cache[n]) :
       beat' = [at |-> "update", name |-> n, base |-> cache[n], op |-> p.op, value |-> p.value]
  /\ UNCHANGED <<store, cache, dep, call, uids, latest, faults>>

\* The Update: it goes through, with its answer lost perhaps, or it does not.
\* LastRedeployedAt makes every redeploy a new version.
BeatUpdate ==
  LET n == beat.name
      v == beat.value
      suspend == beat.op = "suspend"
      new == IF suspend THEN [beat.base EXCEPT !.suspended = v]
             ELSE [beat.base EXCEPT !.config = v, !.redeploys = @ + 1]
      accepted == IF suspend THEN [latest EXCEPT ![n].spec.suspended = v]
                  ELSE [latest EXCEPT ![n].spec.config = v, ![n].by = "redeploy"]
  IN
  /\ beat.at = "update"
  /\ beat' = [at |-> "idle"]
  /\ \/ Update(n, beat.base, new) /\ latest' = accepted /\ (NoFault \/ Fault)
     \/ store[n] # beat.base /\ NoFault /\ UNCHANGED <<store, uids, latest>>
     \/ Fault /\ UNCHANGED <<store, uids, latest>>
  /\ UNCHANGED <<cache, dep, call, beats>>
--------------------------------------------------------------------------------
(* The reconciler. *)

\* The config without its null and empty values.
Blankless(config) ==
  [k \in {k \in DOMAIN config : config[k] \notin {Null, Str("")}} |-> config[k]]

\* render, of whatever may get into a spec.
Rendering ==
  LET sent == Configs \cup {r.config : r \in Requests}
  IN  [tmpl \in Templates \cup {""} |-> [image \in {r.image : r \in Requests} \cup {""} |->
        [config \in sent \cup {Blankless(g) : g \in sent} |-> render(tmpl, image, config)]]]

RenderOf(o) == Rendering[o.tmpl][o.image][o.config]

PhaseOf(o) ==
  CASE o.suspended -> "Stopped"
    [] ~o.suspended /\ o.replicas > 0 -> "Running"
    [] OTHER -> "Deploying"

\* reconcileDelete: the object goes once its finalizer is off.
ReconcileDelete(n) ==
  /\ cache[n].live /\ cache[n].deleting
  /\ Update(n, cache[n], None)
  /\ UNCHANGED <<cache, dep, call, beat, latest, beats, faults>>

\* Mutant: a Deployment that is there is left as it is.
AppliedOnce(n, o) ==
  IF dep[n].uid # 0 THEN dep
  ELSE [dep EXCEPT ![n] = [uid |-> o.uid, what |-> RenderOf(o).what]]

Applied(n, o) == [dep EXCEPT ![n] = [uid |-> o.uid, what |-> RenderOf(o).what]]

\* Reconcile of a Workload that stays: the finalizer, render, the Deployment
\* and the status, each written unless the object was read from a stale
\* cache.  A Deployment that still belongs to a predecessor of the same name
\* cannot be taken over.
Reconcile(n) ==
  LET o == cache[n]
      current == store[n] = o
      ok == RenderOf(o).ok /\ dep[n].uid \in {0, o.uid}
      phase == IF ok THEN PhaseOf(o) ELSE "Failed"
  IN
  /\ o.live /\ ~o.deleting
  /\ current \/ o.finalizer
  /\ dep' = IF ok THEN Applied(n, o) ELSE dep
  /\ store' = IF current
       THEN [store EXCEPT ![n] = Versioned(o, [o EXCEPT !.finalizer = TRUE, !.phase = phase])]
       ELSE store
  /\ UNCHANGED <<cache, call, beat, uids, latest, beats, faults>>

Next ==
  \/ \E c \in Calls : Handle(c)
  \/ \E n \in Names :
       BeatGet(n) \/ Watch(n) \/ Collect(n) \/ ReconcileDelete(n) \/ Reconcile(n)
  \/ BeatUpdate

Spec == Init /\ [][Next]_vars

\* Watch events arrive, the garbage collector and the work queue's worker run.
Fairness ==
  \A n \in Names :
    /\ WF_vars(Watch(n)) /\ WF_vars(Collect(n))
    /\ WF_vars(ReconcileDelete(n)) /\ WF_vars(Reconcile(n))

LiveSpec == Spec /\ Fairness
--------------------------------------------------------------------------------
(* Properties. *)

\* Every variable stays in its set, and a call is answered with a code its
\* handler has.
TypeOK ==
  /\ \A n \in Names :
       /\ store[n].live => store[n].uid \in 1..uids[n]
       /\ cache[n].live => cache[n].uid \in 1..uids[n]
       /\ dep[n].uid \in 0..uids[n]
       /\ latest[n].by \in {"nobody", "template", "raw", "redeploy"}
  /\ \A c \in Calls :
       /\ call[c].at \in {"idle", "apply", "answered"}
       /\ call[c].at = "answered" =>
            CASE call[c].kind = "get" -> call[c].code \in {StatusOK, StatusNotFound}
              [] call[c].kind = "delete" ->
                    call[c].code \in {StatusNoContent, StatusInternalServerError}
              [] OTHER ->
                    call[c].code \in {StatusAccepted, StatusBadRequest, StatusInternalServerError}
  /\ beat.at \in {"idle", "update"}
  /\ uids \in [Names -> Nat] /\ beats \in 0..MaxBeats /\ faults \in 0..MaxFaults

\* No write undoes another: every writer sends the whole object back (the raw
\* deploy's CreateOrUpdate, Redeploy, SetSuspended, the reconciler), and yet
\* the stored spec is always the sum of the changes accepted so far.
NoLostUpdate ==
  \A n \in Names : store[n].live => SpecOf(store[n]) = latest[n].spec

\* What Create and Redeploy let through, the reconciler can render: both
\* validate the config as it was sent, and render resolves it again from what
\* was stored.  A raw deploy under the name of a template's workload is the
\* one write that may store a config its template rejects.
AcceptedRenders ==
  \A n \in Names :
    store[n].live /\ latest[n].by \in {"template", "redeploy"} => RenderOf(store[n]).ok

\* No container runs with a worker count outside the parameter's range,
\* however the config got stored and whatever the types of its values: what
\* checkValidation skips, paramInt32 has to replace.
RenderedWithinRules ==
  \A n \in Names : dep[n].uid # 0 => dep[n].what.workers \in 0..MaxConnections

\* A blank is a default: a null or empty value in a stored config renders as
\* if its key were not there, though ResolveParams fills in defaults for
\* absent keys only and Build has fallbacks of its own.
BlanksMeanDefaults ==
  \A n \in Names : store[n].live =>
    RenderOf(store[n]) = RenderOf([store[n] EXCEPT !.config = Blankless(@)])

\* Whether n should run.
Wanted(n) ==
  LET o == store[n] IN
  /\ o.live /\ ~o.deleting /\ ~o.suspended /\ o.replicas > 0
  /\ o.tmpl # "" => latest[n].by # "raw"

Runs(n) ==
  /\ store[n].live /\ store[n].phase = "Running"
  /\ dep[n] = [uid |-> store[n].uid, what |-> RenderOf(store[n]).what]

\* An accepted workload gets to run what its spec says, also after a name was
\* used again while the Deployment of its predecessor was still there.
\* Without replicas it stays Deploying: see Wanted.
WantedRuns == \A n \in Names : []<>(~Wanted(n) \/ Runs(n))

\* "handleDeploy: workload applied" (server.go:507) and its 202: at that
\* moment a Workload that stays is there, with the spec that was sent.
AcceptedStands ==
  \A c \in Calls : call[c].at = "answered" /\ call[c].code = StatusAccepted => call[c].stands
================================================================================
