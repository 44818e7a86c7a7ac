------------------------------ MODULE DeployProofs ------------------------------
(***************************************************************************)
(* Proofs about the deploy API, for any names, requests, configs and       *)
(* bounds: no accepted write is undone by another one, what Create and     *)
(* Redeploy let through can be rendered, a blank is rendered as a default, *)
(* nothing is rendered outside the rules of its parameters, and which 202s *)
(* are not true.                                                           *)
(***************************************************************************)
EXTENDS DeployApi, TLAPS

--------------------------------------------------------------------------------
(* The inductive invariant.                                                *)

Images == {r.image : r \in Requests} \cup {""}
Counts == {r.replicas : r \in Requests} \cup {1}
Sent == Configs \cup {r.config : r \in Requests}

Objects ==
  [live : {TRUE}, uid : Nat, tmpl : Templates \cup {""}, image : Images,
   replicas : Counts, config : Sent, suspended : BOOLEAN, redeploys : Nat,
   finalizer : BOOLEAN, deleting : BOOLEAN,
   phase : {"None", "Failed", "Stopped", "Running", "Deploying"}, version : Nat]

Copies == Objects \cup {None}

Specs == [image : Images, replicas : Counts, config : Sent, suspended : BOOLEAN]

Accepted ==
  [spec : Specs \cup {None}, by : {"nobody", "template", "raw", "redeploy"}]

\* A stored object carries the spec that the accepted writes add up to, and a
\* config that its template takes if a validating writer wrote it last.
Sound(o, u, l) ==
  /\ o \in Copies /\ u \in Nat /\ l \in Accepted
  /\ o.live => /\ o.uid \in 1..u
               /\ SpecOf(o) = l.spec
               /\ l.by \in {"template", "redeploy"} => Redeployable(o, o.config)

StoreInv ==
  /\ store \in [Names -> Copies] /\ uids \in [Names -> Nat] /\ latest \in [Names -> Accepted]
  /\ \A n \in Names : Sound(store[n], uids[n], latest[n])

\* The copies that the informer, a call and the heartbeat hold.
CopiesInv ==
  /\ cache \in [Names -> Copies]
  /\ DOMAIN call = Calls
  /\ \A c \in Calls : call[c].at = "apply" =>
       call[c].req \in Requests /\ call[c].req.name \in Names /\ call[c].base \in Copies
  /\ beat.at \in {"idle", "update"}
  /\ beat.at = "update" =>
       /\ beat.name \in Names /\ beat.base \in Objects
       /\ beat.op \in {"suspend", "redeploy"}
       /\ beat.op = "suspend" => beat.value \in BOOLEAN
       /\ beat.op = "redeploy" => beat.value \in Configs /\ Redeployable(beat.base, beat.value)

DeployInv == StoreInv /\ CopiesInv

--------------------------------------------------------------------------------
(* Sound objects.                                                          *)

\* None is a copy that is not live.
LEMMA NoneIsDead == ~None.live /\ None \in Copies
BY DEF None, Copies

\* A copy is an object exactly when it is live.
LEMMA LiveObject ==
  ASSUME NEW o \in Copies
  PROVE  /\ o.live \in BOOLEAN
         /\ o.live => o \in Objects
         /\ ~o.live => o = None
<1>1. CASE o = None
  BY <1>1, NoneIsDead, Zenon DEF None
<1>2. CASE o \in Objects
  <2>1. o.live = TRUE
    BY <1>2 DEF Objects
  <2> QED
    BY <1>2, <2>1
<1> QED
  BY <1>1, <1>2 DEF Copies

\* No object is sound, whatever was accepted before.
LEMMA SoundNone ==
  ASSUME NEW u \in Nat, NEW l \in Accepted
  PROVE  Sound(None, u, l)
BY NoneIsDead DEF Sound

\* Soundness is about the spec, the template and the uid only.
LEMMA SoundSame ==
  ASSUME NEW o, NEW u, NEW l, Sound(o, u, l), o.live,
         NEW v \in Objects, SpecOf(v) = SpecOf(o), v.uid = o.uid, v.tmpl = o.tmpl,
         v.config = o.config
  PROVE  Sound(v, u, l)
<1>1. v \in Copies
  BY DEF Copies
<1> QED
  BY <1>1 DEF Sound, Redeployable

\* A new version changes nothing else.
LEMMA NewVersion ==
  ASSUME NEW o \in Objects
  PROVE  LET v == [o EXCEPT !.version = @ + 1]
         IN  v \in Objects /\ SpecOf(v) = SpecOf(o) /\ v.uid = o.uid /\ v.tmpl = o.tmpl
                           /\ v.config = o.config
<1>1. ASSUME NEW k \in Nat
      PROVE  LET v == [o EXCEPT !.version = k]
             IN  v \in Objects /\ SpecOf(v) = SpecOf(o) /\ v.uid = o.uid /\ v.tmpl = o.tmpl
                               /\ v.config = o.config
  BY DEF Objects, SpecOf
<1>2. o.version \in Nat
  BY DEF Objects
<1>3. o.version + 1 \in Nat
  BY <1>2
<1> QED
  BY <1>1, <1>3

\* A new version changes nothing else.
LEMMA SoundVersioned ==
  ASSUME NEW base, NEW o, NEW u, NEW l, Sound(o, u, l)
  PROVE  Sound(Versioned(base, o), u, l)
<1>1. CASE ~(o.live /\ o # base)
  BY <1>1 DEF Versioned
<1>2. CASE o.live /\ o # base
  <2> DEFINE v == [o EXCEPT !.version = @ + 1]
  <2>1. o \in Objects
    BY <1>2, LiveObject DEF Sound
  <2>2. Versioned(base, o) = v
    BY <1>2 DEF Versioned
  <2>3. v \in Objects /\ SpecOf(v) = SpecOf(o) /\ v.uid = o.uid /\ v.tmpl = o.tmpl
                      /\ v.config = o.config
    BY <2>1, NewVersion
  <2> HIDE DEF v
  <2> QED
    BY <1>2, <2>2, <2>3, SoundSame
<1> QED
  BY <1>1, <1>2

\* What the reconciler and a Delete write is not part of the spec.
LEMMA SoundMarked ==
  ASSUME NEW o \in Objects, NEW u, NEW l, Sound(o, u, l)
  PROVE  /\ \A phase \in {"Failed", "Stopped", "Running", "Deploying"} :
              Sound([o EXCEPT !.finalizer = TRUE, !.phase = phase], u, l)
         /\ Sound([o EXCEPT !.deleting = TRUE], u, l)
<1>1. o.live
  BY DEF Objects
<1>2. ASSUME NEW phase \in {"Failed", "Stopped", "Running", "Deploying"}
      PROVE  Sound([o EXCEPT !.finalizer = TRUE, !.phase = phase], u, l)
  <2> DEFINE v == [o EXCEPT !.finalizer = TRUE, !.phase = phase]
  <2>1. v \in Objects /\ SpecOf(v) = SpecOf(o) /\ v.uid = o.uid /\ v.tmpl = o.tmpl
                      /\ v.config = o.config
    BY DEF Objects, SpecOf
  <2> QED
    BY <1>1, <2>1, SoundSame
<1>3. Sound([o EXCEPT !.deleting = TRUE], u, l)
  <2> DEFINE v == [o EXCEPT !.deleting = TRUE]
  <2>1. v \in Objects /\ SpecOf(v) = SpecOf(o) /\ v.uid = o.uid /\ v.tmpl = o.tmpl
                      /\ v.config = o.config
    BY DEF Objects, SpecOf
  <2> QED
    BY <1>1, <2>1, SoundSame
<1> QED
  BY <1>2, <1>3

\* Specs are equal that agree in their four fields.
LEMMA SameSpec ==
  ASSUME NEW s \in Specs, NEW t \in Specs,
         s.image = t.image, s.replicas = t.replicas, s.config = t.config,
         s.suspended = t.suspended
  PROVE  s = t
BY DEF Specs

\* SpecOf copies the fields that are written after the creation.
LEMMA SpecFields ==
  ASSUME NEW o \in Objects
  PROVE  LET s == SpecOf(o)
         IN  /\ s \in Specs
             /\ s.image = o.image /\ s.replicas = o.replicas /\ s.config = o.config
             /\ s.suspended = o.suspended
BY DEF Objects, SpecOf, Specs

\* Editing an object edits its spec.
LEMMA SuspendEdits ==
  ASSUME NEW o \in Objects, NEW b \in BOOLEAN
  PROVE  LET v == [o EXCEPT !.suspended = b]
         IN  /\ v \in Objects /\ v.uid = o.uid /\ v.tmpl = o.tmpl /\ v.config = o.config
             /\ SpecOf(v) = [SpecOf(o) EXCEPT !.suspended = b]
<1> DEFINE v == [o EXCEPT !.suspended = b]
<1>1. /\ v \in Objects /\ v.uid = o.uid /\ v.tmpl = o.tmpl /\ v.config = o.config
      /\ v.image = o.image /\ v.replicas = o.replicas /\ v.suspended = b
  BY DEF Objects
<1>2. ASSUME NEW s \in Specs
      PROVE  LET t == [s EXCEPT !.suspended = b]
             IN  /\ t \in Specs
                 /\ t.image = s.image /\ t.replicas = s.replicas /\ t.config = s.config
                 /\ t.suspended = b
  BY DEF Specs
<1> DEFINE t == [SpecOf(o) EXCEPT !.suspended = b]
<1>t. /\ t \in Specs /\ t.image = o.image /\ t.replicas = o.replicas /\ t.config = o.config
      /\ t.suspended = b
  BY <1>2, SpecFields
<1> HIDE DEF v, t
<1>3. SpecOf(v) = t
  BY <1>1, <1>t, SpecFields, SameSpec
<1> QED
  BY <1>1, <1>3 DEF v, t

\* Redeploy changes the config of the spec and nothing else of it.
LEMMA RedeployEdits ==
  ASSUME NEW o \in Objects, NEW g \in Sent
  PROVE  LET v == [o EXCEPT !.config = g, !.redeploys = @ + 1]
         IN  /\ v \in Objects /\ v.uid = o.uid /\ v.tmpl = o.tmpl /\ v.config = g
             /\ SpecOf(v) = [SpecOf(o) EXCEPT !.config = g]
<1> DEFINE v == [o EXCEPT !.config = g, !.redeploys = @ + 1]
<1>1. ASSUME NEW k \in Nat
      PROVE  LET x == [o EXCEPT !.config = g, !.redeploys = k]
             IN  /\ x \in Objects /\ x.uid = o.uid /\ x.tmpl = o.tmpl /\ x.config = g
                 /\ x.image = o.image /\ x.replicas = o.replicas /\ x.suspended = o.suspended
  BY DEF Objects
<1>2. o.redeploys \in Nat
  BY DEF Objects
<1>3. o.redeploys + 1 \in Nat
  BY <1>2
<1>4. /\ v \in Objects /\ v.uid = o.uid /\ v.tmpl = o.tmpl /\ v.config = g
      /\ v.image = o.image /\ v.replicas = o.replicas /\ v.suspended = o.suspended
  BY <1>1, <1>3, Zenon
<1>5. ASSUME NEW s \in Specs
      PROVE  LET t == [s EXCEPT !.config = g]
             IN  /\ t \in Specs
                 /\ t.image = s.image /\ t.replicas = s.replicas /\ t.config = g
                 /\ t.suspended = s.suspended
  BY DEF Specs
<1> DEFINE t == [SpecOf(o) EXCEPT !.config = g]
<1>t. /\ t \in Specs /\ t.image = o.image /\ t.replicas = o.replicas /\ t.config = g
      /\ t.suspended = o.suspended
  BY <1>5, SpecFields
<1> HIDE DEF v, t
<1>6. SpecOf(v) = t
  BY <1>4, <1>t, SpecFields, SameSpec
<1> QED
  BY <1>4, <1>6 DEF v, t

Overwritten(s, i, k, g) == [s EXCEPT !.image = i, !.replicas = k, !.config = g]

\* Overwriting image, replicas and config does the same to the spec.
LEMMA OverwriteEdits ==
  ASSUME NEW o \in Objects, NEW i \in Images, NEW k \in Counts, NEW g \in Sent
  PROVE  /\ Overwritten(o, i, k, g) \in Objects
         /\ Overwritten(o, i, k, g).uid = o.uid
         /\ SpecOf(Overwritten(o, i, k, g)) = Overwritten(SpecOf(o), i, k, g)
<1> DEFINE v == [o EXCEPT !.image = i, !.replicas = k, !.config = g]
           t == [SpecOf(o) EXCEPT !.image = i, !.replicas = k, !.config = g]
<1>1. /\ v \in Objects /\ v.uid = o.uid /\ v.config = g
      /\ v.image = i /\ v.replicas = k /\ v.suspended = o.suspended
  BY DEF Objects
<1>2. ASSUME NEW s \in Specs
      PROVE  LET x == [s EXCEPT !.image = i, !.replicas = k, !.config = g]
             IN  /\ x \in Specs
                 /\ x.image = i /\ x.replicas = k /\ x.config = g
                 /\ x.suspended = s.suspended
  BY DEF Specs
<1>3. t \in Specs /\ t.image = i /\ t.replicas = k /\ t.config = g /\ t.suspended = o.suspended
  BY <1>2, SpecFields
<1> HIDE DEF v, t
<1>4. SpecOf(v) = t
  BY <1>1, <1>3, SpecFields, SameSpec
<1> QED
  BY <1>1, <1>4 DEF v, t, Overwritten

\* The mutate function of the raw path writes these three fields of the spec.
LEMMA MutateEdits ==
  ASSUME NEW o \in Objects, NEW r \in Requests
  PROVE  /\ Mutated(o, r) \in Objects /\ Mutated(o, r).uid = o.uid
         /\ SpecOf(Mutated(o, r)) =
              [SpecOf(o) EXCEPT !.image = r.image, !.replicas = r.replicas,
                                !.config = r.config]
<1>1. r.image \in Images /\ r.replicas \in Counts /\ r.config \in Sent
  BY DEF Images, Counts, Sent
<1>2. /\ Mutated(o, r) = Overwritten(o, r.image, r.replicas, r.config)
      /\ Overwritten(SpecOf(o), r.image, r.replicas, r.config) =
           [SpecOf(o) EXCEPT !.image = r.image, !.replicas = r.replicas, !.config = r.config]
  BY DEF Mutated, Overwritten
<1> QED
  BY <1>1, <1>2, OverwriteEdits

\* An edit that is accepted, with its entry in latest.
LEMMA SoundEdit ==
  ASSUME NEW o, NEW u, NEW l, Sound(o, u, l), o.live,
         NEW v \in Objects, v.uid = o.uid,
         NEW by \in {"nobody", "template", "raw", "redeploy"},
         by \in {"template", "redeploy"} => Redeployable(v, v.config)
  PROVE  Sound(v, u, [spec |-> SpecOf(v), by |-> by])
<1> DEFINE m == [spec |-> SpecOf(v), by |-> by]
<1>1. SpecOf(v) \in Specs /\ v \in Copies /\ v.live
  BY DEF Objects, SpecOf, Specs, Copies
<1>2. m \in Accepted /\ m.spec = SpecOf(v) /\ m.by = by
  BY <1>1 DEF Accepted
<1> HIDE DEF m
<1> QED
  BY <1>1, <1>2 DEF Sound, m

\* A new object starts its own sum.
LEMMA SoundNew ==
  ASSUME NEW u \in Nat, u \in 1..u, NEW tmpl \in Templates \cup {""}, NEW image \in Images,
         NEW k \in Counts, NEW g \in Sent, NEW by \in {"template", "raw"},
         by = "template" => tmpl \in Templates /\ ResolveParams(Parameters[tmpl], g).ok,
         NEW o,
         o = [live |-> TRUE, uid |-> u, tmpl |-> tmpl, image |-> image,
              replicas |-> k, config |-> g, suspended |-> FALSE,
              redeploys |-> 0, finalizer |-> FALSE, deleting |-> FALSE, phase |-> "None",
              version |-> 0]
  PROVE  Sound(o, u, [spec |-> SpecOf(o), by |-> by])
<1> DEFINE m == [spec |-> SpecOf(o), by |-> by]
<1>1. o \in Objects /\ o.uid = u /\ o.live /\ o.tmpl = tmpl /\ o.config = g
  BY DEF Objects
<1>2. SpecOf(o) \in Specs /\ o \in Copies
  BY <1>1, SpecFields DEF Copies
<1>3. m \in Accepted /\ m.spec = SpecOf(o) /\ m.by = by
  BY <1>2 DEF Accepted
<1>5. by \in {"template", "redeploy"} => Redeployable(o, o.config)
  BY <1>1 DEF Redeployable
<1> HIDE DEF m
<1>6. Sound(o, u, m)
  BY <1>1, <1>2, <1>3, <1>5 DEF Sound
<1> QED
  BY <1>6 DEF m
--------------------------------------------------------------------------------
(* One name changes at a time.                                             *)

\* A step that replaces what is stored of one name by something sound.
LEMMA StoreStep ==
  ASSUME StoreInv, NEW n \in Names, NEW o, NEW u, NEW l, Sound(o, u, l),
         store' = [store EXCEPT ![n] = o],
         uids' = [uids EXCEPT ![n] = u],
         latest' = [latest EXCEPT ![n] = l]
  PROVE  StoreInv'
<1>1. o \in Copies /\ u \in Nat /\ l \in Accepted
  BY DEF Sound
<1>2. store' \in [Names -> Copies] /\ uids' \in [Names -> Nat] /\ latest' \in [Names -> Accepted]
  BY <1>1 DEF StoreInv
<1>3. ASSUME NEW m \in Names
      PROVE  Sound(store[m], uids[m], latest[m])'
  <2>1. CASE m = n
    <3>1. store'[m] = o /\ uids'[m] = u /\ latest'[m] = l
      BY <2>1 DEF StoreInv
    <3>2. Sound(store'[m], uids'[m], latest'[m])
      BY <3>1
    <3> QED
      BY <3>2 DEF Sound, SpecOf, Redeployable
  <2>2. CASE m # n
    <3>1. store'[m] = store[m] /\ uids'[m] = uids[m] /\ latest'[m] = latest[m]
      BY <2>2 DEF StoreInv
    <3>2. Sound(store'[m], uids'[m], latest'[m])
      BY <3>1 DEF StoreInv
    <3> QED
      BY <3>2 DEF Sound, SpecOf, Redeployable
  <2> QED
    BY <2>1, <2>2
<1> QED
  BY <1>2, <1>3 DEF StoreInv

\* What is not written stays sound.
LEMMA StoreStays ==
  ASSUME StoreInv, UNCHANGED <<store, uids, latest>>
  PROVE  StoreInv'
BY DEF StoreInv, Sound, SpecOf, Redeployable

\* A write outside the spec.
LEMMA StoreMark ==
  ASSUME StoreInv, NEW n \in Names, NEW o, Sound(o, uids[n], latest[n]),
         store' = [store EXCEPT ![n] = o], UNCHANGED <<uids, latest>>
  PROVE  StoreInv'
<1>1. uids' = [uids EXCEPT ![n] = uids[n]] /\ latest' = [latest EXCEPT ![n] = latest[n]]
  BY DEF StoreInv
<1> DEFINE u == uids[n]
           l == latest[n]
<1>2. Sound(o, u, l) /\ uids' = [uids EXCEPT ![n] = u] /\ latest' = [latest EXCEPT ![n] = l]
  BY <1>1
<1> HIDE DEF u, l
<1> QED
  BY <1>2, StoreStep

\* The uid of a new object is the next one of its name.
LEMMA NextUid ==
  ASSUME StoreInv, NEW n \in Names
  PROVE  uids[n] + 1 \in Nat /\ uids[n] + 1 \in 1 .. uids[n] + 1
<1>1. uids[n] \in Nat
  BY DEF StoreInv
<1> QED
  BY <1>1

\* A template's object is created with a config that was validated for it.
LEMMA CreateTemplateStep ==
  ASSUME StoreInv, NEW n \in Names, NEW r \in Requests, ~Rejects(r),
         Create(n, NewObject(n, r.tmpl, "", 1, r.config), "template")
  PROVE  StoreInv'
<1> DEFINE o == NewObject(n, r.tmpl, "", 1, r.config)
<1>1. "" \in Images /\ 1 \in Counts /\ r.config \in Sent
  BY DEF Images, Counts, Sent
<1>2. r.tmpl \in Templates /\ ResolveParams(Parameters[r.tmpl], r.config).ok
  BY DEF Rejects
<1>3. Sound(o, uids[n] + 1, [spec |-> SpecOf(o), by |-> "template"])
  BY <1>1, <1>2, NextUid, SoundNew DEF NewObject
<1> HIDE DEF o
<1>4. /\ store' = [store EXCEPT ![n] = o]
      /\ uids' = [uids EXCEPT ![n] = uids[n] + 1]
      /\ latest' = [latest EXCEPT ![n] = [spec |-> SpecOf(o), by |-> "template"]]
  BY DEF Create, o
<1> QED
  BY <1>3, <1>4, StoreStep

\* A raw object is created with the spec of the request.
LEMMA CreateRawStep ==
  ASSUME StoreInv, NEW n \in Names, NEW r \in Requests,
         Create(n, NewObject(n, "", r.image, r.replicas, r.config), "raw")
  PROVE  StoreInv'
<1> DEFINE o == NewObject(n, "", r.image, r.replicas, r.config)
<1>1. r.image \in Images /\ r.replicas \in Counts /\ r.config \in Sent
  BY DEF Images, Counts, Sent
<1>3. Sound(o, uids[n] + 1, [spec |-> SpecOf(o), by |-> "raw"])
  BY <1>1, NextUid, SoundNew DEF NewObject
<1> HIDE DEF o
<1>4. /\ store' = [store EXCEPT ![n] = o]
      /\ uids' = [uids EXCEPT ![n] = uids[n] + 1]
      /\ latest' = [latest EXCEPT ![n] = [spec |-> SpecOf(o), by |-> "raw"]]
  BY DEF Create, o
<1> QED
  BY <1>3, <1>4, StoreStep

\* An Update that adds its change to the sum.
LEMMA UpdateStep ==
  ASSUME StoreInv, NEW n \in Names, NEW base \in Objects, NEW v \in Objects, v.uid = base.uid,
         NEW by \in {"nobody", "template", "raw", "redeploy"},
         by \in {"template", "redeploy"} => Redeployable(v, v.config),
         Update(n, base, v),
         latest' = [latest EXCEPT ![n] = [spec |-> SpecOf(v), by |-> by]]
  PROVE  StoreInv'
<1>1. Sound(base, uids[n], latest[n]) /\ base.live
  BY DEF StoreInv, Update, Objects
<1>2. Sound(v, uids[n], [spec |-> SpecOf(v), by |-> by])
  BY <1>1, SoundEdit
<1>3. Sound(Versioned(base, v), uids[n], [spec |-> SpecOf(v), by |-> by])
  BY <1>2, SoundVersioned
<1>4. /\ store' = [store EXCEPT ![n] = Versioned(base, v)]
      /\ uids' = [uids EXCEPT ![n] = uids[n]]
  BY DEF StoreInv, Update
<1> QED
  BY <1>3, <1>4, StoreStep

\* CreateOrUpdate changes the stored spec as it changes the accepted one.
LEMMA CreateOrUpdateStep ==
  ASSUME StoreInv, NEW n \in Names, NEW base \in Copies, NEW r \in Requests,
         CreateOrUpdate(n, base, r)
  PROVE  StoreInv'
<1>1. CASE Create(n, NewObject(n, "", r.image, r.replicas, r.config), "raw")
  BY <1>1, CreateRawStep
<1> DEFINE t == [latest[n].spec EXCEPT !.image = r.image, !.replicas = r.replicas,
                                       !.config = r.config]
<1>2. CASE /\ base.live
           /\ Update(n, base, Mutated(base, r))
           /\ latest' = [latest EXCEPT ![n] = [spec |-> t, by |-> "raw"]]
  <2>1. base \in Objects
    BY <1>2, LiveObject
  <2>2. Sound(base, uids[n], latest[n])
    BY <1>2 DEF StoreInv, Update
  <2>3. latest[n].spec = SpecOf(base)
    BY <1>2, <2>2 DEF Sound
  <2>4. Mutated(base, r) \in Objects /\ Mutated(base, r).uid = base.uid
    BY <2>1, MutateEdits
  <2>5. SpecOf(Mutated(base, r)) = t
    BY <2>1, <2>3, MutateEdits
  <2> HIDE DEF t
  <2> QED
    BY <1>2, <2>1, <2>4, <2>5, UpdateStep
<1>3. \/ Create(n, NewObject(n, "", r.image, r.replicas, r.config), "raw")
      \/ /\ base.live
         /\ Update(n, base, Mutated(base, r))
         /\ latest' = [latest EXCEPT ![n] = [spec |-> t, by |-> "raw"]]
  BY DEF CreateOrUpdate
<1> QED
  BY <1>1, <1>2, <1>3

\* What an accepted suspension or redeploy does to the history.
LEMMA AcceptedEdits ==
  ASSUME NEW l \in Accepted, NEW x
  PROVE  /\ [l EXCEPT !.spec.suspended = x] =
              [spec |-> [l.spec EXCEPT !.suspended = x], by |-> l.by]
         /\ [l EXCEPT !.spec.config = x, !.by = "redeploy"] =
              [spec |-> [l.spec EXCEPT !.config = x], by |-> "redeploy"]
<1>1. ASSUME NEW s
      PROVE  [l EXCEPT !.spec = s] = [spec |-> s, by |-> l.by]
  BY DEF Accepted
<1>2. ASSUME NEW s, NEW b
      PROVE  [l EXCEPT !.spec = s, !.by = b] = [spec |-> s, by |-> b]
  <2>1. [l EXCEPT !.spec = s, !.by = b] = [[l EXCEPT !.spec = s] EXCEPT !.by = b]
    OBVIOUS
  <2>2. [[spec |-> s, by |-> l.by] EXCEPT !.by = b] = [spec |-> s, by |-> b]
    OBVIOUS
  <2> QED
    BY <1>1, <2>1, <2>2, Zenon
<1>3. [l EXCEPT !.spec.suspended = x] = [l EXCEPT !.spec = [l.spec EXCEPT !.suspended = x]]
  OBVIOUS
<1>4. [l EXCEPT !.spec.config = x, !.by = "redeploy"] =
        [l EXCEPT !.spec = [l.spec EXCEPT !.config = x], !.by = "redeploy"]
  OBVIOUS
<1>5. [l EXCEPT !.spec = [l.spec EXCEPT !.suspended = x]] =
              [spec |-> [l.spec EXCEPT !.suspended = x], by |-> l.by]
  BY <1>1, Zenon
<1>6. [l EXCEPT !.spec = [l.spec EXCEPT !.config = x], !.by = "redeploy"] =
              [spec |-> [l.spec EXCEPT !.config = x], by |-> "redeploy"]
  BY <1>2, Zenon
<1> QED
  BY <1>3, <1>4, <1>5, <1>6

\* SetSuspended changes the stored spec as it changes the accepted one.
LEMMA SuspendStep ==
  ASSUME StoreInv, NEW n \in Names, NEW base \in Objects, NEW b \in BOOLEAN,
         Update(n, base, [base EXCEPT !.suspended = b]),
         latest' = [latest EXCEPT ![n].spec.suspended = b]
  PROVE  StoreInv'
<1> DEFINE v == [base EXCEPT !.suspended = b]
           by == latest[n].by
<1>1. Sound(base, uids[n], latest[n]) /\ base.live /\ latest[n] \in Accepted
  BY DEF StoreInv, Update, Objects
<1>2. SpecOf(base) = latest[n].spec
  BY <1>1 DEF Sound
<1>3. /\ v \in Objects /\ v.uid = base.uid /\ v.tmpl = base.tmpl /\ v.config = base.config
      /\ SpecOf(v) = [latest[n].spec EXCEPT !.suspended = b]
  BY <1>2, SuspendEdits
<1>4. by \in {"nobody", "template", "raw", "redeploy"}
  BY <1>1 DEF Accepted
<1>5. by \in {"template", "redeploy"} => Redeployable(v, v.config)
  BY <1>1, <1>3 DEF Sound, Redeployable
<1>6. latest' = [latest EXCEPT ![n] = [spec |-> SpecOf(v), by |-> by]]
  <2>1. latest' = [latest EXCEPT ![n] = [latest[n] EXCEPT !.spec.suspended = b]]
    OBVIOUS
  <2>2. [latest[n] EXCEPT !.spec.suspended = b] =
          [spec |-> [latest[n].spec EXCEPT !.suspended = b], by |-> latest[n].by]
    BY <1>1, AcceptedEdits
  <2> HIDE DEF v
  <2> QED
    BY <1>3, <2>1, <2>2
<1>7. Update(n, base, v)
  OBVIOUS
<1> HIDE DEF v, by
<1> QED
  BY <1>3, <1>4, <1>5, <1>6, <1>7, UpdateStep

\* So does Redeploy, with a config validated for the template of its copy.
LEMMA RedeployStep ==
  ASSUME StoreInv, NEW n \in Names, NEW base \in Objects, NEW g \in Configs,
         Redeployable(base, g),
         Update(n, base, [base EXCEPT !.config = g, !.redeploys = @ + 1]),
         latest' = [latest EXCEPT ![n].spec.config = g, ![n].by = "redeploy"]
  PROVE  StoreInv'
<1> DEFINE v == [base EXCEPT !.config = g, !.redeploys = @ + 1]
<1>1. Sound(base, uids[n], latest[n]) /\ base.live /\ latest[n] \in Accepted
  BY DEF StoreInv, Update, Objects
<1>2. SpecOf(base) = latest[n].spec
  BY <1>1 DEF Sound
<1>3. /\ v \in Objects /\ v.uid = base.uid /\ v.tmpl = base.tmpl /\ v.config = g
      /\ SpecOf(v) = [latest[n].spec EXCEPT !.config = g]
  <2>1. g \in Sent
    BY DEF Sent
  <2>2. /\ v \in Objects /\ v.uid = base.uid /\ v.tmpl = base.tmpl /\ v.config = g
        /\ SpecOf(v) = [SpecOf(base) EXCEPT !.config = g]
    BY <2>1, RedeployEdits, Zenon
  <2> HIDE DEF v
  <2> QED
    BY <1>2, <2>2
<1>5. Redeployable(v, v.config)
  BY <1>3 DEF Redeployable
<1>6. latest' = [latest EXCEPT ![n] = [spec |-> SpecOf(v), by |-> "redeploy"]]
  <2>1. latest' = [latest EXCEPT ![n] = [latest[n] EXCEPT !.spec.config = g, !.by = "redeploy"]]
    BY DEF StoreInv
  <2>2. [latest[n] EXCEPT !.spec.config = g, !.by = "redeploy"] =
          [spec |-> [latest[n].spec EXCEPT !.config = g], by |-> "redeploy"]
    BY <1>1, AcceptedEdits
  <2> HIDE DEF v
  <2> QED
    BY <1>3, <2>1, <2>2
<1>7. Update(n, base, v)
  OBVIOUS
<1> HIDE DEF v
<1> QED
  BY <1>3, <1>5, <1>6, <1>7, UpdateStep

\* A deletion changes nothing of the spec.
LEMMA DeletedSound ==
  ASSUME NEW o, NEW u, NEW l, Sound(o, u, l)
  PROVE  Sound(Deleted(o), u, l)
<1>1. CASE o.live /\ o.finalizer
  <2>1. o \in Objects
    BY <1>1, LiveObject DEF Sound
  <2>2. Sound(Versioned(o, [o EXCEPT !.deleting = TRUE]), u, l)
    BY <2>1, SoundMarked, SoundVersioned
  <2> QED
    BY <1>1, <2>2 DEF Deleted
<1>2. CASE ~(o.live /\ o.finalizer)
  BY <1>2, SoundNone DEF Deleted, Sound
<1> QED
  BY <1>1, <1>2

\* A Delete, of a name that exists or of any other.
LEMMA DeleteStep ==
  ASSUME StoreInv, NEW n, store' = [store EXCEPT ![n] = Deleted(@)], UNCHANGED <<uids, latest>>
  PROVE  StoreInv'
<1>1. CASE n \in Names
  <2>1. Sound(Deleted(store[n]), uids[n], latest[n])
    BY <1>1, DeletedSound DEF StoreInv
  <2> DEFINE o == Deleted(store[n])
  <2>2. store' = [store EXCEPT ![n] = o] /\ Sound(o, uids[n], latest[n])
    BY <2>1
  <2> HIDE DEF o
  <2> QED
    BY <1>1, <2>2, StoreMark
<1>2. CASE n \notin Names
  <2>1. store' = store
    BY <1>2 DEF StoreInv
  <2> QED
    BY <2>1, StoreStays
<1> QED
  BY <1>1, <1>2

\* A rendered Workload has one of three phases.
LEMMA PhaseOfIsPhase ==
  ASSUME NEW o
  PROVE  PhaseOf(o) \in {"Stopped", "Running", "Deploying"}
BY DEF PhaseOf

\* Reconcile writes the finalizer and the status, never the spec.
LEMMA ReconcileStep ==
  ASSUME StoreInv, NEW n \in Names, cache[n] \in Copies, Reconcile(n)
  PROVE  StoreInv'
<1> DEFINE o == cache[n]
           phase == IF RenderOf(o).ok /\ dep[n].uid \in {0, o.uid} THEN PhaseOf(o) ELSE "Failed"
           v == Versioned(o, [o EXCEPT !.finalizer = TRUE, !.phase = phase])
<1>1. o \in Objects
  BY LiveObject DEF Reconcile
<1>2. CASE store[n] # o
  <2>1. UNCHANGED <<store, uids, latest>>
    BY <1>2 DEF Reconcile
  <2> QED
    BY <2>1, StoreStays
<1>3. CASE store[n] = o
  <2>1. phase \in {"Failed", "Stopped", "Running", "Deploying"}
    BY PhaseOfIsPhase
  <2>2. store' = [store EXCEPT ![n] = v] /\ UNCHANGED <<uids, latest>>
    BY <1>3 DEF Reconcile
  <2>3. Sound(o, uids[n], latest[n])
    BY <1>3 DEF StoreInv
  <2> HIDE DEF phase
  <2>4. Sound([o EXCEPT !.finalizer = TRUE, !.phase = phase], uids[n], latest[n])
    BY <1>1, <2>1, <2>3, SoundMarked
  <2>5. Sound(v, uids[n], latest[n])
    BY <2>4, SoundVersioned
  <2> HIDE DEF v
  <2> QED
    BY <2>2, <2>5, StoreMark
<1> QED
  BY <1>2, <1>3

\* The end of a deletion leaves no object.
LEMMA ReconcileDeleteStep ==
  ASSUME StoreInv, NEW n \in Names, ReconcileDelete(n)
  PROVE  StoreInv'
<1>1. Versioned(cache[n], None) = None
  BY NoneIsDead DEF Versioned
<1>2. store' = [store EXCEPT ![n] = None] /\ UNCHANGED <<uids, latest>>
  BY <1>1 DEF ReconcileDelete, Update
<1>3. Sound(None, uids[n], latest[n])
  BY SoundNone DEF StoreInv
<1> QED
  BY <1>2, <1>3, StoreMark

\* The heartbeat's Update, whatever becomes of it, keeps the store sound.
LEMMA BeatUpdateStep ==
  ASSUME DeployInv, BeatUpdate
  PROVE  StoreInv'
<1>1. StoreInv /\ CopiesInv /\ beat.at = "update"
  BY DEF DeployInv, BeatUpdate
<1>2. /\ beat.name \in Names /\ beat.base \in Objects
      /\ beat.op \in {"suspend", "redeploy"}
      /\ beat.op = "suspend" => beat.value \in BOOLEAN
      /\ beat.op = "redeploy" => beat.value \in Configs /\ Redeployable(beat.base, beat.value)
  BY <1>1 DEF CopiesInv
<1>3. CASE UNCHANGED <<store, uids, latest>>
  BY <1>1, <1>3, StoreStays
<1>4. CASE /\ beat.op = "suspend"
           /\ Update(beat.name, beat.base, [beat.base EXCEPT !.suspended = beat.value])
           /\ latest' = [latest EXCEPT ![beat.name].spec.suspended = beat.value]
  BY <1>1, <1>2, <1>4, SuspendStep
<1>5. CASE /\ beat.op # "suspend"
           /\ Update(beat.name, beat.base,
                     [beat.base EXCEPT !.config = beat.value, !.redeploys = @ + 1])
           /\ latest' = [latest EXCEPT ![beat.name].spec.config = beat.value,
                                       ![beat.name].by = "redeploy"]
  BY <1>1, <1>2, <1>5, RedeployStep
<1> QED
  BY <1>3, <1>4, <1>5 DEF BeatUpdate
--------------------------------------------------------------------------------
(* The copies.                                                             *)

\* A call that is answered, or starts its apply from what the cache has.
LEMMA CallStep ==
  ASSUME CopiesInv, NEW c \in Calls, NEW x, call' = [call EXCEPT ![c] = x],
         x.at = "apply" => x.req \in Requests /\ x.req.name \in Names /\ x.base \in Copies,
         UNCHANGED <<cache, beat>>
  PROVE  CopiesInv'
<1>1. DOMAIN call' = Calls
  BY DEF CopiesInv
<1>2. ASSUME NEW d \in Calls, call'[d].at = "apply"
      PROVE  /\ call'[d].req \in Requests /\ call'[d].req.name \in Names
             /\ call'[d].base \in Copies
  <2>1. CASE d = c
    <3>1. call'[d] = x
      BY <2>1 DEF CopiesInv
    <3> QED
      BY <1>2, <3>1
  <2>2. CASE d # c
    <3>1. call'[d] = call[d]
      BY <2>2 DEF CopiesInv
    <3> QED
      BY <1>2, <3>1 DEF CopiesInv
  <2> QED
    BY <2>1, <2>2
<1> QED
  BY <1>1, <1>2 DEF CopiesInv, Redeployable

\* A call that was answered holds no copy.
LEMMA AnsweredStep ==
  ASSUME CopiesInv, NEW c \in Calls, NEW r, NEW code, NEW n, NEW stands,
         Answered(c, r, code, n, stands), UNCHANGED <<cache, beat>>
  PROVE  CopiesInv'
<1> DEFINE x == [at |-> "answered", kind |-> r.kind, code |-> code, name |-> n,
                 stands |-> stands]
<1>1. call' = [call EXCEPT ![c] = x] /\ x.at # "apply"
  BY DEF Answered
<1> HIDE DEF x
<1> QED
  BY <1>1, CallStep

\* The informer may take any copy.
LEMMA CallsUnchanged ==
  ASSUME CopiesInv, cache' \in [Names -> Copies], UNCHANGED <<call, beat>>
  PROVE  CopiesInv'
BY DEF CopiesInv, Redeployable

\* The heartbeat keeps the copy it validated the config against.
LEMMA BeatGetCopies ==
  ASSUME CopiesInv, NEW n \in Names, BeatGet(n)
  PROVE  CopiesInv'
<1>1. cache[n] \in Objects
  BY LiveObject DEF BeatGet, CopiesInv
<1>2. PICK p \in Suspending \cup Redeploying(cache[n]) :
        beat' = [at |-> "update", name |-> n, base |-> cache[n], op |-> p.op, value |-> p.value]
  BY DEF BeatGet
<1>3. /\ p.op \in {"suspend", "redeploy"}
      /\ p.op = "suspend" => p.value \in BOOLEAN
      /\ p.op = "redeploy" => p.value \in Configs /\ Redeployable(cache[n], p.value)
  <2>1. CASE p \in Suspending
    <3>1. PICK b \in BOOLEAN : p = [op |-> "suspend", value |-> b]
      BY <2>1 DEF Suspending
    <3> QED
      BY <3>1
  <2>2. CASE p \in Redeploying(cache[n])
    <3>1. PICK g \in Configs : Redeployable(cache[n], g) /\ p = [op |-> "redeploy", value |-> g]
      BY <2>2 DEF Redeploying
    <3> QED
      BY <3>1
  <2> QED
    BY <2>1, <2>2
<1>4. /\ beat'.at = "update" /\ beat'.name = n /\ beat'.base = cache[n]
      /\ beat'.op = p.op /\ beat'.value = p.value
  BY <1>2
<1>5. UNCHANGED <<call, cache>>
  BY DEF BeatGet
<1>6. Redeployable(beat'.base, beat'.value) = Redeployable(beat.base, beat.value)'
  BY DEF Redeployable
<1> QED
  BY <1>1, <1>3, <1>4, <1>5, <1>6 DEF CopiesInv
--------------------------------------------------------------------------------
(* The theorems.                                                           *)

\* Every step of a call keeps the invariant.
LEMMA HandleKeeps ==
  ASSUME DeployInv, NEW c \in Calls, Handle(c)
  PROVE  DeployInv'
<1>0. StoreInv /\ CopiesInv
  BY DEF DeployInv
<1>1. ASSUME NEW r \in Requests, DeployTemplate(c, r)
      PROVE  DeployInv'
  <2>1. StoreInv'
    <3>1. CASE UNCHANGED <<store, uids, latest>>
      BY <1>0, <3>1, StoreStays
    <3>2. ASSUME ~Rejects(r), NEW n \in FreeNames(r.tmpl),
                 Create(n, NewObject(n, r.tmpl, "", 1, r.config), "template")
          PROVE  StoreInv'
      <4>1. r.tmpl \in Templates
        BY <3>2 DEF Rejects
      <4>2. n \in Names
        BY <4>1, GeneratedNames DEF FreeNames
      <4> QED
        BY <1>0, <3>2, <4>2, CreateTemplateStep
    <3> QED
      BY <1>1, <3>1, <3>2 DEF DeployTemplate
  <2>2. \E code, n, stands : Answered(c, r, code, n, stands)
    BY <1>1 DEF DeployTemplate, Answer, Accept
  <2>3. UNCHANGED <<cache, beat>>
    BY <1>1 DEF DeployTemplate
  <2>4. CopiesInv'
    BY <1>0, <2>2, <2>3, AnsweredStep
  <2> QED
    BY <2>1, <2>4 DEF DeployInv
<1>2. ASSUME NEW r \in Requests, DeployRaw(c, r)
      PROVE  DeployInv'
  <2>1. UNCHANGED <<store, uids, latest, cache, beat>>
    BY <1>2 DEF DeployRaw
  <2>2. StoreInv'
    BY <1>0, <2>1, StoreStays
  <2>3. CASE \E code, n, stands : Answered(c, r, code, n, stands)
    <3>1. CopiesInv'
      BY <1>0, <2>1, <2>3, AnsweredStep
    <3> QED
      BY <2>2, <3>1 DEF DeployInv
  <2>4. CASE /\ r.name \in Names
             /\ call' = [call EXCEPT ![c] =
                           [at |-> "apply", req |-> r, base |-> cache[r.name]]]
    <3> DEFINE x == [at |-> "apply", req |-> r, base |-> cache[r.name]]
    <3>1. cache[r.name] \in Copies
      BY <1>0, <2>4 DEF CopiesInv
    <3>2. /\ call' = [call EXCEPT ![c] = x]
          /\ x.req \in Requests /\ x.req.name \in Names /\ x.base \in Copies
      BY <2>4, <3>1
    <3> HIDE DEF x
    <3>3. CopiesInv'
      BY <1>0, <2>1, <3>2, CallStep
    <3> QED
      BY <2>2, <3>3 DEF DeployInv
  <2> QED
    BY <1>2, <2>3, <2>4 DEF DeployRaw, Answer
<1>3. ASSUME NEW r \in Requests, Get(c, r)
      PROVE  DeployInv'
  <2>1. /\ UNCHANGED <<store, uids, latest, cache, beat>>
        /\ \E code, n, stands : Answered(c, r, code, n, stands)
    BY <1>3 DEF Get, Answer
  <2>2. StoreInv' /\ CopiesInv'
    BY <1>0, <2>1, StoreStays, AnsweredStep
  <2> QED
    BY <2>2 DEF DeployInv
<1>4. ASSUME NEW r \in Requests, Delete(c, r)
      PROVE  DeployInv'
  <2>1. /\ UNCHANGED <<uids, latest, cache, beat>>
        /\ \E code, n, stands : Answered(c, r, code, n, stands)
        /\ \/ store' = store
           \/ store' = [store EXCEPT ![r.name] = Deleted(@)]
    BY <1>4 DEF Delete, Answer
  <2>2. CopiesInv'
    BY <1>0, <2>1, AnsweredStep
  <2>3. StoreInv'
    BY <1>0, <2>1, StoreStays, DeleteStep
  <2> QED
    BY <2>2, <2>3 DEF DeployInv
<1>5. ASSUME DeployRawApply(c)
      PROVE  DeployInv'
  <2> DEFINE r == call[c].req
             base == call[c].base
  <2>1. r \in Requests /\ r.name \in Names /\ base \in Copies
    BY <1>0, <1>5 DEF CopiesInv, DeployRawApply
  <2>2. /\ UNCHANGED <<cache, beat>>
        /\ \E code, n, stands : Answered(c, r, code, n, stands)
        /\ CreateOrUpdate(r.name, base, r) \/ UNCHANGED <<store, uids, latest>>
    BY <1>5 DEF DeployRawApply, Answer, Accept
  <2> HIDE DEF r, base
  <2>3. StoreInv'
    BY <1>0, <2>1, <2>2, StoreStays, CreateOrUpdateStep
  <2>4. CopiesInv'
    BY <1>0, <2>2, AnsweredStep
  <2> QED
    BY <2>3, <2>4 DEF DeployInv
<1> QED
  BY <1>1, <1>2, <1>3, <1>4, <1>5 DEF Handle

\* The invariant holds of an empty cluster.
LEMMA InitDeploy == Init => DeployInv
<1> SUFFICES ASSUME Init PROVE DeployInv
  OBVIOUS
<1>1. ASSUME NEW n \in Names
      PROVE  store[n] = None /\ uids[n] = 0 /\ latest[n] \in Accepted
  <2>1. [spec |-> None, by |-> "nobody"] \in Accepted
    BY DEF Accepted
  <2>2. latest[n] = [spec |-> None, by |-> "nobody"]
    BY DEF Init
  <2> QED
    BY <2>1, <2>2 DEF Init
<1>2. store \in [Names -> Copies] /\ uids \in [Names -> Nat] /\ latest \in [Names -> Accepted]
  BY <1>1, NoneIsDead DEF Init
<1>3. \A n \in Names : Sound(store[n], uids[n], latest[n])
  BY <1>1, SoundNone
<1>4. CopiesInv
  <2>1. cache \in [Names -> Copies]
    BY <1>2 DEF Init
  <2>2. DOMAIN call = Calls /\ \A c \in Calls : call[c].at = "idle"
    BY DEF Init
  <2>3. beat.at = "idle"
    BY DEF Init
  <2> QED
    BY <2>1, <2>2, <2>3 DEF CopiesInv
<1> QED
  BY <1>2, <1>3, <1>4 DEF DeployInv, StoreInv

\* Every step keeps the invariant.
LEMMA NextDeploy == DeployInv /\ [Next]_vars => DeployInv'
<1> SUFFICES ASSUME DeployInv, [Next]_vars PROVE DeployInv'
  OBVIOUS
<1>0. StoreInv /\ CopiesInv
  BY DEF DeployInv
<1>1. ASSUME NEW c \in Calls, Handle(c)
      PROVE  DeployInv'
  BY <1>1, HandleKeeps
<1>2. ASSUME NEW n \in Names, BeatGet(n)
      PROVE  DeployInv'
  <2>1. UNCHANGED <<store, uids, latest>>
    BY <1>2 DEF BeatGet
  <2> QED
    BY <1>0, <1>2, <2>1, StoreStays, BeatGetCopies DEF DeployInv
<1>3. ASSUME NEW n \in Names, Watch(n)
      PROVE  DeployInv'
  <2>1. UNCHANGED <<store, uids, latest, call, beat>> /\ cache' \in [Names -> Copies]
    BY <1>0, <1>3 DEF Watch, StoreInv, CopiesInv
  <2> QED
    BY <1>0, <2>1, StoreStays, CallsUnchanged DEF DeployInv
<1>4. ASSUME NEW n \in Names, Collect(n)
      PROVE  DeployInv'
  <2>1. UNCHANGED <<store, uids, latest, cache, call, beat>>
    BY <1>4 DEF Collect
  <2>2. cache' \in [Names -> Copies]
    BY <1>0, <2>1 DEF CopiesInv
  <2> QED
    BY <1>0, <2>1, <2>2, StoreStays, CallsUnchanged DEF DeployInv
<1>5. ASSUME NEW n \in Names, ReconcileDelete(n) \/ Reconcile(n)
      PROVE  DeployInv'
  <2>1. UNCHANGED <<cache, call, beat>>
    BY <1>5 DEF ReconcileDelete, Reconcile
  <2>2. cache' \in [Names -> Copies] /\ cache[n] \in Copies
    BY <1>0, <2>1 DEF CopiesInv
  <2>3. StoreInv'
    BY <1>0, <1>5, <2>2, ReconcileStep, ReconcileDeleteStep
  <2> QED
    BY <1>0, <2>1, <2>2, <2>3, CallsUnchanged DEF DeployInv
<1>6. CASE BeatUpdate
  <2>1. UNCHANGED <<cache, call>> /\ beat'.at = "idle"
    BY <1>6 DEF BeatUpdate
  <2>2. CopiesInv'
    BY <1>0, <2>1 DEF CopiesInv
  <2> QED
    BY <1>6, <2>2, BeatUpdateStep DEF DeployInv
<1>7. CASE UNCHANGED vars
  <2>1. UNCHANGED <<store, uids, latest, cache, call, beat>>
    BY <1>7 DEF vars
  <2>2. cache' \in [Names -> Copies]
    BY <1>0, <2>1 DEF CopiesInv
  <2> QED
    BY <1>0, <2>1, <2>2, StoreStays, CallsUnchanged DEF DeployInv
<1> QED
  BY <1>1, <1>2, <1>3, <1>4, <1>5, <1>6, <1>7 DEF Next

\* In every reachable state a stored spec is the sum of the writes accepted
\* so far, and every copy in flight is one that was once read.
THEOREM DeployInvariant == Spec => []DeployInv
BY InitDeploy, NextDeploy, PTL DEF Spec

\* The raw deploy's CreateOrUpdate, Redeploy, SetSuspended and the reconciler
\* all send whole objects, and none of them undoes another's change.
THEOREM NoUpdateIsLost == Spec => []NoLostUpdate
<1>1. DeployInv => NoLostUpdate
  BY DEF DeployInv, StoreInv, Sound, NoLostUpdate
<1> QED
  BY <1>1, DeployInvariant, PTL

\* What Create and Redeploy accepted, render resolves and builds: they call
\* ResolveParams on the config as sent, it does so on the config as stored.
THEOREM AcceptedAlwaysRenders == Spec => []AcceptedRenders
<1>1. ASSUME NEW o \in Objects, Redeployable(o, o.config)
      PROVE  RenderOf(o).ok
  <2>1. o.tmpl \in Templates /\ o.image \in Images /\ o.config \in Sent
    BY <1>1 DEF Objects, Redeployable
  <2>2. RenderOf(o) = render(o.tmpl, o.image, o.config)
    BY <2>1 DEF RenderOf, Rendering, Images, Sent
  <2>3. o.tmpl # ""
    BY <2>1 DEF Templates, Parameters
  <2>4. render(o.tmpl, o.image, o.config).ok = TRUE
    BY <1>1, <2>1, <2>3 DEF render, Redeployable
  <2> QED
    BY <2>2, <2>4
<1>2. DeployInv => AcceptedRenders
  BY <1>1, LiveObject DEF DeployInv, StoreInv, Sound, AcceptedRenders
<1> QED
  BY <1>2, DeployInvariant, PTL
--------------------------------------------------------------------------------
(* What render makes of a config.                                          *)

\* The values that count as none.
Blank == {Null, Str("")}

\* What ResolveParams fills in for a key that is absent, nil if nothing.
DefaultOf(params, k) ==
  LET defaulted == {i \in DOMAIN params : params[i].default # Null}
  IN  IF k \in {params[i].key : i \in defaulted}
      THEN params[CHOOSE i \in defaulted : params[i].key = k].default ELSE Null

\* What Build finds under a key: what was sent, or the default.
LEMMA LookupResolved ==
  ASSUME NEW params, NEW raw, NEW k
  PROVE  Lookup(WithDefaults(params, raw), k) =
           IF k \in DOMAIN raw THEN raw[k] ELSE DefaultOf(params, k)
<1> DEFINE defaulted == {i \in DOMAIN params : params[i].default # Null}
           keys == {params[i].key : i \in defaulted}
           first(x) == params[CHOOSE i \in defaulted : params[i].key = x].default
<1>1. WithDefaults(params, raw) =
        [x \in DOMAIN raw \cup (keys \ DOMAIN raw) |->
           IF x \in DOMAIN raw THEN raw[x] ELSE first(x)]
  BY DEF WithDefaults
<1>2. DefaultOf(params, k) = IF k \in keys THEN first(k) ELSE Null
  BY DEF DefaultOf
<1> HIDE DEF keys, first
<1> QED
  BY <1>1, <1>2 DEF Lookup

\* Without its blanks a config resolves to the same, except that a default may
\* stand where a blank stood.
LEMMA LookupBlankless ==
  ASSUME NEW params, NEW raw, NEW k
  PROVE  LET v == Lookup(WithDefaults(params, raw), k)
             w == Lookup(WithDefaults(params, Blankless(raw)), k)
         IN  w = v \/ (v \in Blank /\ w = DefaultOf(params, k))
<1>1. /\ DOMAIN Blankless(raw) = {x \in DOMAIN raw : raw[x] \notin Blank}
      /\ \A x \in DOMAIN Blankless(raw) : Blankless(raw)[x] = raw[x]
  BY DEF Blankless, Blank
<1>2. Lookup(WithDefaults(params, raw), k) =
        IF k \in DOMAIN raw THEN raw[k] ELSE DefaultOf(params, k)
  BY LookupResolved
<1>3. Lookup(WithDefaults(params, Blankless(raw)), k) =
        IF k \in DOMAIN Blankless(raw) THEN Blankless(raw)[k] ELSE DefaultOf(params, k)
  BY LookupResolved
<1> QED
  BY <1>1, <1>2, <1>3

\* The four shapes of a parameter's value differ in their tag.
LEMMA Tags ==
  /\ Null[1] = "null"
  /\ \A x : Str(x)[1] = "string" /\ Str(x)[2] = x
  /\ \A x : Num(x)[1] = "number" /\ Num(x)[2] = x
  /\ \A x : Bool(x)[1] = "bool" /\ Bool(x)[2] = x
BY DEF Null, Str, Num, Bool

\* A parameter with these fields.
Row(p, key, default, required, op, dependsOn, values, range) ==
  /\ p.key = key /\ p.default = default /\ p.required = required /\ p.op = op
  /\ p.dependsOn = dependsOn /\ p.values = values /\ p.range = range

\* One that is always shown.
Plain(p, key, default, range) == Row(p, key, default, FALSE, "always", key, {}, range)

\* One that is shown when a profile is restored.
Restoring(p, key, required) ==
  Row(p, key, Null, required, "equals", "restoreProfile", {Bool(TRUE)}, << >>)

\* nginx's default number of connections is within the bounds it has.
LEMMA Connections ==
  /\ DefaultConnections \in Nat /\ MaxConnections \in Nat
  /\ DefaultConnections <= MaxConnections
BY SMT DEF DefaultConnections, MaxConnections

\* nginx's parameters, field by field.
LEMMA NginxTable ==
  /\ DOMAIN NginxParameters = {1, 2}
  /\ Plain(NginxParameters[1], "logLevel", Str("info"), << >>)
  /\ Plain(NginxParameters[2], "workerConnections", Num(2 * DefaultConnections),
           <<0, 2 * MaxConnections>>)
<1> DEFINE p == [Param("logLevel") EXCEPT !.default = Str("info")]
           q == [Param("workerConnections") EXCEPT !.default = Num(2 * DefaultConnections),
                                                   !.range = <<0, 2 * MaxConnections>>]
<1>1. Plain(p, "logLevel", Str("info"), << >>)
  BY DEF Param, Plain, Row
<1>2. Plain(q, "workerConnections", Num(2 * DefaultConnections), <<0, 2 * MaxConnections>>)
  BY DEF Param, Plain, Row
<1>3. NginxParameters = << p, q >>
  BY SMT DEF NginxParameters
<1> HIDE DEF p, q
<1>4. DOMAIN NginxParameters = {1, 2} /\ NginxParameters[1] = p /\ NginxParameters[2] = q
  BY <1>3
<1> QED
  BY <1>1, <1>2, <1>4

\* The browsers' parameters: two of them are there when a profile is restored.
LEMMA BrowserTable ==
  /\ DOMAIN browserParameters = {1, 2, 3}
  /\ Restoring(browserParameters[1], "profileName", TRUE)
  /\ Plain(browserParameters[2], "restoreProfile", Bool(FALSE), << >>)
  /\ Restoring(browserParameters[3], "profileDownloadUrl", FALSE)
<1> DEFINE p == [[Param("profileName") EXCEPT !.required = TRUE]
                   EXCEPT !.op = "equals", !.dependsOn = "restoreProfile",
                          !.values = {Bool(TRUE)}]
           q == [Param("restoreProfile") EXCEPT !.default = Bool(FALSE)]
           u == [Param("profileDownloadUrl")
                   EXCEPT !.op = "equals", !.dependsOn = "restoreProfile",
                          !.values = {Bool(TRUE)}]
<1>1. Restoring(p, "profileName", TRUE)
  BY DEF Param, Restoring, Row
<1>2. Plain(q, "restoreProfile", Bool(FALSE), << >>)
  BY DEF Param, Plain, Row
<1>3. Restoring(u, "profileDownloadUrl", FALSE)
  BY DEF Param, Restoring, Row
<1>4. browserParameters = << p, q, u >>
  BY Zenon DEF browserParameters
<1> HIDE DEF p, q, u
<1>5. /\ DOMAIN browserParameters = {1, 2, 3}
      /\ browserParameters[1] = p /\ browserParameters[2] = q /\ browserParameters[3] = u
  BY <1>4
<1> QED
  BY <1>1, <1>2, <1>3, <1>5

\* Webtop's: a flavor, and those of the browsers.
LEMMA WebtopTable ==
  /\ DOMAIN WebtopParameters = {1, 2, 3, 4}
  /\ Plain(WebtopParameters[1], "flavor", Str("latest"), << >>)
  /\ Restoring(WebtopParameters[2], "profileName", TRUE)
  /\ Plain(WebtopParameters[3], "restoreProfile", Bool(FALSE), << >>)
  /\ Restoring(WebtopParameters[4], "profileDownloadUrl", FALSE)
<1>1. ASSUME NEW a, NEW b, NEW c, NEW d
      PROVE  LET s == << a >> \o << b, c, d >>
             IN  DOMAIN s = {1, 2, 3, 4} /\ s[1] = a /\ s[2] = b /\ s[3] = c /\ s[4] = d
  OBVIOUS
<1> DEFINE p == [Param("flavor") EXCEPT !.default = Str("latest")]
<1>2. Plain(p, "flavor", Str("latest"), << >>)
  BY DEF Param, Plain, Row
<1>3. PICK b, c, d : browserParameters = << b, c, d >>
  BY DEF browserParameters
<1>4. b = browserParameters[1] /\ c = browserParameters[2] /\ d = browserParameters[3]
  BY <1>3
<1>5. WebtopParameters = << p >> \o << b, c, d >>
  BY <1>3, Zenon DEF WebtopParameters
<1> HIDE DEF p
<1>6. /\ DOMAIN WebtopParameters = {1, 2, 3, 4}
      /\ WebtopParameters[1] = p /\ WebtopParameters[2] = b
      /\ WebtopParameters[3] = c /\ WebtopParameters[4] = d
  BY <1>1, <1>5
<1> QED
  BY <1>2, <1>4, <1>6, BrowserTable DEF Plain, Restoring, Row

\* A default is found by its key where keys are unique.
LEMMA DefaultFound ==
  ASSUME NEW params, NEW i \in DOMAIN params, params[i].default # Null,
         \A j \in DOMAIN params : params[j].key = params[i].key => j = i
  PROVE  DefaultOf(params, params[i].key) = params[i].default
<1> DEFINE defaulted == {j \in DOMAIN params : params[j].default # Null}
           c == CHOOSE j \in defaulted : params[j].key = params[i].key
<1>1. i \in defaulted
  OBVIOUS
<1>2. c \in defaulted /\ params[c].key = params[i].key
  BY <1>1
<1>3. c = i
  BY <1>2
<1>4. DefaultOf(params, params[i].key) = params[c].default
  BY <1>1 DEF DefaultOf
<1> QED
  BY <1>3, <1>4

\* A key without a default has none.
LEMMA DefaultNone ==
  ASSUME NEW params, NEW k,
         \A j \in DOMAIN params : params[j].key = k => params[j].default = Null
  PROVE  DefaultOf(params, k) = Null
BY DEF DefaultOf

\* What ResolveParams fills in, template by template.
LEMMA NginxDefaults ==
  /\ DefaultOf(NginxParameters, "logLevel") = Str("info")
  /\ DefaultOf(NginxParameters, "workerConnections") = Num(2 * DefaultConnections)
<1> DEFINE P == NginxParameters
<1>1. /\ DOMAIN P = {1, 2} /\ P[1].key = "logLevel" /\ P[2].key = "workerConnections"
      /\ P[1].default = Str("info") /\ P[2].default = Num(2 * DefaultConnections)
  BY NginxTable DEF Plain, Row
<1>2. Str("info") # Null /\ Num(2 * DefaultConnections) # Null
  BY Tags
<1> HIDE DEF P
<1>3. /\ DefaultOf(P, P[1].key) = P[1].default
      /\ DefaultOf(P, P[2].key) = P[2].default
  <2>1. DefaultOf(P, P[1].key) = P[1].default
    BY <1>1, <1>2, DefaultFound
  <2>2. DefaultOf(P, P[2].key) = P[2].default
    BY <1>1, <1>2, DefaultFound
  <2> QED
    BY <2>1, <2>2
<1> QED
  BY <1>1, <1>3 DEF P

\* No text of the browsers has a default.
LEMMA BrowserDefaults ==
  /\ DefaultOf(browserParameters, "profileName") = Null
  /\ DefaultOf(browserParameters, "restoreProfile") = Bool(FALSE)
  /\ DefaultOf(browserParameters, "profileDownloadUrl") = Null
<1> DEFINE P == browserParameters
<1>1. /\ DOMAIN P = {1, 2, 3} /\ P[1].key = "profileName" /\ P[2].key = "restoreProfile"
      /\ P[3].key = "profileDownloadUrl"
      /\ P[1].default = Null /\ P[2].default = Bool(FALSE) /\ P[3].default = Null
  BY BrowserTable DEF Plain, Restoring, Row
<1>2. Bool(FALSE) # Null
  BY Tags
<1> HIDE DEF P
<1>3. DefaultOf(P, P[2].key) = P[2].default
  BY <1>1, <1>2, DefaultFound
<1>4. DefaultOf(P, "profileName") = Null /\ DefaultOf(P, "profileDownloadUrl") = Null
  BY <1>1, DefaultNone
<1> QED
  BY <1>1, <1>3, <1>4 DEF P

\* Of webtop's texts the flavor has one.
LEMMA WebtopDefaults ==
  /\ DefaultOf(WebtopParameters, "flavor") = Str("latest")
  /\ DefaultOf(WebtopParameters, "profileName") = Null
  /\ DefaultOf(WebtopParameters, "restoreProfile") = Bool(FALSE)
  /\ DefaultOf(WebtopParameters, "profileDownloadUrl") = Null
<1> DEFINE P == WebtopParameters
<1>1. /\ DOMAIN P = {1, 2, 3, 4} /\ P[1].key = "flavor" /\ P[2].key = "profileName"
      /\ P[3].key = "restoreProfile" /\ P[4].key = "profileDownloadUrl"
      /\ P[1].default = Str("latest") /\ P[2].default = Null
      /\ P[3].default = Bool(FALSE) /\ P[4].default = Null
  BY WebtopTable DEF Plain, Restoring, Row
<1>2. Bool(FALSE) # Null /\ Str("latest") # Null
  BY Tags
<1> HIDE DEF P
<1>3. DefaultOf(P, P[1].key) = P[1].default
  BY <1>1, <1>2, DefaultFound
<1>4. DefaultOf(P, P[3].key) = P[3].default
  BY <1>1, <1>2, DefaultFound
<1>5. DefaultOf(P, "profileName") = Null /\ DefaultOf(P, "profileDownloadUrl") = Null
  BY <1>1, DefaultNone
<1> QED
  BY <1>1, <1>3, <1>4, <1>5 DEF P

\* A parameter table that takes a blank like the default it stands for.
Tolerant(params) ==
  \A i \in DOMAIN params :
    LET p == params[i]
        d == DefaultOf(params, p.key)
    IN  /\ p.required => d = Null
        /\ d # Null => checkValidation(p, d)
        /\ \A v \in Blank :
             evalVisibility(p, v) <=> evalVisibility(p, DefaultOf(params, p.dependsOn))

\* Such a table accepts a config exactly when it accepts it without its blanks.
LEMMA TolerantAccepts ==
  ASSUME NEW params, Tolerant(params), NEW raw
  PROVE  ResolveParams(params, raw).ok = ResolveParams(params, Blankless(raw)).ok
<1> DEFINE R == WithDefaults(params, raw)
           S == WithDefaults(params, Blankless(raw))
<1>1. ASSUME NEW i \in DOMAIN params
      PROVE  Acceptable(params[i], R) <=> Acceptable(params[i], S)
  <2> DEFINE p == params[i]
             v == Lookup(R, p.key)
             w == Lookup(S, p.key)
             d == DefaultOf(params, p.key)
             a == Lookup(R, p.dependsOn)
             b == Lookup(S, p.dependsOn)
  <2>1. w = v \/ (v \in Blank /\ w = d)
    BY LookupBlankless
  <2>2. b = a \/ (a \in Blank /\ b = DefaultOf(params, p.dependsOn))
    BY LookupBlankless
  <2>3. /\ p.required => d = Null
        /\ d # Null => checkValidation(p, d)
        /\ \A x \in Blank :
             evalVisibility(p, x) <=> evalVisibility(p, DefaultOf(params, p.dependsOn))
    BY DEF Tolerant
  <2>4. evalVisibility(p, a) <=> evalVisibility(p, b)
    BY <2>2, <2>3
  <2>5. /\ Acceptable(p, R) <=>
             (evalVisibility(p, a) => /\ p.required => v \notin Blank
                                      /\ v \notin Blank => checkValidation(p, v))
        /\ Acceptable(p, S) <=>
             (evalVisibility(p, b) => /\ p.required => w \notin Blank
                                      /\ w \notin Blank => checkValidation(p, w))
    BY DEF Acceptable, Blank
  <2>6. Null \in Blank
    BY DEF Blank
  <2> HIDE DEF p, v, w, d, a, b
  <2>7. Acceptable(p, R) <=> Acceptable(p, S)
    BY <2>1, <2>3, <2>4, <2>5, <2>6
  <2> QED
    BY <2>7 DEF p
<1>2. /\ ResolveParams(params, raw).ok = \A i \in DOMAIN params : Acceptable(params[i], R)
      /\ ResolveParams(params, Blankless(raw)).ok =
           \A i \in DOMAIN params : Acceptable(params[i], S)
  BY DEF ResolveParams
<1> QED
  BY <1>1, <1>2

\* What is not hidden by a switch is always there.
LEMMA PlainShown ==
  ASSUME NEW p, NEW key, NEW default, NEW range, Plain(p, key, default, range), NEW v
  PROVE  evalVisibility(p, v) = TRUE
BY DEF Plain, Row, evalVisibility

\* nginx's table is such a table.
LEMMA NginxTolerant == Tolerant(NginxParameters)
<1> DEFINE P == NginxParameters
<1>1. /\ DOMAIN P = {1, 2}
      /\ Plain(P[1], "logLevel", Str("info"), << >>)
      /\ Plain(P[2], "workerConnections", Num(2 * DefaultConnections), <<0, 2 * MaxConnections>>)
      /\ DefaultOf(P, "logLevel") = Str("info")
      /\ DefaultOf(P, "workerConnections") = Num(2 * DefaultConnections)
  BY NginxTable, NginxDefaults
<1> HIDE DEF P
<1>2. /\ P[1].key = "logLevel" /\ P[2].key = "workerConnections"
      /\ ~P[1].required /\ ~P[2].required
      /\ P[1].range = << >> /\ P[2].range = <<0, 2 * MaxConnections>>
  BY <1>1 DEF Plain, Row
<1>3. \A v : evalVisibility(P[1], v) = TRUE /\ evalVisibility(P[2], v) = TRUE
  <2>1. P[1].op = "always" /\ P[2].op = "always"
    BY <1>1 DEF Plain, Row
  <2> QED
    BY <2>1 DEF evalVisibility
<1>4. checkValidation(P[1], Str("info"))
  BY <1>2 DEF checkValidation
<1>5. checkValidation(P[2], Num(2 * DefaultConnections))
  BY <1>2, Tags, Connections DEF checkValidation
<1> QED
  BY <1>1, <1>2, <1>3, <1>4, <1>5 DEF Tolerant, P

\* A blank switch hides what it would show, like the default it stands for.
LEMMA RestoringHidden ==
  ASSUME NEW p, NEW key, NEW required, Restoring(p, key, required),
         NEW v \in Blank \cup {Bool(FALSE)}
  PROVE  ~evalVisibility(p, v)
<1>1. v # Bool(TRUE)
  <2>1. CASE v \in Blank
    BY <2>1, Tags DEF Blank
  <2>2. CASE v = Bool(FALSE)
    <3>1. ASSUME v = Bool(TRUE) PROVE FALSE
      <4>1. v[2] = FALSE /\ v[2] = TRUE
        BY <2>2, <3>1, Tags, Zenon
      <4> QED
        BY <4>1
    <3> QED
      BY <3>1
  <2> QED
    BY <2>1, <2>2
<1> QED
  BY <1>1 DEF Restoring, Row, evalVisibility

\* So is the browsers'.
LEMMA BrowserTolerant == Tolerant(browserParameters)
<1> DEFINE P == browserParameters
<1>1. /\ DOMAIN P = {1, 2, 3}
      /\ Restoring(P[1], "profileName", TRUE)
      /\ Plain(P[2], "restoreProfile", Bool(FALSE), << >>)
      /\ Restoring(P[3], "profileDownloadUrl", FALSE)
      /\ DefaultOf(P, "profileName") = Null
      /\ DefaultOf(P, "restoreProfile") = Bool(FALSE)
      /\ DefaultOf(P, "profileDownloadUrl") = Null
  BY BrowserTable, BrowserDefaults
<1> HIDE DEF P
<1>2. /\ P[1].key = "profileName" /\ P[2].key = "restoreProfile"
      /\ P[3].key = "profileDownloadUrl"
      /\ P[1].dependsOn = "restoreProfile" /\ P[3].dependsOn = "restoreProfile"
      /\ ~P[2].required /\ P[2].range = << >>
  BY <1>1 DEF Plain, Restoring, Row
<1>3. \A v \in Blank \cup {Bool(FALSE)} : ~evalVisibility(P[1], v) /\ ~evalVisibility(P[3], v)
  BY <1>1, RestoringHidden
<1>4. \A v : evalVisibility(P[2], v) = TRUE
  BY <1>1, PlainShown
<1>5. checkValidation(P[2], Bool(FALSE))
  BY <1>2 DEF checkValidation
<1> QED
  BY <1>1, <1>2, <1>3, <1>4, <1>5 DEF Tolerant, P

\* And webtop's.
LEMMA WebtopTolerant == Tolerant(WebtopParameters)
<1> DEFINE P == WebtopParameters
<1>1. /\ DOMAIN P = {1, 2, 3, 4}
      /\ Plain(P[1], "flavor", Str("latest"), << >>)
      /\ Restoring(P[2], "profileName", TRUE)
      /\ Plain(P[3], "restoreProfile", Bool(FALSE), << >>)
      /\ Restoring(P[4], "profileDownloadUrl", FALSE)
      /\ DefaultOf(P, "flavor") = Str("latest")
      /\ DefaultOf(P, "profileName") = Null
      /\ DefaultOf(P, "restoreProfile") = Bool(FALSE)
      /\ DefaultOf(P, "profileDownloadUrl") = Null
  BY WebtopTable, WebtopDefaults
<1> HIDE DEF P
<1>2. /\ P[1].key = "flavor" /\ P[2].key = "profileName" /\ P[3].key = "restoreProfile"
      /\ P[4].key = "profileDownloadUrl"
      /\ P[2].dependsOn = "restoreProfile" /\ P[4].dependsOn = "restoreProfile"
      /\ ~P[1].required /\ P[1].range = << >> /\ ~P[3].required /\ P[3].range = << >>
  BY <1>1 DEF Plain, Restoring, Row
<1>3. \A v \in Blank \cup {Bool(FALSE)} : ~evalVisibility(P[2], v) /\ ~evalVisibility(P[4], v)
  BY <1>1, RestoringHidden
<1>4. \A v : evalVisibility(P[1], v) = TRUE /\ evalVisibility(P[3], v) = TRUE
  BY <1>1, PlainShown
<1>5. checkValidation(P[1], Str("latest")) /\ checkValidation(P[3], Bool(FALSE))
  BY <1>2 DEF checkValidation
<1> QED
  BY <1>1, <1>2, <1>3, <1>4, <1>5 DEF Tolerant, P

\* Build's own fallback for a text is the parameter's default.
LEMMA StringBlankless ==
  ASSUME NEW params, NEW raw, NEW k, NEW fallback,
         DefaultOf(params, k) \in {Null, Str(fallback)}
  PROVE  paramString(WithDefaults(params, raw), k, fallback) =
           paramString(WithDefaults(params, Blankless(raw)), k, fallback)
<1> DEFINE v == Lookup(WithDefaults(params, raw), k)
           w == Lookup(WithDefaults(params, Blankless(raw)), k)
           Text(x) == IF IsString(x) /\ x # Str("") THEN x[2] ELSE fallback
<1>1. w = v \/ (v \in Blank /\ w \in {Null, Str(fallback)})
  BY LookupBlankless
<1>2. /\ paramString(WithDefaults(params, raw), k, fallback) = Text(v)
      /\ paramString(WithDefaults(params, Blankless(raw)), k, fallback) = Text(w)
  BY DEF paramString
<1>3. Text(Null) = fallback /\ Text(Str("")) = fallback /\ Text(Str(fallback)) = fallback
  BY Tags DEF IsString
<1> HIDE DEF v, w, Text
<1> QED
  BY <1>1, <1>2, <1>3 DEF Blank

\* And for a number.
LEMMA IntBlankless ==
  ASSUME NEW params, NEW raw, NEW k, NEW fallback \in Nat,
         DefaultOf(params, k) \in {Null, Num(2 * fallback)}
  PROVE  paramInt32(WithDefaults(params, raw), k, fallback) =
           paramInt32(WithDefaults(params, Blankless(raw)), k, fallback)
<1> DEFINE v == Lookup(WithDefaults(params, raw), k)
           w == Lookup(WithDefaults(params, Blankless(raw)), k)
           Int32(x) == CASE ~IsNumber(x) -> fallback
                         [] IsNumber(x) /\ x[2] >= 0 -> x[2] \div 2
                         [] OTHER -> -((-x[2]) \div 2)
<1>1. w = v \/ (v \in Blank /\ w \in {Null, Num(2 * fallback)})
  BY LookupBlankless
<1>2. /\ paramInt32(WithDefaults(params, raw), k, fallback) = Int32(v)
      /\ paramInt32(WithDefaults(params, Blankless(raw)), k, fallback) = Int32(w)
  BY DEF paramInt32
<1>3. Int32(Null) = fallback /\ Int32(Str("")) = fallback
  BY Tags DEF IsNumber
<1>4. Int32(Num(2 * fallback)) = fallback
  <2>1. 2 * fallback >= 0 /\ (2 * fallback) \div 2 = fallback
    OBVIOUS
  <2>2. IsNumber(Num(2 * fallback)) /\ Num(2 * fallback)[2] = 2 * fallback
    BY Tags DEF IsNumber
  <2> QED
    BY <2>1, <2>2
<1> HIDE DEF v, w, Int32
<1> QED
  BY <1>1, <1>2, <1>3, <1>4 DEF Blank

\* The templates and their tables.
LEMMA TemplateTables ==
  /\ Templates = {"nginx", "firefox", "chrome", "webtop"}
  /\ Parameters["nginx"] = NginxParameters /\ Parameters["webtop"] = WebtopParameters
  /\ Parameters["firefox"] = browserParameters /\ Parameters["chrome"] = browserParameters
BY DEF Templates, Parameters

\* What Build makes of a config does not depend on its blanks.
LEMMA BuildBlankless ==
  ASSUME NEW tmpl \in Templates, NEW raw
  PROVE  Build(tmpl, WithDefaults(Parameters[tmpl], raw)) =
           Build(tmpl, WithDefaults(Parameters[tmpl], Blankless(raw)))
<1> DEFINE P == Parameters[tmpl]
           R == WithDefaults(P, raw)
           S == WithDefaults(P, Blankless(raw))
<1>1. CASE tmpl = "nginx"
  <2>1. /\ DefaultOf(P, "logLevel") = Str("info")
        /\ DefaultOf(P, "workerConnections") = Num(2 * DefaultConnections)
    BY <1>1, NginxDefaults, TemplateTables
  <2> HIDE DEF P
  <2>2. paramString(R, "logLevel", "info") = paramString(S, "logLevel", "info")
    BY <2>1, StringBlankless
  <2>3. paramInt32(R, "workerConnections", DefaultConnections) =
          paramInt32(S, "workerConnections", DefaultConnections)
    BY <2>1, IntBlankless, Connections
  <2>4. Build(tmpl, R) = BuildNginx(R) /\ Build(tmpl, S) = BuildNginx(S)
    BY <1>1 DEF Build
  <2> HIDE DEF R, S
  <2>5. Build(tmpl, R) = Build(tmpl, S)
    <3> DEFINE a == paramString(S, "logLevel", "info")
               b == paramInt32(S, "workerConnections", DefaultConnections)
    <3>1. BuildNginx(S) = Rendered("nginx", a, b, "")
      BY DEF BuildNginx
    <3>2. /\ paramString(R, "logLevel", "info") = a
          /\ paramInt32(R, "workerConnections", DefaultConnections) = b
      BY <2>2, <2>3
    <3> HIDE DEF a, b
    <3>3. BuildNginx(R) = Rendered("nginx", a, b, "")
      BY <3>2 DEF BuildNginx
    <3> QED
      BY <2>4, <3>1, <3>3
  <2> QED
    BY <2>5 DEF P, R, S
<1>2. CASE tmpl = "webtop"
  <2>1. /\ DefaultOf(P, "flavor") = Str("latest")
        /\ DefaultOf(P, "profileDownloadUrl") = Null
    BY <1>2, WebtopDefaults, TemplateTables
  <2> HIDE DEF P
  <2>2. paramString(R, "flavor", "latest") = paramString(S, "flavor", "latest")
    BY <2>1, StringBlankless
  <2>3. paramString(R, "profileDownloadUrl", "") = paramString(S, "profileDownloadUrl", "")
    <3>1. PICK e : e = ""
      OBVIOUS
    <3>2. DefaultOf(P, "profileDownloadUrl") \in {Null, Str(e)}
      BY <2>1
    <3>3. paramString(R, "profileDownloadUrl", e) = paramString(S, "profileDownloadUrl", e)
      BY <3>2, StringBlankless
    <3> QED
      BY <3>1, <3>3
  <2>4. Build(tmpl, R) = BuildWebtop(R) /\ Build(tmpl, S) = BuildWebtop(S)
    BY <1>2 DEF Build
  <2>5. Build(tmpl, R) = Build(tmpl, S)
    BY <2>2, <2>3, <2>4 DEF BuildWebtop
  <2> QED
    BY <2>5 DEF P
<1>3. CASE tmpl \in {"firefox", "chrome"}
  <2>1. DefaultOf(P, "profileDownloadUrl") = Null
    BY <1>3, BrowserDefaults, TemplateTables
  <2> HIDE DEF P
  <2>2. paramString(R, "profileDownloadUrl", "") = paramString(S, "profileDownloadUrl", "")
    <3>1. PICK e : e = ""
      OBVIOUS
    <3>2. DefaultOf(P, "profileDownloadUrl") \in {Null, Str(e)}
      BY <2>1
    <3>3. paramString(R, "profileDownloadUrl", e) = paramString(S, "profileDownloadUrl", e)
      BY <3>2, StringBlankless
    <3> QED
      BY <3>1, <3>3
  <2>3. Build(tmpl, R) = BuildBrowser(tmpl, R) /\ Build(tmpl, S) = BuildBrowser(tmpl, S)
    BY <1>3 DEF Build
  <2>4. Build(tmpl, R) = Build(tmpl, S)
    BY <2>2, <2>3 DEF BuildBrowser
  <2> QED
    BY <2>4 DEF P
<1> QED
  BY <1>1, <1>2, <1>3, TemplateTables

\* What render makes of a template's config: ResolveParams' verdict, then Build.
LEMMA RenderTemplate ==
  ASSUME NEW tmpl \in Templates, NEW image, NEW raw
  PROVE  render(tmpl, image, raw) =
           IF ResolveParams(Parameters[tmpl], raw).ok
           THEN [ok |-> TRUE, what |-> Build(tmpl, WithDefaults(Parameters[tmpl], raw))]
           ELSE [ok |-> FALSE, what |-> legacyRendered("")]
<1>1. tmpl # ""
  BY TemplateTables
<1>2. ResolveParams(Parameters[tmpl], raw).params = WithDefaults(Parameters[tmpl], raw)
  BY DEF ResolveParams
<1>3. ResolveParams(Parameters[tmpl], raw).ok \in BOOLEAN
  BY DEF ResolveParams
<1> QED
  BY <1>1, <1>2, <1>3 DEF render

\* What render makes of a raw image.
LEMMA RenderRaw ==
  ASSUME NEW image, NEW raw
  PROVE  render("", image, raw) = [ok |-> image # "", what |-> legacyRendered(image)]
<1>1. "" \notin Templates
  BY TemplateTables
<1> QED
  BY <1>1 DEF render

\* A config and the same without its blanks are rendered alike.
LEMMA RenderBlankless ==
  ASSUME NEW tmpl \in Templates \cup {""}, NEW image, NEW raw
  PROVE  render(tmpl, image, raw) = render(tmpl, image, Blankless(raw))
<1>1. CASE tmpl = ""
  BY <1>1, RenderRaw
<1>2. CASE tmpl \in Templates
  <2>1. Tolerant(Parameters[tmpl])
    BY <1>2, TemplateTables, NginxTolerant, BrowserTolerant, WebtopTolerant
  <2>2. ResolveParams(Parameters[tmpl], raw).ok = ResolveParams(Parameters[tmpl], Blankless(raw)).ok
    BY <2>1, TolerantAccepts
  <2> QED
    BY <1>2, <2>2, BuildBlankless, RenderTemplate
<1> QED
  BY <1>1, <1>2

\* So in every reachable state: a null or empty value of a stored config is
\* rendered as if its key were not there.
THEOREM BlanksAlwaysMeanDefaults == Spec => []BlanksMeanDefaults
<1>1. ASSUME NEW o \in Objects
      PROVE  RenderOf(o) = RenderOf([o EXCEPT !.config = Blankless(@)])
  <2> DEFINE b == [o EXCEPT !.config = Blankless(@)]
  <2>1. /\ o.tmpl \in Templates \cup {""} /\ o.image \in Images /\ o.config \in Sent
        /\ b.tmpl = o.tmpl /\ b.image = o.image /\ b.config = Blankless(o.config)
    BY DEF Objects
  <2> HIDE DEF b
  <2>2. RenderOf(o) = render(o.tmpl, o.image, o.config)
    BY <2>1 DEF RenderOf, Rendering, Images, Sent
  <2>3. RenderOf(b) = render(o.tmpl, o.image, Blankless(o.config))
    BY <2>1 DEF RenderOf, Rendering, Images, Sent
  <2>4. RenderOf(o) = RenderOf(b)
    BY <2>1, <2>2, <2>3, RenderBlankless
  <2> QED
    BY <2>4 DEF b
<1>2. DeployInv => BlanksMeanDefaults
  BY <1>1, LiveObject DEF DeployInv, StoreInv, BlanksMeanDefaults
<1> QED
  BY <1>2, DeployInvariant, PTL
--------------------------------------------------------------------------------
(* Worker counts within the range.                                        *)

\* The worker count nginx gets from a config.
WorkersOf(raw) ==
  paramInt32(WithDefaults(NginxParameters, raw), "workerConnections", DefaultConnections)

\* A worker count that ResolveParams let through is in the range, after the
\* fraction is cut off; what it does not check, paramInt32 replaces.
LEMMA NginxWithin ==
  ASSUME NEW raw \in Sent, ResolveParams(NginxParameters, raw).ok
  PROVE  WorkersOf(raw) \in 0..MaxConnections
<1> DEFINE P == NginxParameters
           R == WithDefaults(P, raw)
           v == Lookup(R, "workerConnections")
<1>0. /\ DefaultConnections \in Nat /\ MaxConnections \in Nat
      /\ DefaultConnections <= MaxConnections
  BY Connections
<1>1. v = IF "workerConnections" \in DOMAIN raw THEN raw["workerConnections"]
          ELSE Num(2 * DefaultConnections)
  BY LookupResolved, NginxDefaults
<1>2. IsNumber(v) => v[2] \in Int
  <2>1. \A k \in DOMAIN raw : IsNumber(raw[k]) => raw[k][2] \in Int
    BY ConfigNumbers DEF Sent
  <2>2. Num(2 * DefaultConnections)[2] \in Int
    BY <1>0, Tags
  <2> HIDE DEF v
  <2> QED
    BY <1>1, <2>1, <2>2
<1>3. /\ 2 \in DOMAIN P /\ P[2].key = "workerConnections"
      /\ P[2].range = <<0, 2 * MaxConnections>> /\ P[2].op = "always"
  BY NginxTable DEF Plain, Row
<1>4. Acceptable(P[2], R)
  BY <1>3 DEF ResolveParams
<1>5. IsNumber(v) => v # Null /\ v # Str("")
  BY Tags DEF IsNumber
<1>6. evalVisibility(P[2], Lookup(R, P[2].dependsOn))
  BY <1>3 DEF evalVisibility
<1>7. IsNumber(v) => checkValidation(P[2], v)
  BY <1>3, <1>4, <1>5, <1>6 DEF Acceptable
<1>8. IsNumber(v) => v[2] >= 0 /\ v[2] <= 2 * MaxConnections
  <2>1. P[2].range # << >> /\ P[2].range[1] = 0 /\ P[2].range[2] = 2 * MaxConnections
    BY <1>3
  <2> QED
    BY <1>7, <2>1 DEF checkValidation
<1> HIDE DEF P, R
<1> DEFINE w == paramInt32(R, "workerConnections", DefaultConnections)
<1>9. ~IsNumber(v) => w = DefaultConnections
  BY Zenon DEF paramInt32
<1>10. IsNumber(v) /\ v[2] >= 0 => w = v[2] \div 2
  BY Zenon DEF paramInt32
<1> HIDE DEF v, w
<1>11. IsNumber(v) => v[2] \div 2 \in 0..MaxConnections
  BY <1>0, <1>2, <1>8, SMT
<1>12. w \in 0..MaxConnections
  BY <1>0, <1>8, <1>9, <1>10, <1>11, SMT
<1> QED
  BY <1>12 DEF w, R, P, WorkersOf

\* The fields of a verdict.
LEMMA VerdictFields ==
  ASSUME NEW x, NEW a, NEW b, x = [ok |-> a, what |-> b]
  PROVE  x.ok = a /\ x.what = b
OBVIOUS

\* A legacy workload has no workers parameter, nor has a browser.
LEMMA NoWorkers ==
  ASSUME NEW image, NEW tmpl, NEW R
  PROVE  /\ legacyRendered(image).workers = 0
         /\ BuildWebtop(R).workers = 0
         /\ BuildBrowser(tmpl, R).workers = 0
         /\ BuildNginx(R).workers = paramInt32(R, "workerConnections", DefaultConnections)
BY DEF legacyRendered, Rendered, BuildWebtop, BuildBrowser, BuildNginx

\* So whatever can be rendered has a worker count in the range.
LEMMA RenderedWithin ==
  ASSUME NEW o \in Objects, RenderOf(o).ok
  PROVE  RenderOf(o).what.workers \in 0..MaxConnections
<1>1. o.tmpl \in Templates \cup {""} /\ o.image \in Images /\ o.config \in Sent
  BY DEF Objects
<1>2. RenderOf(o) = render(o.tmpl, o.image, o.config)
  BY <1>1 DEF RenderOf, Rendering, Images, Sent
<1>0. 0 \in 0..MaxConnections
  BY DEF MaxConnections
<1> DEFINE P == Parameters[o.tmpl]
           R == WithDefaults(P, o.config)
<1>3. CASE o.tmpl = ""
  <2>1. RenderOf(o) = [ok |-> o.image # "", what |-> legacyRendered(o.image)]
    BY <1>2, <1>3, RenderRaw
  <2>2. RenderOf(o).what = legacyRendered(o.image)
    BY <2>1, VerdictFields, Zenon
  <2>4. legacyRendered(o.image).workers = 0
    BY NoWorkers
  <2>3. RenderOf(o).what.workers = 0
    BY <2>2, <2>4
  <2> QED
    BY <1>0, <2>3
<1>4. CASE o.tmpl \in Templates
  <2>1. ResolveParams(P, o.config).ok /\ RenderOf(o).what = Build(o.tmpl, R)
    <3> DEFINE b == Build(o.tmpl, R)
               verdict == ResolveParams(P, o.config).ok
    <3>1. RenderOf(o) = IF verdict THEN [ok |-> TRUE, what |-> b]
                        ELSE [ok |-> FALSE, what |-> legacyRendered("")]
      BY <1>2, <1>4, RenderTemplate
    <3> HIDE DEF b, verdict
    <3>3. verdict
      <4> SUFFICES ASSUME ~verdict PROVE FALSE
        OBVIOUS
      <4>1. RenderOf(o) = [ok |-> FALSE, what |-> legacyRendered("")]
        BY <3>1, Zenon
      <4>2. RenderOf(o).ok = FALSE
        BY <4>1, VerdictFields, Zenon
      <4> QED
        BY <4>2
    <3>4. RenderOf(o) = [ok |-> TRUE, what |-> b]
      BY <3>1, <3>3, Zenon
    <3>2. verdict /\ RenderOf(o).what = b
      BY <3>3, <3>4, VerdictFields, Zenon
    <3> QED
      BY <3>2 DEF b, verdict
  <2> HIDE DEF R
  <2>2. CASE o.tmpl = "nginx"
    <3>1. Build(o.tmpl, R) = BuildNginx(R)
      BY <2>2 DEF Build
    <3>2. BuildNginx(R).workers = paramInt32(R, "workerConnections", DefaultConnections)
      BY NoWorkers
    <3>3. P = NginxParameters
      BY <2>2, TemplateTables
    <3>4. paramInt32(R, "workerConnections", DefaultConnections) \in 0..MaxConnections
      <4>1. /\ ResolveParams(NginxParameters, o.config).ok
            /\ R = WithDefaults(NginxParameters, o.config)
        BY <2>1, <3>3, Zenon DEF R
      <4>2. WorkersOf(o.config) \in 0..MaxConnections
        BY <1>1, <4>1, NginxWithin, Zenon
      <4> QED
        BY <4>1, <4>2 DEF WorkersOf
    <3> QED
      BY <2>1, <3>1, <3>2, <3>4
  <2>3. CASE o.tmpl # "nginx"
    <3>1. Build(o.tmpl, R) = BuildWebtop(R) \/ Build(o.tmpl, R) = BuildBrowser(o.tmpl, R)
      BY <2>3 DEF Build
    <3>2. BuildWebtop(R).workers = 0 /\ BuildBrowser(o.tmpl, R).workers = 0
      BY NoWorkers
    <3>3. Build(o.tmpl, R).workers = 0
      BY <3>1, <3>2
    <3> QED
      BY <1>0, <2>1, <3>3
  <2> QED
    BY <2>2, <2>3
<1> QED
  BY <1>1, <1>3, <1>4
--------------------------------------------------------------------------------
(* Types, and what runs.                                                   *)

\* The codes that the handler of a kind of request answers with.
CodeFits(kind, code) ==
  /\ kind = "get" => code \in {StatusOK, StatusNotFound}
  /\ kind = "delete" => code \in {StatusNoContent, StatusInternalServerError}
  /\ kind \notin {"get", "delete"} =>
       code \in {StatusAccepted, StatusBadRequest, StatusInternalServerError}

\* The informer's copies and the Deployments are of Workloads that were
\* created, and what a Deployment runs was rendered within the range.
RunsInv ==
  /\ DOMAIN dep = Names
  /\ \A n \in Names :
       /\ cache[n].live => cache[n].uid \in 1..uids[n]
       /\ dep[n].uid \in 0..uids[n]
       /\ dep[n].uid # 0 => dep[n].what.workers \in 0..MaxConnections

\* Only raw deploys have a second half.
AnswersInv ==
  \A c \in Calls :
    /\ call[c].at \in {"idle", "apply", "answered"}
    /\ call[c].at = "apply" => call[c].req.kind = "raw"
    /\ call[c].at = "answered" => CodeFits(call[c].kind, call[c].code)

\* The model's bounds on relists and failed calls are kept.
BoundsInv == beats \in 0..MaxBeats /\ faults \in 0..MaxFaults

\* A step creates one object of a name or none.
LEMMA UidsStep ==
  ASSUME [Next]_vars
  PROVE  uids' = uids \/ \E n : uids' = [uids EXCEPT ![n] = @ + 1]
<1>1. ASSUME NEW c \in Calls, Handle(c)
      PROVE  uids' = uids \/ \E n : uids' = [uids EXCEPT ![n] = @ + 1]
  <2>1. ASSUME NEW r \in Requests, DeployTemplate(c, r)
        PROVE  uids' = uids \/ \E n : uids' = [uids EXCEPT ![n] = @ + 1]
    BY <2>1 DEF DeployTemplate, Create
  <2>2. ASSUME NEW r \in Requests, DeployRaw(c, r) \/ Get(c, r) \/ Delete(c, r)
        PROVE  uids' = uids
    BY <2>2 DEF DeployRaw, Get, Delete
  <2>3. ASSUME DeployRawApply(c)
        PROVE  uids' = uids \/ \E n : uids' = [uids EXCEPT ![n] = @ + 1]
    BY <2>3 DEF DeployRawApply, CreateOrUpdate, Create, Update
  <2> QED
    BY <1>1, <2>1, <2>2, <2>3 DEF Handle
<1>2. ASSUME NEW n \in Names,
             BeatGet(n) \/ Watch(n) \/ Collect(n) \/ ReconcileDelete(n) \/ Reconcile(n)
      PROVE  uids' = uids
  BY <1>2 DEF BeatGet, Watch, Collect, ReconcileDelete, Update, Reconcile
<1>3. CASE BeatUpdate
  BY <1>3 DEF BeatUpdate, Update
<1>4. CASE UNCHANGED vars
  BY <1>4 DEF vars
<1> QED
  BY <1>1, <1>2, <1>3, <1>4 DEF Next

\* The count of a name's objects never goes down.
LEMMA UidsGrow ==
  ASSUME DeployInv, [Next]_vars
  PROVE  \A n \in Names : uids[n] \in Nat /\ uids'[n] \in Nat /\ uids[n] <= uids'[n]
<1>1. uids \in [Names -> Nat]
  BY DEF DeployInv, StoreInv
<1>2. CASE uids' = uids
  BY <1>1, <1>2
<1>3. ASSUME NEW m, uids' = [uids EXCEPT ![m] = @ + 1]
      PROVE  \A n \in Names : uids[n] \in Nat /\ uids'[n] \in Nat /\ uids[n] <= uids'[n]
  BY <1>1, <1>3
<1> QED
  BY <1>2, <1>3, UidsStep

\* What the informer and the Deployments are at after a step.
LEMMA CopiesMove ==
  ASSUME [Next]_vars
  PROVE  /\ cache' = cache \/ \E n \in Names : cache' = [cache EXCEPT ![n] = store[n]]
         /\ \/ dep' = dep
            \/ \E n \in Names : dep' = [dep EXCEPT ![n] = NoDeployment]
            \/ \E n \in Names :
                 cache[n].live /\ RenderOf(cache[n]).ok /\ dep' = Applied(n, cache[n])
<1>1. ASSUME NEW c \in Calls, Handle(c)
      PROVE  cache' = cache /\ dep' = dep
  BY <1>1 DEF Handle, DeployTemplate, DeployRaw, Get, Delete, DeployRawApply
<1>2. ASSUME NEW n \in Names, BeatGet(n) \/ ReconcileDelete(n)
      PROVE  cache' = cache /\ dep' = dep
  BY <1>2 DEF BeatGet, ReconcileDelete
<1>3. ASSUME NEW n \in Names, Watch(n)
      PROVE  dep' = dep /\ cache' = [cache EXCEPT ![n] = store[n]]
  BY <1>3 DEF Watch
<1>4. ASSUME NEW n \in Names, Collect(n)
      PROVE  cache' = cache /\ dep' = [dep EXCEPT ![n] = NoDeployment]
  BY <1>4 DEF Collect
<1>5. ASSUME NEW n \in Names, Reconcile(n)
      PROVE  /\ cache' = cache
             /\ \/ dep' = dep
                \/ cache[n].live /\ RenderOf(cache[n]).ok /\ dep' = Applied(n, cache[n])
  BY <1>5 DEF Reconcile
<1>6. CASE BeatUpdate
  BY <1>6 DEF BeatUpdate
<1>7. CASE UNCHANGED vars
  BY <1>7 DEF vars
<1> QED
  BY <1>1, <1>2, <1>3, <1>4, <1>5, <1>6, <1>7 DEF Next

\* A Deployment as RunsInv has it.
Fits(d, u) == d.uid \in 0..u /\ (d.uid # 0 => d.what.workers \in 0..MaxConnections)

\* A Deployment still fits when more objects were created.
LEMMA FitsLater ==
  ASSUME NEW d, NEW u \in Nat, NEW v \in Nat, u <= v, Fits(d, u)
  PROVE  Fits(d, v)
BY DEF Fits

\* Every step keeps RunsInv.
LEMMA RunsNext == DeployInv /\ RunsInv /\ [Next]_vars => RunsInv'
<1> SUFFICES ASSUME DeployInv, RunsInv, [Next]_vars PROVE RunsInv'
  OBVIOUS
<1>0. /\ cache \in [Names -> Copies] /\ store \in [Names -> Copies] /\ DOMAIN dep = Names
      /\ \A n \in Names :
           /\ uids[n] \in Nat /\ uids'[n] \in Nat /\ uids[n] <= uids'[n]
           /\ store[n].live => store[n].uid \in 1..uids[n]
           /\ cache[n].live => cache[n].uid \in 1..uids[n]
           /\ Fits(dep[n], uids[n])
  BY UidsGrow DEF DeployInv, StoreInv, CopiesInv, Sound, RunsInv, Fits
<1>1. ASSUME NEW m \in Names
      PROVE  cache'[m].live => cache'[m].uid \in 1..uids'[m]
  <2>1. cache'[m] = cache[m] \/ cache'[m] = store[m]
    BY <1>0, CopiesMove
  <2> DEFINE u == uids[m]
             v == uids'[m]
  <2>2. /\ u \in Nat /\ v \in Nat /\ u <= v
        /\ store[m].live => store[m].uid \in 1..u
        /\ cache[m].live => cache[m].uid \in 1..u
    BY <1>0, Zenon
  <2> HIDE DEF u, v
  <2>3. 1..u \subseteq 1..v
    BY <2>2
  <2>4. cache'[m].live => cache'[m].uid \in 1..v
    BY <2>1, <2>2, <2>3, Zenon
  <2> QED
    BY <2>4 DEF v
<1>2. DOMAIN dep' = Names
  BY <1>0, CopiesMove DEF Applied
<1>3. ASSUME NEW m \in Names
      PROVE  Fits(dep'[m], uids'[m])
  <2> DEFINE u == uids[m]
             v == uids'[m]
             d == dep'[m]
  <2>0. /\ u \in Nat /\ v \in Nat /\ u <= v
        /\ cache[m].live => cache[m].uid \in 1..u
        /\ Fits(dep[m], u)
    BY <1>0, Zenon
  <2>1. CASE d = dep[m]
    <3>1. Fits(d, u)
      BY <2>0, <2>1
    <3> HIDE DEF d, u, v
    <3>2. Fits(d, v)
      BY <2>0, <3>1, FitsLater
    <3> QED
      BY <3>2 DEF d, v
  <2>2. CASE dep'[m] = NoDeployment
    <3>1. d.uid = 0
      BY <2>2 DEF NoDeployment
    <3> HIDE DEF d, u, v
    <3>2. Fits(d, v)
      BY <2>0, <3>1 DEF Fits
    <3> QED
      BY <3>2 DEF d, v
  <2>3. CASE /\ cache[m].live /\ RenderOf(cache[m]).ok
             /\ dep'[m] = [uid |-> cache[m].uid, what |-> RenderOf(cache[m]).what]
    <3>1. cache[m] \in Objects
      BY <1>0, <2>3, LiveObject
    <3>2. RenderOf(cache[m]).what.workers \in 0..MaxConnections
      BY <2>3, <3>1, RenderedWithin
    <3>3. dep'[m].uid = cache[m].uid /\ dep'[m].what = RenderOf(cache[m]).what
      BY <2>3
    <3>4. d.uid \in 1..u /\ d.what.workers \in 0..MaxConnections
      BY <2>0, <2>3, <3>2, <3>3
    <3> HIDE DEF d, u, v
    <3>5. Fits(d, v)
      BY <2>0, <3>4 DEF Fits
    <3> QED
      BY <3>5 DEF d, v
  <2> QED
    BY <1>0, <2>1, <2>2, <2>3, CopiesMove DEF Applied
<1> QED
  BY <1>1, <1>2, <1>3 DEF RunsInv, Fits

\* A call as AnswersInv has it.
Answerable(x) ==
  /\ x.at \in {"idle", "apply", "answered"}
  /\ x.at = "apply" => x.req.kind = "raw"
  /\ x.at = "answered" => CodeFits(x.kind, x.code)

\* A call that moves on to something answerable.
LEMMA AnswersStep ==
  ASSUME CopiesInv, AnswersInv, NEW c \in Calls, NEW x, call' = [call EXCEPT ![c] = x],
         Answerable(x)
  PROVE  AnswersInv'
<1>1. ASSUME NEW d \in Calls
      PROVE  Answerable(call'[d])
  <2>1. Answerable(call[d])
    BY DEF AnswersInv, Answerable
  <2>2. call'[d] = x \/ call'[d] = call[d]
    BY DEF CopiesInv
  <2> QED
    BY <2>1, <2>2
<1> QED
  BY <1>1 DEF AnswersInv, Answerable, CodeFits

\* An answer with a code of its handler.
LEMMA AnsweredFits ==
  ASSUME CopiesInv, AnswersInv, NEW c \in Calls, NEW r, NEW code, NEW n, NEW stands,
         Answered(c, r, code, n, stands), CodeFits(r.kind, code)
  PROVE  AnswersInv'
<1> DEFINE x == [at |-> "answered", kind |-> r.kind, code |-> code, name |-> n,
                 stands |-> stands]
<1>1. call' = [call EXCEPT ![c] = x] /\ x.at = "answered" /\ x.kind = r.kind /\ x.code = code
  BY DEF Answered
<1> HIDE DEF x
<1>2. Answerable(x)
  BY <1>1 DEF Answerable
<1> QED
  BY <1>1, <1>2, AnswersStep

\* Such an answer as the handlers give it.
LEMMA AnswerFits ==
  ASSUME CopiesInv, AnswersInv, NEW c \in Calls, NEW r, NEW code,
         Answer(c, r, code), CodeFits(r.kind, code)
  PROVE  AnswersInv'
BY AnsweredFits DEF Answer

\* The 202 of a deploy.
LEMMA AcceptFits ==
  ASSUME CopiesInv, AnswersInv, NEW c \in Calls, NEW r, NEW n,
         Accept(c, r, n), CodeFits(r.kind, StatusAccepted)
  PROVE  AnswersInv'
BY AnsweredFits DEF Accept

\* Calls that do not move.
LEMMA AnswersStay ==
  ASSUME AnswersInv, UNCHANGED call
  PROVE  AnswersInv'
BY DEF AnswersInv, CodeFits

\* Every handler answers with a code of its own.
LEMMA HandleAnswers ==
  ASSUME CopiesInv, AnswersInv, NEW c \in Calls, Handle(c)
  PROVE  AnswersInv'
<1>1. ASSUME NEW r \in Requests, DeployTemplate(c, r)
      PROVE  AnswersInv'
  <2>1. r.kind = "template"
    BY <1>1 DEF DeployTemplate, Receives
  <2>2. \/ Answer(c, r, StatusBadRequest) \/ Answer(c, r, StatusInternalServerError)
        \/ \E n : Accept(c, r, n)
    BY <1>1, Zenon DEF DeployTemplate
  <2>3. /\ CodeFits(r.kind, StatusAccepted) /\ CodeFits(r.kind, StatusBadRequest)
        /\ CodeFits(r.kind, StatusInternalServerError)
    BY <2>1 DEF CodeFits
  <2> QED
    BY <2>2, <2>3, AnswerFits, AcceptFits, SMT
<1>2. ASSUME NEW r \in Requests, DeployRaw(c, r)
      PROVE  AnswersInv'
  <2>1. r.kind = "raw"
    BY <1>2 DEF DeployRaw, Receives
  <2>4. CodeFits(r.kind, StatusAccepted) /\ CodeFits(r.kind, StatusBadRequest)
    BY <2>1 DEF CodeFits
  <2>2. CASE Answer(c, r, StatusBadRequest)
    BY <2>2, <2>4, AnswerFits, SMT
  <2>5. CASE Answered(c, r, StatusAccepted, r.name, Carries(store[r.name], r))
    BY <2>4, <2>5, AnsweredFits, SMT
  <2>3. CASE call' = [call EXCEPT ![c] = [at |-> "apply", req |-> r, base |-> cache[r.name]]]
    <3> DEFINE x == [at |-> "apply", req |-> r, base |-> cache[r.name]]
    <3>1. call' = [call EXCEPT ![c] = x] /\ x.at = "apply" /\ x.req = r
      BY <2>3
    <3> HIDE DEF x
    <3>2. Answerable(x)
      BY <2>1, <3>1 DEF Answerable
    <3> QED
      BY <3>1, <3>2, AnswersStep
  <2> QED
    BY <1>2, <2>2, <2>3, <2>5, Zenon DEF DeployRaw
<1>3. ASSUME NEW r \in Requests, Get(c, r)
      PROVE  AnswersInv'
  <2>1. r.kind = "get" /\ Answer(c, r, IF cache[r.name].live THEN StatusOK ELSE StatusNotFound)
    BY <1>3 DEF Get, Receives
  <2>2. CodeFits(r.kind, IF cache[r.name].live THEN StatusOK ELSE StatusNotFound)
    BY <2>1 DEF CodeFits
  <2> DEFINE code == IF cache[r.name].live THEN StatusOK ELSE StatusNotFound
  <2>3. Answer(c, r, code) /\ CodeFits(r.kind, code)
    BY <2>1, <2>2
  <2> HIDE DEF code
  <2> QED
    BY <2>3, AnswerFits
<1>4. ASSUME NEW r \in Requests, Delete(c, r)
      PROVE  AnswersInv'
  <2>1. /\ r.kind = "delete"
        /\ Answer(c, r, StatusNoContent) \/ Answer(c, r, StatusInternalServerError)
    BY <1>4 DEF Delete, Receives
  <2>2. CodeFits(r.kind, StatusNoContent) /\ CodeFits(r.kind, StatusInternalServerError)
    BY <2>1 DEF CodeFits
  <2> QED
    BY <2>1, <2>2, AnswerFits, SMT
<1>5. ASSUME DeployRawApply(c)
      PROVE  AnswersInv'
  <2> DEFINE r == call[c].req
  <2>1. r.kind = "raw"
    BY <1>5 DEF DeployRawApply, AnswersInv
  <2>2. Accept(c, r, r.name) \/ Answer(c, r, StatusInternalServerError)
    BY <1>5, SMT DEF DeployRawApply
  <2>3. CodeFits(r.kind, StatusAccepted) /\ CodeFits(r.kind, StatusInternalServerError)
    BY <2>1 DEF CodeFits
  <2> HIDE DEF r
  <2> QED
    BY <2>2, <2>3, AnswerFits, AcceptFits, SMT
<1> QED
  BY <1>1, <1>2, <1>3, <1>4, <1>5 DEF Handle

\* Every step keeps AnswersInv.
LEMMA AnswersNext == DeployInv /\ AnswersInv /\ [Next]_vars => AnswersInv'
<1> SUFFICES ASSUME DeployInv, AnswersInv, [Next]_vars PROVE AnswersInv'
  OBVIOUS
<1>1. ASSUME NEW c \in Calls, Handle(c)
      PROVE  AnswersInv'
  BY <1>1, HandleAnswers DEF DeployInv
<1>2. ASSUME NEW n \in Names,
             BeatGet(n) \/ Watch(n) \/ Collect(n) \/ ReconcileDelete(n) \/ Reconcile(n)
      PROVE  UNCHANGED call
  BY <1>2 DEF BeatGet, Watch, Collect, ReconcileDelete, Reconcile
<1>3. CASE BeatUpdate
  BY <1>3, AnswersStay DEF BeatUpdate
<1>4. CASE UNCHANGED vars
  BY <1>4, AnswersStay DEF vars
<1> QED
  BY <1>1, <1>2, <1>3, <1>4, AnswersStay DEF Next

\* A step uses up one fault or one beat at most.
LEMMA BoundsStep ==
  ASSUME [Next]_vars
  PROVE  /\ beats' = beats \/ (beats > 0 /\ beats' = beats - 1)
         /\ faults' = faults \/ (faults > 0 /\ faults' = faults - 1)
<1>1. ASSUME NEW c \in Calls, Handle(c)
      PROVE  beats' = beats /\ (faults' = faults \/ (faults > 0 /\ faults' = faults - 1))
  <2>1. ASSUME NEW r \in Requests, DeployTemplate(c, r)
        PROVE  beats' = beats /\ (NoFault \/ Fault)
    BY <2>1, Zenon DEF DeployTemplate
  <2>2. ASSUME NEW r \in Requests, DeployRaw(c, r) \/ Get(c, r)
        PROVE  beats' = beats /\ faults' = faults
    BY <2>2 DEF DeployRaw, Get
  <2>3. ASSUME NEW r \in Requests, Delete(c, r)
        PROVE  beats' = beats /\ (NoFault \/ Fault)
    BY <2>3 DEF Delete
  <2>4. ASSUME DeployRawApply(c)
        PROVE  beats' = beats /\ (NoFault \/ Fault)
    BY <2>4, Zenon DEF DeployRawApply
  <2>5. NoFault \/ Fault => faults' = faults \/ (faults > 0 /\ faults' = faults - 1)
    BY DEF NoFault, Fault
  <2> QED
    BY <1>1, <2>1, <2>2, <2>3, <2>4, <2>5 DEF Handle
<1>2. ASSUME NEW n \in Names, BeatGet(n)
      PROVE  faults' = faults /\ beats > 0 /\ beats' = beats - 1
  BY <1>2 DEF BeatGet
<1>3. ASSUME NEW n \in Names, Watch(n) \/ Collect(n) \/ ReconcileDelete(n) \/ Reconcile(n)
      PROVE  faults' = faults /\ beats' = beats
  BY <1>3 DEF Watch, Collect, ReconcileDelete, Reconcile
<1>4. CASE BeatUpdate
  BY <1>4 DEF BeatUpdate, NoFault, Fault
<1>5. CASE UNCHANGED vars
  BY <1>5 DEF vars
<1> QED
  BY <1>1, <1>2, <1>3, <1>4, <1>5 DEF Next

\* Every step keeps BoundsInv.
LEMMA BoundsNext == BoundsInv /\ [Next]_vars => BoundsInv'
BY BoundsStep, DeployBounds DEF BoundsInv

\* The three hold of an empty cluster.
LEMMA InitTypes == Init => RunsInv /\ AnswersInv /\ BoundsInv
<1> SUFFICES ASSUME Init PROVE RunsInv /\ AnswersInv /\ BoundsInv
  OBVIOUS
<1>1. ASSUME NEW n \in Names
      PROVE  ~cache[n].live /\ dep[n].uid = 0 /\ uids[n] = 0
  BY NoneIsDead DEF Init, NoDeployment
<1>2. RunsInv
  BY <1>1 DEF RunsInv, Init
<1>3. AnswersInv
  BY DEF AnswersInv, Init
<1> QED
  BY <1>2, <1>3, DeployBounds DEF BoundsInv, Init

\* In every reachable state of the deploy API a copy or a Deployment belongs
\* to a Workload that was created, and a call was answered with a code that
\* its handler has.
THEOREM DeployTypes == Spec => [](RunsInv /\ AnswersInv /\ BoundsInv)
BY InitTypes, DeployInvariant, RunsNext, AnswersNext, BoundsNext, PTL DEF Spec

\* Every call, stored Workload, informer's copy and Deployment keeps its type in
\* every state: a Deployment and a copy belong to a Workload that was created,
\* the heartbeats and faults stay within bounds, and a handler answers only with the
\* codes that it has.
THEOREM DeployTypeOK == Spec => []TypeOK
<1>1. DeployInv /\ RunsInv /\ AnswersInv /\ BoundsInv => TypeOK
  <2> SUFFICES ASSUME DeployInv, RunsInv, AnswersInv, BoundsInv PROVE TypeOK
    OBVIOUS
  <2>1. ASSUME NEW n \in Names
        PROVE  /\ store[n].live => store[n].uid \in 1..uids[n]
               /\ latest[n].by \in {"nobody", "template", "raw", "redeploy"}
    BY DEF DeployInv, StoreInv, Sound, Accepted
  <2>2. ASSUME NEW c \in Calls, call[c].at = "answered"
        PROVE  CASE call[c].kind = "get" -> call[c].code \in {StatusOK, StatusNotFound}
                 [] call[c].kind = "delete" ->
                      call[c].code \in {StatusNoContent, StatusInternalServerError}
                 [] OTHER ->
                      call[c].code \in {StatusAccepted, StatusBadRequest, StatusInternalServerError}
    BY <2>2, SMT DEF AnswersInv, CodeFits
  <2>3. \A c \in Calls : call[c].at \in {"idle", "apply", "answered"}
    BY DEF AnswersInv
  <2>4. beat.at \in {"idle", "update"} /\ uids \in [Names -> Nat]
    BY DEF DeployInv, StoreInv, CopiesInv
  <2> QED
    BY <2>1, <2>2, <2>3, <2>4 DEF TypeOK, RunsInv, BoundsInv
<1> QED
  BY <1>1, DeployInvariant, DeployTypes, PTL

\* Whatever config is stored, with values of whatever type: the worker count
\* that nginx runs with is within the range of its parameter.
THEOREM RenderedAlwaysWithinRules == Spec => []RenderedWithinRules
<1>1. RunsInv => RenderedWithinRules
  BY DEF RunsInv, RenderedWithinRules
<1> QED
  BY <1>1, DeployTypes, PTL
--------------------------------------------------------------------------------
(* What a 202 of handleDeploy is worth.                                    *)

\* c is answered 202 for a Workload that does not carry what was sent.
FalseAccept(c) ==
  /\ call[c].at # "answered" /\ call'[c].at = "answered"
  /\ call'[c].code = StatusAccepted /\ ~call'[c].stands

\* Nothing was written, and the cached object is not the stored one; or the
\* Workload that was written to is going away, or is a template's.
Misled(n) ==
  \/ UNCHANGED store /\ cache[n] # store[n]
  \/ store'[n].live /\ (store'[n].deleting \/ store'[n].tmpl # "")

\* Only a raw deploy is answered 202 falsely, and only when it was misled by
\* a stale cache into writing nothing, or applied to a Workload that is going
\* away or to a template's, whose image is not the one sent.
FalseAcceptsExplained ==
  [][\A c \in Calls : FalseAccept(c) => call'[c].kind = "raw" /\ Misled(call'[c].name)]_vars

\* The fields of an answer, and the call it goes to.
LEMMA AnswerTo ==
  ASSUME CopiesInv, NEW c \in Calls, NEW r, NEW code, NEW n, NEW stands,
         Answered(c, r, code, n, stands), NEW d \in Calls, FalseAccept(d)
  PROVE  d = c /\ code = StatusAccepted /\ ~stands /\ call'[d].kind = r.kind /\ call'[d].name = n
<1> DEFINE x == [at |-> "answered", kind |-> r.kind, code |-> code, name |-> n,
                 stands |-> stands]
<1>1. /\ call' = [call EXCEPT ![c] = x]
      /\ x.kind = r.kind /\ x.code = code /\ x.name = n /\ x.stands = stands
  BY DEF Answered
<1> HIDE DEF x
<1>2. call'[d] = IF d = c THEN x ELSE call[d]
  BY <1>1 DEF CopiesInv
<1>3. d = c
  BY <1>2 DEF FalseAccept
<1> QED
  BY <1>1, <1>2, <1>3 DEF FalseAccept

\* What says nothing of a Workload says nothing false.
LEMMA AnswerTrue ==
  ASSUME CopiesInv, NEW c \in Calls, NEW r, NEW code, Answer(c, r, code),
         NEW d \in Calls
  PROVE  ~FalseAccept(d)
<1>1. ASSUME NEW s, Answered(c, r, code, r.name, s), FalseAccept(d)
      PROVE  ~s
  BY <1>1, AnswerTo
<1> QED
  BY <1>1, Zenon DEF Answer

\* A 202 that follows a write.
LEMMA AcceptTo ==
  ASSUME CopiesInv, NEW c \in Calls, NEW r, NEW n, Accept(c, r, n),
         NEW d \in Calls, FalseAccept(d)
  PROVE  ~Carries(store'[n], r) /\ call'[d].kind = r.kind /\ call'[d].name = n
BY AnswerTo DEF Accept

\* A new Workload carries what was sent.
LEMMA CreatedCarries ==
  ASSUME StoreInv, NEW n \in Names, NEW r, NEW by, NEW tmpl, NEW image, NEW k,
         Create(n, NewObject(n, tmpl, image, k, r.config), by),
         IF r.kind = "template" THEN tmpl = r.tmpl
         ELSE tmpl = "" /\ image = r.image /\ k = r.replicas
  PROVE  Carries(store'[n], r)
<1> DEFINE o == NewObject(n, tmpl, image, k, r.config)
<1>1. /\ o.live = TRUE /\ o.deleting = FALSE /\ o.config = r.config /\ o.tmpl = tmpl
      /\ o.image = image /\ o.replicas = k
  BY DEF NewObject
<1> HIDE DEF o
<1>2. store'[n] = o
  BY DEF Create, StoreInv, o
<1> QED
  BY <1>1, <1>2 DEF Carries

\* What the mutate function of the raw path makes of an object.
LEMMA MutatedFields ==
  ASSUME NEW o \in Objects, NEW r \in Requests
  PROVE  LET v == Mutated(o, r)
         IN  /\ v \in Objects /\ v.image = r.image /\ v.replicas = r.replicas
             /\ v.config = r.config /\ v.tmpl = o.tmpl /\ v.deleting = o.deleting
<1>1. r.image \in Images /\ r.replicas \in Counts /\ r.config \in Sent
  BY DEF Images, Counts, Sent
<1>2. ASSUME NEW i \in Images, NEW k \in Counts, NEW g \in Sent
      PROVE  LET v == Overwritten(o, i, k, g)
             IN  /\ v \in Objects /\ v.image = i /\ v.replicas = k /\ v.config = g
                 /\ v.tmpl = o.tmpl /\ v.deleting = o.deleting
  BY DEF Objects, Overwritten
<1>3. Mutated(o, r) = Overwritten(o, r.image, r.replicas, r.config)
  BY DEF Mutated, Overwritten
<1> QED
  BY <1>1, <1>2, <1>3

\* A new version keeps the fields that a 202 is about.
LEMMA VersionedFields ==
  ASSUME NEW o \in Objects, NEW base
  PROVE  LET v == Versioned(base, o)
         IN  /\ v.live /\ v.image = o.image /\ v.replicas = o.replicas
             /\ v.config = o.config /\ v.tmpl = o.tmpl /\ v.deleting = o.deleting
<1>1. ASSUME NEW k \in Nat
      PROVE  LET v == [o EXCEPT !.version = k]
             IN  /\ v.live /\ v.image = o.image /\ v.replicas = o.replicas
                 /\ v.config = o.config /\ v.tmpl = o.tmpl /\ v.deleting = o.deleting
  BY DEF Objects
<1>2. o.version \in Nat /\ o.live
  BY DEF Objects
<1>3. o.version + 1 \in Nat
  BY <1>2
<1> QED
  BY <1>1, <1>2, <1>3 DEF Versioned

\* An object that has what a raw deploy sent carries it, unless it is going
\* away or a template's.
LEMMA RawCarries ==
  ASSUME NEW r, r.kind = "raw", NEW v, v.live, v.image = r.image,
         v.replicas = r.replicas, v.config = r.config, ~Carries(v, r)
  PROVE  v.deleting \/ v.tmpl # ""
BY DEF Carries

\* The template path: Create of a new name.
LEMMA TemplateStands ==
  ASSUME DeployInv, NEW c \in Calls, NEW r \in Requests, DeployTemplate(c, r), NEW d \in Calls
  PROVE  ~FalseAccept(d)
<1>0. StoreInv /\ CopiesInv /\ r.kind = "template"
  BY DEF DeployInv, DeployTemplate, Receives
<1>1. \/ Answer(c, r, StatusBadRequest) \/ Answer(c, r, StatusInternalServerError)
      \/ \E n \in FreeNames(r.tmpl) :
           Create(n, NewObject(n, r.tmpl, "", 1, r.config), "template") /\ Accept(c, r, n)
  BY Zenon DEF DeployTemplate
<1>2. CASE Answer(c, r, StatusBadRequest) \/ Answer(c, r, StatusInternalServerError)
  BY <1>0, <1>2, AnswerTrue
<1>3. ASSUME ~Rejects(r), NEW n \in FreeNames(r.tmpl),
             Create(n, NewObject(n, r.tmpl, "", 1, r.config), "template"), Accept(c, r, n)
      PROVE  ~FalseAccept(d)
  <2>1. n \in Names
    BY <1>3, GeneratedNames DEF FreeNames, Rejects
  <2>2. Carries(store'[n], r)
    BY <1>0, <1>3, <2>1, CreatedCarries
  <2> QED
    BY <1>0, <1>3, <2>2, AcceptTo
<1>4. Rejects(r) => Answer(c, r, StatusBadRequest)
  BY DEF DeployTemplate
<1> QED
  BY <1>1, <1>2, <1>3, <1>4

\* The first half of the raw path: a false 202 is one of a stale cache, of a
\* Workload that is going away, or of a template's.
LEMMA RawStands ==
  ASSUME DeployInv, NEW c \in Calls, NEW r \in Requests, DeployRaw(c, r),
         NEW d \in Calls, FalseAccept(d)
  PROVE  call'[d].kind = "raw" /\ Misled(call'[d].name)
<1>0. StoreInv /\ CopiesInv /\ r.kind = "raw" /\ UNCHANGED store
  BY DEF DeployInv, DeployRaw, Receives
<1>1. CASE Answer(c, r, StatusBadRequest)
  BY <1>0, <1>1, AnswerTrue
<1>2. CASE call' = [call EXCEPT ![c] = [at |-> "apply", req |-> r, base |-> cache[r.name]]]
  <2> DEFINE x == [at |-> "apply", req |-> r, base |-> cache[r.name]]
  <2>1. call' = [call EXCEPT ![c] = x] /\ x.at = "apply"
    BY <1>2
  <2> HIDE DEF x
  <2>2. call'[d] = IF d = c THEN x ELSE call[d]
    BY <1>0, <2>1 DEF CopiesInv
  <2> QED
    BY <2>1, <2>2 DEF FalseAccept
<1>3. CASE /\ r.name \in Names /\ cache[r.name].live
           /\ Mutated(cache[r.name], r) = cache[r.name]
           /\ Answered(c, r, StatusAccepted, r.name, Carries(store[r.name], r))
  <2> DEFINE o == cache[r.name]
  <2>1. ~Carries(store[r.name], r) /\ call'[d].kind = r.kind /\ call'[d].name = r.name
    BY <1>0, <1>3, AnswerTo
  <2>2. o \in Objects
    BY <1>0, <1>3, LiveObject DEF CopiesInv
  <2>3. o.image = r.image /\ o.replicas = r.replicas /\ o.config = r.config /\ o.live
    <3>1. Mutated(o, r) = o /\ o.live
      BY <1>3
    <3> HIDE DEF o
    <3> QED
      BY <2>2, <3>1, MutatedFields
  <2>4. CASE o # store[r.name]
    BY <1>0, <2>1, <2>4 DEF Misled
  <2>5. CASE o = store[r.name]
    <3>1. o.deleting \/ o.tmpl # ""
      BY <1>0, <2>1, <2>3, <2>5, RawCarries
    <3>2. store'[r.name] = o
      BY <1>0, <2>5
    <3> QED
      BY <1>0, <2>1, <2>3, <3>1, <3>2 DEF Misled
  <2> QED
    BY <2>4, <2>5
<1> QED
  BY <1>1, <1>2, <1>3 DEF DeployRaw

\* The second half: a false 202 is one of a Workload that is going away or of a
\* template's.
LEMMA ApplyStands ==
  ASSUME DeployInv, AnswersInv, NEW c \in Calls, DeployRawApply(c),
         NEW d \in Calls, FalseAccept(d)
  PROVE  call'[d].kind = "raw" /\ Misled(call'[d].name)
<1> DEFINE r == call[c].req
           base == call[c].base
<1>0. /\ StoreInv /\ CopiesInv /\ r \in Requests /\ r.name \in Names /\ base \in Copies
      /\ r.kind = "raw"
  BY DEF DeployInv, CopiesInv, AnswersInv, DeployRawApply
<1> HIDE DEF r, base
<1>1. \/ Answer(c, r, StatusInternalServerError)
      \/ CreateOrUpdate(r.name, base, r) /\ Accept(c, r, r.name)
  BY DEF DeployRawApply, r, base
<1>2. CASE Answer(c, r, StatusInternalServerError)
  BY <1>0, <1>2, AnswerTrue
<1>3. CASE CreateOrUpdate(r.name, base, r) /\ Accept(c, r, r.name)
  <2>1. /\ ~Carries(store'[r.name], r)
        /\ call'[d].kind = r.kind /\ call'[d].name = r.name
    BY <1>0, <1>3, AcceptTo
  <2>2. base.live /\ Update(r.name, base, Mutated(base, r))
    <3>1. ASSUME Create(r.name, NewObject(r.name, "", r.image, r.replicas, r.config), "raw")
          PROVE  FALSE
      BY <1>0, <2>1, <3>1, CreatedCarries
    <3> QED
      BY <1>3, <3>1 DEF CreateOrUpdate
  <2> DEFINE m == Mutated(base, r)
             v == Versioned(base, m)
  <2>3. base \in Objects
    BY <1>0, <2>2, LiveObject
  <2>4. m \in Objects /\ m.image = r.image /\ m.replicas = r.replicas /\ m.config = r.config
    BY <1>0, <2>3, MutatedFields
  <2> HIDE DEF m
  <2>5. v.live /\ v.image = r.image /\ v.replicas = r.replicas /\ v.config = r.config
    BY <2>4, VersionedFields
  <2>6. store'[r.name] = v
    BY <1>0, <2>2 DEF Update, StoreInv, m
  <2> HIDE DEF v
  <2>7. v.deleting \/ v.tmpl # ""
    BY <1>0, <2>1, <2>5, <2>6, RawCarries
  <2> QED
    BY <1>0, <2>1, <2>5, <2>6, <2>7 DEF Misled
<1> QED
  BY <1>1, <1>2, <1>3

\* handleDeploy's 202 ("workload applied") holds but for these cases: a raw
\* deploy that a stale cache led to write nothing, and one over a Workload
\* that is going away or is a template's.  A 202 of the template path, and
\* that of a raw deploy which created the Workload, always hold.
THEOREM AcceptsStandUnlessMisled == Spec => FalseAcceptsExplained
<1> DEFINE A == \A c \in Calls : FalseAccept(c) => call'[c].kind = "raw" /\ Misled(call'[c].name)
<1>1. DeployInv /\ AnswersInv /\ [Next]_vars => [A]_vars
  <2> SUFFICES ASSUME DeployInv, AnswersInv, Next, NEW d \in Calls, FalseAccept(d)
               PROVE  call'[d].kind = "raw" /\ Misled(call'[d].name)
    OBVIOUS
  <2>1. ASSUME NEW c \in Calls, Handle(c)
        PROVE  call'[d].kind = "raw" /\ Misled(call'[d].name)
    <3>1. ASSUME NEW r \in Requests, DeployTemplate(c, r)
          PROVE  FALSE
      BY <3>1, TemplateStands
    <3>2. ASSUME NEW r \in Requests, DeployRaw(c, r)
          PROVE  call'[d].kind = "raw" /\ Misled(call'[d].name)
      BY <3>2, RawStands
    <3>3. ASSUME NEW r \in Requests, Get(c, r) \/ Delete(c, r)
          PROVE  FALSE
      <4>1. \E code : Answer(c, r, code)
        BY <3>3, Zenon DEF Get, Delete
      <4> QED
        BY <4>1, AnswerTrue DEF DeployInv
    <3>4. ASSUME DeployRawApply(c)
          PROVE  call'[d].kind = "raw" /\ Misled(call'[d].name)
      BY <3>4, ApplyStands
    <3> QED
      BY <2>1, <3>1, <3>2, <3>3, <3>4 DEF Handle
  <2>2. UNCHANGED call => FALSE
    BY DEF FalseAccept
  <2>3. ASSUME NEW n \in Names,
               BeatGet(n) \/ Watch(n) \/ Collect(n) \/ ReconcileDelete(n) \/ Reconcile(n)
        PROVE  UNCHANGED call
    BY <2>3 DEF BeatGet, Watch, Collect, ReconcileDelete, Reconcile
  <2>4. BeatUpdate => UNCHANGED call
    BY DEF BeatUpdate
  <2> QED
    BY <2>1, <2>2, <2>3, <2>4 DEF Next
<1> QED
  BY <1>1, DeployInvariant, DeployTypes, PTL DEF Spec, FalseAcceptsExplained
================================================================================
