------------------------------ MODULE ClaimProofs ------------------------------
(***************************************************************************)
(* Proofs about ClaimLoop, for every fleet, queue, catalog, capacity and   *)
(* fault budget: type correctness, one operator per claim, the account of  *)
(* every CR, the self-gate, and the refinement of RequestLife with what    *)
(* follows from it.                                                        *)
(***************************************************************************)
EXTENDS ClaimLoop, FiniteSetTheorems, WellFoundedInduction, TLAPS

Held == {"create", "retryable", "terminal"}

--------------------------------------------------------------------------------
(* The pieces of TypeOK, each with the steps that keep it.                 *)

RowsOK ==
  /\ row \in [Requests -> Rows]
  /\ \A r \in Requests :
       /\ row[r].st = "provisioning" => row[r].owner \in Operators
       /\ row[r].st \in {"requested", "provisioning"} => row[r].attempts < MaxAttempts

CountsOK ==
  /\ crs \in [Operators -> [Requests -> Nat]]
  /\ cached \in [Operators -> [Requests -> Nat]]

LoopOK ==
  /\ pc \in [Operators -> PCs]
  /\ todo \in [Operators -> SUBSET Requests]
  /\ \A o \in Operators : pc[o] = "idle" <=> todo[o] = {}

BudgetOK ==
  /\ extra \in [Requests -> Nat]
  /\ faults \in 0..MaxFaults
  /\ \A r \in Requests : extra[r] + faults <= MaxFaults

BlindOK == blind \in [Operators -> BOOLEAN]

\* TypeOK is the sum of its pieces.
LEMMA TypeParts ==
  TypeOK <=> RowsOK /\ CountsOK /\ LoopOK /\ BudgetOK /\ BlindOK
BY DEF TypeOK, RowsOK, CountsOK, LoopOK, BudgetOK, BlindOK

\* So it is after a step.
LEMMA TypePartsNext ==
  TypeOK' <=> RowsOK' /\ CountsOK' /\ LoopOK' /\ BudgetOK' /\ BlindOK'
BY DEF TypeOK, RowsOK, CountsOK, LoopOK, BudgetOK, BlindOK

\* A set of numbers that is not empty has a least one.
LEMMA LeastNat ==
  ASSUME NEW S \in SUBSET Nat, S # {}
  PROVE  \E r \in S : \A q \in S : r <= q
<1>1. PICK r \in S : \A q \in S : ~ (<<q, r>> \in OpToRel(<, Nat))
  BY NatLessThanWellFounded, WFMin
<1>2. \A q \in S : ~ (q < r)
  BY <1>1 DEF OpToRel
<1> QED
  BY <1>2

\* A queue with a request in it has a first one, so that a tick that finds the
\* queue not empty has an item (processClaimable's cut).
LEMMA HeadOfQueue ==
  ASSUME Claimable # {}
  PROVE  {r \in Claimable :
            Cardinality({q \in Claimable : q < r}) < maxClaimsPerTick} # {}
<1>1. Claimable \subseteq Nat
  BY RequestsAssumption DEF Claimable
<1>2. PICK r \in Claimable : \A q \in Claimable : r <= q
  BY <1>1, LeastNat
<1>3. \A q \in Claimable : ~ (q < r)
  BY <1>1, <1>2, SMT
<1>4. Cardinality({q \in Claimable : q < r}) = 0
  <2>1. {q \in Claimable : q < r} = {}
    BY <1>3, Zenon
  <2> QED
    BY <2>1, FS_EmptySet
<1> QED
  BY <1>2, <1>4, BoundsAssumption

\* The tick of o goes on past r, or to another step about r.
LEMMA LoopSteps ==
  ASSUME LoopOK, NEW o \in Operators, NEW r \in Requests, Current(o, r),
         \/ \E s : Continue(o, r, s)
         \/ \E l \in PCs \ {"idle"} : Goto(o, l)
  PROVE  LoopOK'
<1>1. ASSUME NEW s, Continue(o, r, s) PROVE LoopOK'
  <2>1. pc' \in [Operators -> PCs] /\ todo' \in [Operators -> SUBSET Requests]
    BY <1>1 DEF LoopOK, Continue, PCs
  <2>2. (pc'[o] = "idle" <=> todo'[o] = {})
    BY <1>1 DEF LoopOK, Continue, Current
  <2>3. \A x \in Operators \ {o} : pc'[x] = pc[x] /\ todo'[x] = todo[x]
    BY <1>1 DEF LoopOK, Continue
  <2> QED
    BY <2>1, <2>2, <2>3 DEF LoopOK
<1>2. ASSUME NEW l \in PCs \ {"idle"}, Goto(o, l) PROVE LoopOK'
  BY <1>2 DEF LoopOK, Goto, Current
<1> QED
  BY <1>1, <1>2

\* A call that fails costs a fault, whether or not it is one of the two kinds
\* that history remembers.
LEMMA BudgetSteps ==
  ASSUME BudgetOK,
         \/ UNCHANGED extra /\ (NoFault \/ Fault)
         \/ \E r \in Requests : extra' = [extra EXCEPT ![r] = @ + 1] /\ Fault
  PROVE  BudgetOK'
BY BoundsAssumption DEF BudgetOK, NoFault, Fault

\* A row is replaced by one that keeps the row's own invariant.
LEMMA RowSteps ==
  ASSUME RowsOK, NEW r \in Requests, NEW w \in Rows,
         w.st = "provisioning" => w.owner \in Operators,
         w.st \in {"requested", "provisioning"} => w.attempts < MaxAttempts,
         row' = [row EXCEPT ![r] = w]
  PROVE  RowsOK'
BY DEF RowsOK

\* Releasing a claim gives a row without an owner (releaseClaim).
LEMMA ReleasedSteps ==
  ASSUME RowsOK, NEW r \in Requests, row[r].st = "provisioning"
  PROVE  /\ Released(row[r]) \in Rows
         /\ Released(row[r]).st \in {"requested", "exhausted"}
         /\ Released(row[r]).st = "requested" => Released(row[r]).attempts < MaxAttempts
BY BoundsAssumption DEF RowsOK, Rows, Released

\* A released row is queued below the attempt cap and exhausted at it.
LEMMA ReleaseKeepsRows ==
  ASSUME RowsOK, NEW r \in Requests, row[r].st = "provisioning",
         row' = [row EXCEPT ![r] = Released(@)]
  PROVE  RowsOK'
<1>1. row' = [row EXCEPT ![r] = Released(row[r])]
  BY DEF RowsOK
<1> QED
  BY <1>1, ReleasedSteps, RowSteps

\* The rows a report may leave behind: the one that was there, or the claim
\* ended (ReportLifecycle).
LEMMA ReportedRow ==
  ASSUME RowsOK, NEW o, NEW r \in Requests, NEW b \in BOOLEAN,
         NEW w \in ReportOutcomes(o, row[r], b)
  PROVE  \/ w = row[r]
         \/ /\ row[r].st = "provisioning"
            /\ w = Released(row[r]) \/ w = [row[r] EXCEPT !.st = "failed"]
BY DEF ReportOutcomes

\* Whatever Convex makes of a report, the row keeps its shape.
LEMMA ReportKeepsRows ==
  ASSUME RowsOK, NEW o, NEW r \in Requests, NEW b \in BOOLEAN,
         NEW w \in ReportOutcomes(o, row[r], b), row' = [row EXCEPT ![r] = w]
  PROVE  RowsOK'
<1>1. CASE w = row[r]
  BY <1>1 DEF RowsOK
<1>2. CASE row[r].st = "provisioning" /\ w = Released(row[r])
  BY <1>2, ReleaseKeepsRows
<1>3. CASE row[r].st = "provisioning" /\ w = [row[r] EXCEPT !.st = "failed"]
  BY <1>3, RowSteps DEF RowsOK, Rows
<1> QED
  BY <1>1, <1>2, <1>3, ReportedRow

--------------------------------------------------------------------------------
(* Type correctness.                                                       *)

\* Every step of the fleet keeps TypeOK.
LEMMA TypeStep == TypeOK /\ [Next]_vars => TypeOK'
<1> SUFFICES ASSUME TypeOK, [Next]_vars PROVE TypeOK'
  OBVIOUS
<1>0. RowsOK /\ CountsOK /\ LoopOK /\ BudgetOK /\ BlindOK
  BY TypeParts
<1>todo. \A o \in Operators : todo[o] \subseteq Requests
  BY <1>0 DEF LoopOK
<1>1. CASE UNCHANGED vars
  BY <1>1 DEF TypeOK, vars
<1>2. ASSUME NEW o \in Operators, HeartbeatOnce(o) PROVE TypeOK'
  <2>1. RowsOK' /\ CountsOK'
    BY <1>0, <1>2 DEF HeartbeatOnce, RowsOK, CountsOK
  <2>2. BudgetOK' /\ BlindOK'
    BY <1>0, <1>2, BudgetSteps DEF HeartbeatOnce, Snapshot, BlindOK
  <2>3. LoopOK'
    <3> DEFINE list ==
          {r \in Claimable : Cardinality({q \in Claimable : q < r}) < maxClaimsPerTick}
    <3>1. list \subseteq Requests
      BY DEF Claimable
    <3>2. list # {}
      BY <1>2, HeadOfQueue DEF HeartbeatOnce
    <3>3. pc' = [pc EXCEPT ![o] = "item"] /\ todo' = [todo EXCEPT ![o] = list]
      BY <1>2 DEF HeartbeatOnce
    <3> HIDE DEF list
    <3> QED
      BY <1>0, <3>1, <3>2, <3>3 DEF LoopOK, PCs
  <2> QED
    BY <2>1, <2>2, <2>3, TypePartsNext
<1>3. ASSUME NEW o \in Operators, NEW r \in todo[o], Skip(o, r) PROVE TypeOK'
  <2>1. RowsOK' /\ CountsOK' /\ BudgetOK' /\ BlindOK'
    BY <1>0, <1>3 DEF Skip, RowsOK, CountsOK, BudgetOK, BlindOK
  <2>2. LoopOK'
    BY <1>0, <1>todo, <1>3, LoopSteps DEF Skip
  <2> QED
    BY <2>1, <2>2, TypePartsNext
<1>4. ASSUME NEW o \in Operators, NEW r \in todo[o], ClaimWorkload(o, r) PROVE TypeOK'
  <2>1. CountsOK' /\ BlindOK'
    BY <1>0, <1>4 DEF ClaimWorkload, CountsOK, BlindOK
  <2>2. LoopOK'
    BY <1>0, <1>todo, <1>4, LoopSteps DEF ClaimWorkload, PCs
  <2>3. BudgetOK'
    BY <1>0, <1>4, BudgetSteps DEF ClaimWorkload
  <2>4. RowsOK'
    <3>1. CASE UNCHANGED row
      BY <1>0, <3>1 DEF RowsOK
    <3>2. CASE row[r].st = "requested" /\ row' = [row EXCEPT ![r] = ClaimedBy(o, @)]
      BY <1>0, <1>todo, <3>2, RowSteps DEF RowsOK, Rows, ClaimedBy
    <3> QED
      BY <1>4, <3>1, <3>2 DEF ClaimWorkload
  <2> QED
    BY <2>1, <2>2, <2>3, <2>4, TypePartsNext
<1>5. ASSUME NEW o \in Operators, NEW r \in todo[o], VersionMismatch(o, r) PROVE TypeOK'
  <2>1. RowsOK' /\ CountsOK' /\ BudgetOK' /\ BlindOK'
    BY <1>0, <1>5 DEF VersionMismatch, RowsOK, CountsOK, BudgetOK, BlindOK
  <2>2. LoopOK'
    BY <1>0, <1>todo, <1>5, LoopSteps DEF VersionMismatch, PCs
  <2> QED
    BY <2>1, <2>2, TypePartsNext
<1>6. ASSUME NEW o \in Operators, NEW r \in todo[o], Create(o, r) PROVE TypeOK'
  <2>1. RowsOK'
    BY <1>0, <1>6 DEF Create, RowsOK
  <2>2. CountsOK'
    <3>1. CASE UNCHANGED crs
      BY <1>0, <1>6, <3>1 DEF Create, CountsOK
    <3>2. CASE crs' = [crs EXCEPT ![o][r] = @ + 1]
      <4>1. r \in Requests /\ crs[o][r] + 1 \in Nat
        BY <1>0, <1>todo DEF CountsOK
      <4> QED
        BY <1>0, <1>6, <3>2, <4>1 DEF Create, CountsOK
    <3> QED
      BY <1>6, <3>1, <3>2 DEF Create
  <2>3. LoopOK'
    BY <1>0, <1>todo, <1>6, LoopSteps DEF Create, PCs
  <2>4. BudgetOK'
    BY <1>0, <1>todo, <1>6, BudgetSteps DEF Create
  <2>5. BlindOK'
    BY <1>0, <1>6 DEF Create, BlindOK
  <2> QED
    BY <2>1, <2>2, <2>3, <2>4, <2>5, TypePartsNext
<1>7. ASSUME NEW o \in Operators, NEW r \in todo[o], ReportLifecycle(o, r) PROVE TypeOK'
  <2>1. CountsOK' /\ BlindOK'
    BY <1>0, <1>7 DEF ReportLifecycle, CountsOK, BlindOK
  <2>2. LoopOK'
    BY <1>0, <1>todo, <1>7, LoopSteps DEF ReportLifecycle
  <2>3. BudgetOK'
    BY <1>0, <1>7, BudgetSteps DEF ReportLifecycle
  <2>4. RowsOK'
    <3>1. CASE UNCHANGED row
      BY <1>0, <3>1 DEF RowsOK
    <3>2. ASSUME NEW w \in ReportOutcomes(o, row[r], pc[o] = "retryable"),
                 row' = [row EXCEPT ![r] = w]
          PROVE  RowsOK'
      BY <1>0, <1>todo, <3>2, ReportKeepsRows
    <3> QED
      BY <1>7, <3>1, <3>2 DEF ReportLifecycle
  <2> QED
    BY <2>1, <2>2, <2>3, <2>4, TypePartsNext
<1>8. ASSUME NEW o \in Operators, Crash(o) PROVE TypeOK'
  <2>1. RowsOK' /\ CountsOK' /\ BlindOK'
    BY <1>0, <1>8 DEF Crash, RowsOK, CountsOK, BlindOK
  <2>2. LoopOK'
    BY <1>0, <1>8 DEF Crash, LoopOK, PCs
  <2>3. BudgetOK'
    BY <1>0, <1>8, BudgetSteps DEF Crash
  <2> QED
    BY <2>1, <2>2, <2>3, TypePartsNext
<1>9. ASSUME NEW o \in Operators, NEW r \in Requests, Appear(o, r) PROVE TypeOK'
  BY <1>9 DEF Appear, TypeOK
<1>10. ASSUME NEW o \in Operators, NEW r \in Requests, Settle(o, r) PROVE TypeOK'
  <2>1. RowsOK'
    <3> DEFINE w == [row[r] EXCEPT !.st = "active", !.owner = o]
    <3>1. w \in Rows /\ w.st = "active"
      BY <1>0 DEF RowsOK, Rows
    <3>2. row' = [row EXCEPT ![r] = w]
      BY <1>0, <1>10 DEF RowsOK, Settle
    <3> HIDE DEF w
    <3> QED
      BY <1>0, <3>1, <3>2, RowSteps
  <2>2. CountsOK' /\ LoopOK' /\ BudgetOK' /\ BlindOK'
    BY <1>0, <1>10 DEF Settle, CountsOK, LoopOK, BudgetOK, BlindOK
  <2> QED
    BY <2>1, <2>2, TypePartsNext
<1>11. ASSUME NEW r \in Requests, LeaseExpires(r) \/ LeaseExpiresEarly(r) PROVE TypeOK'
  <2>1. RowsOK'
    BY <1>0, <1>11, ReleaseKeepsRows DEF LeaseExpires, LeaseExpiresEarly, Orphaned
  <2>2. BudgetOK'
    BY <1>0, <1>11, BudgetSteps DEF LeaseExpires, LeaseExpiresEarly, NoFault
  <2>3. CountsOK' /\ LoopOK' /\ BlindOK'
    BY <1>0, <1>11 DEF LeaseExpires, LeaseExpiresEarly, CountsOK, LoopOK, BlindOK
  <2> QED
    BY <2>1, <2>2, <2>3, TypePartsNext
<1> QED
  BY <1>1, <1>2, <1>3, <1>4, <1>5, <1>6, <1>7, <1>8, <1>9, <1>10, <1>11 DEF Next, Tick

\* The initial states are well typed.
LEMMA TypeInit == Init => TypeOK
BY BoundsAssumption DEF Init, TypeOK, Rows, PCs

\* Every reachable state of every fleet is well formed: a busy tick has an
\* item, a claimed row an operator that owns it and an attempt left.
THEOREM ClaimTypes == Spec => []TypeOK
BY TypeInit, TypeStep, PTL DEF Spec

--------------------------------------------------------------------------------
(* Who holds a claim after each kind of step.                              *)

\* A tick works on one request at a time.
LEMMA CurrentUnique ==
  ASSUME LoopOK, NEW o \in Operators, NEW q, NEW r, Current(o, q), Current(o, r)
  PROVE  q = r
<1>1. q \in Nat /\ r \in Nat /\ q <= r /\ r <= q
  BY RequestsAssumption DEF LoopOK, Current
<1> QED
  BY <1>1

\* A tick at a step about a claim holds the claim of its current item only.
LEMMA HoldsCurrent ==
  ASSUME LoopOK, NEW o \in Operators, NEW r \in Requests, Current(o, r)
  PROVE  /\ pc[o] \in Held => \A q \in Requests : o \in Holders(q) <=> q = r
         /\ pc[o] \notin Held => \A q \in Requests : o \notin Holders(q)
BY CurrentUnique DEF Holders, Held

\* The steps of one tick do not touch the claims of the others.
LEMMA OtherHolders ==
  ASSUME LoopOK, NEW o \in Operators, NEW l, NEW S,
         pc' = [pc EXCEPT ![o] = l], todo' = [todo EXCEPT ![o] = S]
  PROVE  \A q \in Requests : Holders(q)' \ {o} = Holders(q) \ {o}
<1>1. \A x \in Operators \ {o} : pc'[x] = pc[x] /\ todo'[x] = todo[x]
  BY DEF LoopOK
<1>2. \A q \in Requests, x \in Operators \ {o} : x \in Holders(q)' <=> x \in Holders(q)
  BY <1>1 DEF Holders, Current
<1>3. \A q \in Requests : Holders(q) \subseteq Operators /\ Holders(q)' \subseteq Operators
  BY DEF Holders
<1> QED
  BY <1>2, <1>3

\* A claim that lands is held (ClaimWorkload's answer arrives).
LEMMA HoldersGrab ==
  ASSUME LoopOK, NEW o \in Operators, NEW r \in Requests, Current(o, r),
         pc[o] = "item", Goto(o, "create")
  PROVE  /\ \A q \in Requests \ {r} : Holders(q)' = Holders(q)
         /\ Holders(r)' = Holders(r) \cup {o}
<1>1. \A q \in Requests : o \notin Holders(q)
  BY HoldsCurrent DEF Held
<1>2. pc' = [pc EXCEPT ![o] = "create"] /\ todo' = [todo EXCEPT ![o] = todo[o]]
  BY DEF Goto, LoopOK
<1>3. \A q \in Requests : Holders(q)' \ {o} = Holders(q) \ {o}
  BY <1>2, OtherHolders
<1>4. \A q \in Requests : o \in Holders(q)' <=> q = r
  <2>1. pc'[o] = "create" /\ todo' = todo
    BY DEF Goto, LoopOK
  <2> QED
    BY <2>1, CurrentUnique DEF Holders, Current
<1> QED
  BY <1>1, <1>3, <1>4

\* A tick that moves on, ends or is forgotten holds nothing.
LEMMA HoldersDrop ==
  ASSUME LoopOK, NEW o \in Operators, NEW l \in {"idle", "item"}, NEW S,
         pc' = [pc EXCEPT ![o] = l], todo' = [todo EXCEPT ![o] = S]
  PROVE  \A q \in Requests : Holders(q)' = Holders(q) \ {o}
<1>1. \A q \in Requests : o \notin Holders(q)'
  BY DEF LoopOK, Holders
<1> QED
  BY <1>1, OtherHolders

\* An operator whose tick goes on holds no claim any more.
LEMMA HoldersContinue ==
  ASSUME LoopOK, NEW o \in Operators, NEW r, NEW s, Continue(o, r, s)
  PROVE  \A q \in Requests : Holders(q)' = Holders(q) \ {o}
<1>1. todo' = [todo EXCEPT ![o] = todo[o] \ {r}]
  BY DEF Continue, LoopOK
<1>2. PICK l \in {"idle", "item"} : pc' = [pc EXCEPT ![o] = l]
  BY DEF Continue
<1> QED
  BY <1>1, <1>2, HoldersDrop

\* A step from one handling of a claim to another keeps it held.
LEMMA HoldersKeep ==
  ASSUME LoopOK, NEW o \in Operators, NEW l \in Held, pc[o] \in Held, Goto(o, l)
  PROVE  \A q \in Requests : Holders(q)' = Holders(q)
BY DEF LoopOK, Goto, Holders, Held, Current

\* Nothing but the ticks changes who holds a claim.
LEMMA HoldersSame ==
  ASSUME UNCHANGED <<pc, todo>>
  PROVE  \A q \in Requests : Holders(q)' = Holders(q)
BY DEF Holders, Current

--------------------------------------------------------------------------------
(* One operator per claim.                                                 *)

\* OneClaimOneOperator, request by request.
OneFor(r) ==
  \A o \in Operators : extra[r] = 0 =>
    /\ (o \in Holders(r) \/ crs[o][r] > 0) =>
         row[r].st \in {"provisioning", "active"} /\ row[r].owner = o
    /\ crs[o][r] <= IF o \in Holders(r) THEN 0 ELSE 1

\* OneClaimOneOperator, request by request.
LEMMA OneByRequest ==
  /\ OneClaimOneOperator <=> \A r \in Requests : OneFor(r)
  /\ OneClaimOneOperator' <=> \A r \in Requests : OneFor(r)'
BY DEF OneClaimOneOperator, OneFor

\* A step that leaves a request's row and CRs alone keeps it in one hand,
\* also when the operator that holds it lets go.
LEMMA OneQuiet ==
  ASSUME TypeOK, NEW q \in Requests, OneFor(q),
         row'[q] = row[q], extra'[q] = 0 => extra[q] = 0,
         \A o \in Operators : crs'[o][q] = crs[o][q],
         Holders(q)' \subseteq Holders(q)
  PROVE  OneFor(q)'
<1> SUFFICES ASSUME NEW o \in Operators, extra'[q] = 0
             PROVE  /\ (o \in Holders(q)' \/ crs'[o][q] > 0) =>
                         row'[q].st \in {"provisioning", "active"} /\ row'[q].owner = o
                    /\ crs'[o][q] <= IF o \in Holders(q)' THEN 0 ELSE 1
  BY DEF OneFor
<1>1. crs[o][q] \in Nat
  BY DEF TypeOK
<1> QED
  BY <1>1 DEF OneFor

\* Nobody holds the request and nobody has a CR for it.
Free(r) == \A o \in Operators : o \notin Holders(r) /\ crs[o][r] = 0

\* Where the request is in one hand, an owner that lets go without a CR, or
\* no owner at all, leaves it free.
LEMMA FreeUnlessOwned ==
  ASSUME TypeOK, NEW r \in Requests, OneFor(r), extra[r] = 0, NEW o,
         \/ row[r].st \notin {"provisioning", "active"}
         \/ row[r].owner = o /\ (o \in Holders(r) \/ crs[o][r] = 0)
  PROVE  \A x \in Operators : (x # o => x \notin Holders(r)) /\ crs[x][r] = 0
<1> TAKE x \in Operators
<1>1. crs[x][r] \in Nat
  BY DEF TypeOK
<1> QED
  BY <1>1 DEF OneFor

\* Every step keeps each request in one pair of hands.
LEMMA OneStep == TypeOK /\ OneClaimOneOperator /\ [Next]_vars => OneClaimOneOperator'
<1> SUFFICES ASSUME TypeOK, OneClaimOneOperator, [Next]_vars, NEW q \in Requests
             PROVE  OneFor(q)'
  BY OneByRequest
<1>0. LoopOK /\ OneFor(q)
  BY TypeParts, OneByRequest
<1>t. \A o \in Operators : todo[o] \subseteq Requests
  BY <1>0 DEF LoopOK
<1>1. CASE UNCHANGED vars
  BY <1>0, <1>1, OneQuiet, HoldersSame DEF vars
<1>2. ASSUME NEW o \in Operators, HeartbeatOnce(o) PROVE OneFor(q)'
  <2>1. Holders(q)' = Holders(q) \ {o}
    BY <1>0, <1>2, HoldersDrop DEF HeartbeatOnce
  <2>2. UNCHANGED <<row, crs, extra>>
    BY <1>2 DEF HeartbeatOnce
  <2> QED
    BY <1>0, <2>1, <2>2, OneQuiet
<1>3. ASSUME NEW o \in Operators, NEW r \in todo[o], Skip(o, r) PROVE OneFor(q)'
  BY <1>0, <1>3, OneQuiet, HoldersContinue DEF Skip
<1>4. ASSUME NEW o \in Operators, NEW r \in todo[o], ClaimWorkload(o, r) PROVE OneFor(q)'
  <2>r. r \in Requests
    BY <1>t
  <2>1. CASE UNCHANGED row /\ Continue(o, r, snap[o])
    BY <1>0, <1>4, <2>1, OneQuiet, HoldersContinue DEF ClaimWorkload
  <2>2. CASE /\ row[r].st = "requested" /\ row' = [row EXCEPT ![r] = ClaimedBy(o, @)]
             /\ Goto(o, "create") \/ Continue(o, r, snap[o])
    <3>1. /\ \A p \in Requests \ {r} : Holders(p)' \subseteq Holders(p)
          /\ Holders(r)' \subseteq Holders(r) \cup {o}
      BY <1>0, <1>4, <2>r, <2>2, HoldersGrab, HoldersContinue DEF ClaimWorkload
    <3>2. CASE q # r
      BY <1>0, <1>4, <2>2, <3>1, <3>2, OneQuiet DEF ClaimWorkload, TypeOK
    <3>3. CASE q = r
      <4>1. extra[r] = 0 => Free(r)
        BY <1>0, <2>2, <3>3, FreeUnlessOwned DEF Free
      <4>2. row'[r].st = "provisioning" /\ row'[r].owner = o
        BY <2>r, <2>2 DEF TypeOK, Rows, ClaimedBy
      <4>3. UNCHANGED <<crs, extra>>
        BY <1>4 DEF ClaimWorkload
      <4> QED
        BY <3>1, <3>3, <4>1, <4>2, <4>3 DEF OneFor, Free
    <3> QED
      BY <3>2, <3>3
  <2> QED
    BY <1>4, <2>1, <2>2 DEF ClaimWorkload
<1>5. ASSUME NEW o \in Operators, NEW r \in todo[o], VersionMismatch(o, r)
      PROVE  OneFor(q)'
  BY <1>0, <1>5, OneQuiet, HoldersKeep DEF VersionMismatch, Held
<1>6. ASSUME NEW o \in Operators, NEW r \in todo[o], Create(o, r) PROVE OneFor(q)'
  <2>r. r \in Requests /\ o \in Holders(r)
    BY <1>0, <1>t, <1>6, HoldsCurrent DEF Create, Held
  <2>1. CASE Goto(o, "retryable") /\ UNCHANGED <<crs, extra>>
    BY <1>0, <1>6, <2>1, OneQuiet, HoldersKeep DEF Create, Held
  <2>2. CASE /\ crs' = [crs EXCEPT ![o][r] = @ + 1]
             /\ Continue(o, r, Counted(o, r)) /\ UNCHANGED extra
    <3>1. Holders(q)' = Holders(q) \ {o}
      BY <1>0, <2>2, HoldersContinue
    <3>2. \A x \in Operators : (x # o \/ q # r) => crs'[x][q] = crs[x][q]
      BY <2>r, <2>2 DEF TypeOK
    <3>3. CASE q # r
      BY <1>0, <1>6, <2>2, <3>1, <3>2, <3>3, OneQuiet DEF Create
    <3>4. CASE q = r
      <4>1. crs'[o][r] = crs[o][r] + 1 /\ crs[o][r] \in Nat
        BY <2>r, <2>2 DEF TypeOK
      <4>2. extra[r] = 0 => \A x \in Operators \ {o} : x \notin Holders(r) /\ ~(crs[x][r] > 0)
        BY <1>0, <2>r, <3>4 DEF OneFor
      <4>3. UNCHANGED row
        BY <1>6 DEF Create
      <4>4. \A x \in Operators : crs[x][r] \in Nat
        BY <2>r DEF TypeOK
      <4> QED
        BY <1>0, <2>r, <2>2, <3>1, <3>2, <3>4, <4>1, <4>2, <4>3, <4>4 DEF OneFor
    <3> QED
      BY <3>3, <3>4
  <2>3. CASE /\ crs' = [crs EXCEPT ![o][r] = @ + 1]
             /\ extra' = [extra EXCEPT ![r] = @ + 1] /\ Goto(o, "retryable")
    <3>1. Holders(q)' = Holders(q)
      BY <1>0, <1>6, <2>3, HoldersKeep DEF Create, Held
    <3>2. CASE q # r
      <4>1. \A x \in Operators : crs'[x][q] = crs[x][q]
        BY <2>r, <2>3, <3>2 DEF TypeOK
      <4> QED
        BY <1>0, <1>6, <2>3, <3>1, <3>2, <4>1, OneQuiet DEF Create, TypeOK
    <3>3. CASE q = r
      BY <2>3, <3>3 DEF OneFor, TypeOK
    <3> QED
      BY <3>2, <3>3
  <2> QED
    BY <1>6, <2>1, <2>2, <2>3 DEF Create
<1>7. ASSUME NEW o \in Operators, NEW r \in todo[o], ReportLifecycle(o, r)
      PROVE  OneFor(q)'
  <2>r. r \in Requests /\ o \in Holders(r)
    BY <1>0, <1>t, <1>7, HoldsCurrent DEF ReportLifecycle, Held
  <2>1. Holders(q)' = Holders(q) \ {o}
    BY <1>0, <1>7, HoldersContinue DEF ReportLifecycle
  <2>2. CASE row'[q] = row[q]
    BY <1>0, <1>7, <2>1, <2>2, OneQuiet DEF ReportLifecycle
  <2>3. CASE q = r
    <3>1. extra[r] = 0 => \A x \in Operators : (x # o => x \notin Holders(r)) /\ crs[x][r] = 0
      BY <1>0, <2>r, <2>3, FreeUnlessOwned DEF OneFor
    <3> QED
      BY <1>7, <2>1, <2>3, <3>1 DEF ReportLifecycle, OneFor
  <2>4. q # r => row'[q] = row[q]
    BY <1>7 DEF ReportLifecycle, TypeOK
  <2> QED
    BY <2>2, <2>3, <2>4
<1>8. ASSUME NEW o \in Operators, Crash(o) PROVE OneFor(q)'
  BY <1>0, <1>8, OneQuiet, HoldersDrop DEF Crash
<1>9. ASSUME NEW o \in Operators, NEW r \in Requests, Appear(o, r) PROVE OneFor(q)'
  BY <1>0, <1>9, OneQuiet, HoldersSame DEF Appear
<1>10. ASSUME NEW o \in Operators, NEW r \in Requests, Settle(o, r) PROVE OneFor(q)'
  <2>1. Holders(q)' = Holders(q)
    BY <1>10, HoldersSame DEF Settle
  <2>2. CASE q # r
    BY <1>0, <1>10, <2>1, <2>2, OneQuiet DEF Settle, TypeOK
  <2>3. CASE q = r
    <3>1. row'[r].st = "active" /\ row'[r].owner = o
      BY <1>10 DEF Settle, TypeOK, Rows
    <3>2. extra[r] = 0 => row[r].owner = o
      BY <1>0, <1>10, <2>3 DEF Settle, OneFor
    <3> QED
      BY <1>0, <1>10, <2>1, <2>3, <3>1, <3>2 DEF Settle, OneFor
  <2> QED
    BY <2>2, <2>3
<1>11. ASSUME NEW r \in Requests, LeaseExpires(r) PROVE OneFor(q)'
  <2>1. Holders(q)' = Holders(q)
    BY <1>11, HoldersSame DEF LeaseExpires
  <2>2. CASE q # r
    BY <1>0, <1>11, <2>1, <2>2, OneQuiet DEF LeaseExpires, TypeOK
  <2>3. CASE q = r
    <3>1. extra[r] = 0 => Free(r)
      BY <1>0, <1>11, <2>3, FreeUnlessOwned DEF LeaseExpires, Orphaned, Free
    <3> QED
      BY <1>11, <2>1, <2>3, <3>1 DEF LeaseExpires, Free, OneFor
  <2> QED
    BY <2>2, <2>3
<1>12. ASSUME NEW r \in Requests, LeaseExpiresEarly(r) PROVE OneFor(q)'
  <2>1. Holders(q)' = Holders(q)
    BY <1>12, HoldersSame DEF LeaseExpiresEarly
  <2>2. CASE q # r
    BY <1>0, <1>12, <2>1, <2>2, OneQuiet DEF LeaseExpiresEarly, TypeOK
  <2>3. CASE q = r
    BY <1>12, <2>3 DEF LeaseExpiresEarly, OneFor, TypeOK
  <2> QED
    BY <2>2, <2>3
<1> QED
  BY <1>1, <1>2, <1>3, <1>4, <1>5, <1>6, <1>7, <1>8, <1>9, <1>10, <1>11, <1>12
  DEF Next, Tick

\* For every fleet and every fault budget: a request none of whose Create
\* answers was lost and whose lease never ran out early is in the hands of the
\* one operator its row names, with at most one CR.
THEOREM OneOperatorPerClaim == Spec => []OneClaimOneOperator
<1>1. Init => OneClaimOneOperator
  BY DEF Init, OneClaimOneOperator, Holders
<1> QED
  BY <1>1, TypeInit, TypeStep, OneStep, PTL DEF Spec

--------------------------------------------------------------------------------
(* Sums over the fleet and over the queue.                                *)

\* The element SumFunction takes out of a set.
Pick(s) == CHOOSE x \in s : TRUE

\* One step of the recursion that SumFunction unfolds.
Folded(f, h, s) == IF s = {} THEN 0 ELSE f[Pick(s)] + h[s \ {Pick(s)}]

\* The element taken out of a set is one of it.
LEMMA PickIn == ASSUME NEW s, s # {} PROVE Pick(s) \in s
BY DEF Pick

\* Induction over the subsets of a finite set, by a least counterexample: some
\* bad set has no bad set one element smaller.
LEMMA MinimalSubset ==
  ASSUME NEW S, IsFiniteSet(S), NEW B \in SUBSET (SUBSET S), B # {}
  PROVE  \E s \in B : \A x \in s : s \ {x} \notin B
<1> DEFINE sizes == {Cardinality(s) : s \in B}
<1>1. \A s \in B : IsFiniteSet(s) /\ Cardinality(s) \in Nat
  BY FS_Subset, FS_CardinalityType
<1>2. PICK n \in sizes : \A m \in sizes : n <= m
  <2>1. sizes \in SUBSET Nat /\ sizes # {}
    BY <1>1
  <2> HIDE DEF sizes
  <2> QED
    BY <2>1, LeastNat
<1>3. PICK s \in B : n = Cardinality(s)
  BY <1>2
<1>4. ASSUME NEW x \in s, s \ {x} \in B PROVE FALSE
  <2>1. Cardinality(s \ {x}) = Cardinality(s) - 1
    BY <1>1, <1>3, FS_RemoveElement
  <2>2. Cardinality(s) <= Cardinality(s \ {x})
    BY <1>2, <1>3, <1>4
  <2> QED
    BY <1>1, <1>3, <2>1, <2>2
<1> QED
  BY <1>3, <1>4

\* The recursion has a solution on all subsets of a finite set: extend it from
\* the sets of n elements to those of n + 1, and take a least n where that fails.
LEMMA FoldExists ==
  ASSUME NEW S, IsFiniteSet(S), NEW f \in [S -> Int]
  PROVE  \E h \in [SUBSET S -> Int] : \A s \in SUBSET S : h[s] = Folded(f, h, s)
<1> DEFINE Good(n) == \E h \in [SUBSET S -> Int] :
                        \A s \in SUBSET S : Cardinality(s) <= n => h[s] = Folded(f, h, s)
           bad == {n \in Nat : ~Good(n)}
<1>1. \A s \in SUBSET S : IsFiniteSet(s) /\ Cardinality(s) \in Nat
  BY FS_Subset, FS_CardinalityType
<1>2. ASSUME NEW h \in [SUBSET S -> Int], NEW s \in SUBSET S
      PROVE  Folded(f, h, s) \in Int
  BY PickIn DEF Folded
<1>3. Good(0)
  <2> DEFINE z == [s \in SUBSET S |-> 0]
  <2>1. z \in [SUBSET S -> Int]
    OBVIOUS
  <2>2. ASSUME NEW s \in SUBSET S, Cardinality(s) <= 0 PROVE z[s] = Folded(f, z, s)
    <3>1. s = {}
      BY <1>1, <2>2, FS_EmptySet
    <3> QED
      BY <3>1 DEF Folded
  <2> QED
    BY <2>1, <2>2
<1>4. ASSUME NEW n \in Nat, Good(n) PROVE Good(n + 1)
  <2>1. PICK h \in [SUBSET S -> Int] :
               \A s \in SUBSET S : Cardinality(s) <= n => h[s] = Folded(f, h, s)
    BY <1>4
  <2> DEFINE g == [s \in SUBSET S |-> Folded(f, h, s)]
  <2>2. g \in [SUBSET S -> Int]
    BY <1>2
  <2>3. ASSUME NEW s \in SUBSET S, Cardinality(s) <= n + 1 PROVE g[s] = Folded(f, g, s)
    <3>1. CASE s = {}
      BY <3>1 DEF Folded
    <3>2. CASE s # {}
      <4> DEFINE t == s \ {Pick(s)}
      <4>1. t \in SUBSET S /\ Cardinality(t) = Cardinality(s) - 1
        BY <1>1, <3>2, PickIn, FS_RemoveElement
      <4>2. Cardinality(t) <= n
        BY <1>1, <2>3, <4>1
      <4>3. g[t] = h[t]
        BY <2>1, <4>1, <4>2
      <4> HIDE DEF g
      <4>4. g[s] = Folded(f, h, s)
        BY DEF g
      <4> QED
        BY <3>2, <4>3, <4>4 DEF Folded
    <3> QED
      BY <3>1, <3>2
  <2> HIDE DEF g
  <2> QED
    BY <2>2, <2>3
<1>5. ASSUME bad # {} PROVE FALSE
  <2> HIDE DEF Good
  <2>1. PICK n \in bad : \A m \in bad : n <= m
    BY <1>5, LeastNat
  <2>2. n # 0
    BY <1>3, <2>1
  <2>3. n - 1 \in Nat /\ ~(n - 1 \in bad)
    BY <2>1, <2>2
  <2>4. Good(n - 1)
    BY <2>3
  <2> QED
    BY <1>4, <2>1, <2>3, <2>4
<1>6. PICK h \in [SUBSET S -> Int] :
             \A s \in SUBSET S : Cardinality(s) <= Cardinality(S) => h[s] = Folded(f, h, s)
  BY <1>1, <1>5
<1>7. \A s \in SUBSET S : Cardinality(s) <= Cardinality(S)
  BY FS_Subset
<1> QED
  BY <1>6, <1>7

\* SumFunction of a function over a finite set is that solution.
LEMMA SumByPicks ==
  ASSUME NEW S, IsFiniteSet(S), NEW f \in [S -> Int]
  PROVE  \E h \in [SUBSET S -> Int] :
            (\A s \in SUBSET S : h[s] = Folded(f, h, s)) /\ SumFunction(f) = h[S]
<1> DEFINE Fix(h) == h = [s \in SUBSET S |-> Folded(f, h, s)]
           c == CHOOSE h : Fix(h)
<1>1. PICK k \in [SUBSET S -> Int] : \A s \in SUBSET S : k[s] = Folded(f, k, s)
  BY FoldExists
<1>2. k = [s \in SUBSET S |-> k[s]]
  OBVIOUS
<1>3. Fix(k)
  BY <1>1, <1>2
<1>4. SumFunction(f) = c[S]
  <2>1. DOMAIN f = S
    OBVIOUS
  <2> QED
    BY <2>1, Zenon DEF SumFunction, SumFunctionOnSet, FoldFunctionOnSet, MapThenFoldSet,
                       Folded, Pick
<1>5. Fix(c)
  <2> HIDE DEF Fix
  <2> QED
    BY <1>3
<1> HIDE DEF c
<1>6. DOMAIN c = SUBSET S /\ \A s \in SUBSET S : c[s] = Folded(f, c, s)
  BY <1>5
<1>7. \A s \in SUBSET S : c[s] = k[s]
  <2> DEFINE B == {s \in SUBSET S : c[s] # k[s]}
  <2>1. ASSUME B # {} PROVE FALSE
    <3>1. PICK s \in B : \A x \in s : s \ {x} \notin B
      BY <2>1, MinimalSubset
    <3>2. CASE s = {}
      BY <1>1, <1>6, <3>1, <3>2 DEF Folded
    <3>3. CASE s # {}
      <4>1. c[s \ {Pick(s)}] = k[s \ {Pick(s)}]
        BY <3>1, <3>3, PickIn
      <4>2. c[s] = Folded(f, c, s) /\ k[s] = Folded(f, k, s)
        BY <1>1, <1>6, <3>1
      <4> QED
        BY <3>1, <3>3, <4>1, <4>2 DEF Folded
    <3> QED
      BY <3>2, <3>3
  <2> QED
    BY <2>1
<1> QED
  BY <1>1, <1>4, <1>7

\* A sum of numbers is a number.
LEMMA SumInt ==
  ASSUME NEW S, IsFiniteSet(S), NEW f \in [S -> Int]
  PROVE  SumFunction(f) \in Int
<1>1. PICK h \in [SUBSET S -> Int] : SumFunction(f) = h[S]
  BY SumByPicks
<1> QED
  BY <1>1

\* Changing one term changes the sum by as much.
LEMMA SumUpdate ==
  ASSUME NEW S, IsFiniteSet(S), NEW f \in [S -> Int], NEW g \in [S -> Int],
         NEW a \in S, \A x \in S \ {a} : g[x] = f[x]
  PROVE  SumFunction(g) = SumFunction(f) + (g[a] - f[a])
<1>1. PICK h \in [SUBSET S -> Int] :
             (\A s \in SUBSET S : h[s] = Folded(f, h, s)) /\ SumFunction(f) = h[S]
  BY SumByPicks
<1>2. PICK k \in [SUBSET S -> Int] :
             (\A s \in SUBSET S : k[s] = Folded(g, k, s)) /\ SumFunction(g) = k[S]
  BY SumByPicks
<1> DEFINE B == {s \in SUBSET S : k[s] # h[s] + (IF a \in s THEN g[a] - f[a] ELSE 0)}
<1>3. ASSUME B # {} PROVE FALSE
  <2>1. PICK s \in B : \A x \in s : s \ {x} \notin B
    BY <1>3, MinimalSubset
  <2>2. k[s] = Folded(g, k, s) /\ h[s] = Folded(f, h, s)
    BY <1>1, <1>2, <2>1
  <2>3. CASE s = {}
    BY <2>1, <2>2, <2>3 DEF Folded
  <2>4. CASE s # {}
    <3> DEFINE x == Pick(s)
               t == s \ {x}
    <3>1. x \in s /\ x \in S /\ t \in SUBSET S
      BY <2>1, <2>4, PickIn
    <3>2. k[t] = h[t] + (IF a \in t THEN g[a] - f[a] ELSE 0)
      BY <2>1, <3>1
    <3>3. k[s] = g[x] + k[t] /\ h[s] = f[x] + h[t]
      BY <2>2, <2>4 DEF Folded
    <3>4. a \in s <=> (a = x \/ a \in t)
      BY <3>1
    <3>5. a = x => a \notin t
      OBVIOUS
    <3>6. k[t] \in Int /\ h[t] \in Int /\ g[x] \in Int /\ f[x] \in Int
          /\ g[a] \in Int /\ f[a] \in Int
      BY <3>1
    <3>7. a # x => g[x] = f[x]
      BY <3>1
    <3> HIDE DEF x, t
    <3>8. k[s] = h[s] + (IF a \in s THEN g[a] - f[a] ELSE 0)
      BY <3>2, <3>3, <3>4, <3>5, <3>6, <3>7
    <3> QED
      BY <2>1, <3>8
  <2> QED
    BY <2>3, <2>4
<1>4. k[S] = h[S] + (g[a] - f[a])
  BY <1>3
<1> QED
  BY <1>1, <1>2, <1>4

\* Larger terms have a larger sum.
LEMMA SumMonotone ==
  ASSUME NEW S, IsFiniteSet(S), NEW f \in [S -> Int], NEW g \in [S -> Int],
         \A x \in S : f[x] <= g[x]
  PROVE  SumFunction(f) <= SumFunction(g)
<1>1. PICK h \in [SUBSET S -> Int] :
             (\A s \in SUBSET S : h[s] = Folded(f, h, s)) /\ SumFunction(f) = h[S]
  BY SumByPicks
<1>2. PICK k \in [SUBSET S -> Int] :
             (\A s \in SUBSET S : k[s] = Folded(g, k, s)) /\ SumFunction(g) = k[S]
  BY SumByPicks
<1> DEFINE B == {s \in SUBSET S : ~(h[s] <= k[s])}
<1>3. ASSUME B # {} PROVE FALSE
  <2>1. PICK s \in B : \A x \in s : s \ {x} \notin B
    BY <1>3, MinimalSubset
  <2>2. k[s] = Folded(g, k, s) /\ h[s] = Folded(f, h, s)
    BY <1>1, <1>2, <2>1
  <2>3. CASE s = {}
    BY <2>1, <2>2, <2>3 DEF Folded
  <2>4. CASE s # {}
    <3> DEFINE x == Pick(s)
               t == s \ {x}
    <3>1. x \in s /\ x \in S /\ t \in SUBSET S
      BY <2>1, <2>4, PickIn
    <3>2. h[t] <= k[t]
      BY <2>1, <3>1
    <3>3. k[s] = g[x] + k[t] /\ h[s] = f[x] + h[t]
      BY <2>2, <2>4 DEF Folded
    <3>4. k[t] \in Int /\ h[t] \in Int /\ g[x] \in Int /\ f[x] \in Int /\ f[x] <= g[x]
      BY <3>1
    <3> HIDE DEF x, t
    <3>5. h[s] <= k[s]
      BY <3>2, <3>3, <3>4
    <3> QED
      BY <2>1, <3>5
  <2> QED
    BY <2>3, <2>4
<1> QED
  BY <1>1, <1>2, <1>3

\* Nothing adds up to nothing.
LEMMA SumZero ==
  ASSUME NEW S, IsFiniteSet(S)
  PROVE  SumFunction([x \in S |-> 0]) = 0
<1> DEFINE z == [x \in S |-> 0]
<1>z. z \in [S -> Int]
  OBVIOUS
<1>1. PICK h \in [SUBSET S -> Int] :
             (\A s \in SUBSET S : h[s] = Folded(z, h, s)) /\ SumFunction(z) = h[S]
  <2> HIDE DEF z
  <2> QED
    BY <1>z, SumByPicks
<1> DEFINE B == {s \in SUBSET S : h[s] # 0}
<1>2. ASSUME B # {} PROVE FALSE
  <2>1. PICK s \in B : \A x \in s : s \ {x} \notin B
    BY <1>2, MinimalSubset
  <2>2. CASE s = {}
    BY <1>1, <2>1, <2>2 DEF Folded
  <2>3. CASE s # {}
    <3>1. Pick(s) \in s /\ h[s \ {Pick(s)}] = 0
      BY <2>1, <2>3, PickIn
    <3>2. h[s] = z[Pick(s)] + h[s \ {Pick(s)}]
      BY <1>1, <2>1, <2>3 DEF Folded
    <3>3. z[Pick(s)] = 0
      BY <2>1, <3>1
    <3> QED
      BY <2>1, <3>1, <3>2, <3>3
  <2> QED
    BY <2>2, <2>3
<1> QED
  BY <1>1, <1>2

--------------------------------------------------------------------------------
(* Every CR is accounted for.                                              *)

\* What o has of request r: its CRs, and one more it may still create while
\* it holds the claim.
Weight(r, o) == crs[o][r] + IF o \in Holders(r) THEN 1 ELSE 0

Weights(r) == [o \in Operators |-> Weight(r, o)]

\* Convex may yet hand the request to another operator at no fault.
Loose(r) == IF row[r].st = "requested" \/ Orphaned(r) THEN 1 ELSE 0

AccountFor(r) == SumFunction(Weights(r)) + Loose(r) <= 1 + extra[r]

AccountInv == \A r \in Requests : AccountFor(r)

\* Weights are numbers, also after a step.
LEMMA WeightsInt ==
  ASSUME TypeOK, NEW r \in Requests
  PROVE  /\ Weights(r) \in [Operators -> Int]
         /\ Loose(r) \in {0, 1}
         /\ extra[r] \in Nat
         /\ SumFunction(Weights(r)) \in Int
<1>1. \A o \in Operators : Weight(r, o) \in Int
  BY DEF TypeOK, Weight
<1>2. Weights(r) \in [Operators -> Int]
  BY <1>1 DEF Weights
<1>3. SumFunction(Weights(r)) \in Int
  BY <1>2, SumInt, RequestsAssumption
<1> QED
  BY <1>2, <1>3 DEF TypeOK, Loose

\* So they are after a step.
LEMMA WeightsIntNext ==
  ASSUME TypeOK', NEW r \in Requests
  PROVE  /\ Weights(r)' \in [Operators -> Int]
         /\ Loose(r)' \in {0, 1}
         /\ extra'[r] \in Nat
         /\ SumFunction(Weights(r)') \in Int
<1>1. \A o \in Operators : Weight(r, o)' \in Int
  BY DEF TypeOK, Weight
<1>2. Weights(r)' \in [Operators -> Int]
  BY <1>1 DEF Weights
<1>3. SumFunction(Weights(r)') \in Int
  BY <1>2, SumInt, RequestsAssumption
<1> QED
  BY <1>2, <1>3 DEF TypeOK, Loose

\* A step of one operator keeps the account when what it adds to the weight of
\* that operator and to the looseness of the row is paid for.
LEMMA AccountStep ==
  ASSUME TypeOK, TypeOK', NEW q \in Requests, AccountFor(q), NEW o \in Operators,
         \A x \in Operators \ {o} : Weight(q, x)' = Weight(q, x),
         Weight(q, o)' + Loose(q)' - extra'[q] <= Weight(q, o) + Loose(q) - extra[q]
  PROVE  AccountFor(q)'
<1>1. \A x \in Operators \ {o} : Weights(q)'[x] = Weights(q)[x]
  BY DEF Weights
<1>2. Weights(q)'[o] = Weight(q, o)' /\ Weights(q)[o] = Weight(q, o)
  BY DEF Weights
<1>3. SumFunction(Weights(q)') = SumFunction(Weights(q)) + (Weights(q)'[o] - Weights(q)[o])
  <2> DEFINE f == Weights(q)
             g == Weights(q)'
  <2>1. f \in [Operators -> Int] /\ g \in [Operators -> Int] /\ IsFiniteSet(Operators)
    BY WeightsInt, WeightsIntNext, RequestsAssumption
  <2>2. \A x \in Operators \ {o} : g[x] = f[x]
    BY <1>1
  <2> HIDE DEF f, g
  <2>3. SumFunction(g) = SumFunction(f) + (g[o] - f[o])
    BY <2>1, <2>2, SumUpdate
  <2> QED
    BY <2>3 DEF f, g
<1>4. SumFunction(Weights(q))' = SumFunction(Weights(q)')
  OBVIOUS
<1>5. Weight(q, o) \in Int /\ Weight(q, o)' \in Int
  BY <1>2, WeightsInt, WeightsIntNext
<1> QED
  BY <1>2, <1>3, <1>4, <1>5, WeightsInt, WeightsIntNext DEF AccountFor

\* A step that leaves a request's row, CRs and holders alone keeps its account.
LEMMA AccountQuiet ==
  ASSUME TypeOK, NEW q \in Requests, AccountFor(q), row'[q] = row[q], extra'[q] = extra[q],
         \A x \in Operators : crs'[x][q] = crs[x][q],
         Holders(q)' = Holders(q)
  PROVE  AccountFor(q)'
<1>1. \A x \in Operators : Weight(q, x)' = Weight(q, x)
  BY DEF Weight
<1>2. Weights(q)' = Weights(q)
  BY <1>1 DEF Weights
<1>3. Orphaned(q)' <=> Orphaned(q)
  <2>1. row[q].st = "provisioning" => row[q].owner \in Operators
    BY DEF TypeOK
  <2> QED
    BY <2>1 DEF Orphaned
<1>4. Loose(q)' = Loose(q)
  BY <1>3 DEF Loose
<1> QED
  BY <1>2, <1>4 DEF AccountFor

\* An operator that lets go of a claim gives up the CR it might have created;
\* in exchange the row may come loose (a report, a lost answer, a crash).
LEMMA AccountLetGo ==
  ASSUME TypeOK, TypeOK', NEW q \in Requests, AccountFor(q), NEW o \in Holders(q),
         extra'[q] = extra[q], \A x \in Operators : crs'[x][q] = crs[x][q],
         Holders(q)' = Holders(q) \ {o}
  PROVE  AccountFor(q)'
<1>0. o \in Operators
  BY DEF Holders
<1>1. \A x \in Operators \ {o} : Weight(q, x)' = Weight(q, x)
  BY DEF Weight
<1>2. crs[o][q] \in Nat /\ extra[q] \in Nat
  BY <1>0 DEF TypeOK
<1>3. Weight(q, o) = crs[o][q] + 1 /\ Weight(q, o)' = crs[o][q]
  BY <1>0, <1>2 DEF Weight
<1>4. Loose(q) \in {0, 1} /\ Loose(q)' \in {0, 1}
  BY DEF Loose
<1> QED
  BY <1>0, <1>1, <1>2, <1>3, <1>4, AccountStep

\* So a step that lets go of whatever o holds and leaves rows and CRs alone
\* keeps every account.
LEMMA AccountDrop ==
  ASSUME TypeOK, TypeOK', NEW q \in Requests, AccountFor(q), NEW o,
         UNCHANGED <<row, crs, extra>>, Holders(q)' = Holders(q) \ {o}
  PROVE  AccountFor(q)'
<1>1. CASE o \in Holders(q)
  BY <1>1, AccountLetGo
<1>2. CASE o \notin Holders(q)
  BY <1>2, AccountQuiet
<1> QED
  BY <1>1, <1>2

\* A step of Convex about a row nobody's hold of which changes keeps the
\* account when the row was loose before, is not loose after, or the step is
\* one of those history counts.
LEMMA AccountRow ==
  ASSUME TypeOK, TypeOK', NEW q \in Requests, AccountFor(q), UNCHANGED crs,
         Holders(q)' = Holders(q),
         \/ extra'[q] = extra[q] /\ (Loose(q) = 1 \/ Loose(q)' = 0)
         \/ extra'[q] = extra[q] + 1
  PROVE  AccountFor(q)'
<1>1. \A x \in Operators : Weight(q, x)' = Weight(q, x)
  BY DEF Weight
<1>2. Weights(q)' = Weights(q)
  BY <1>1 DEF Weights
<1>3. Loose(q) \in {0, 1} /\ Loose(q)' \in {0, 1} /\ extra[q] \in Nat
  BY DEF Loose, TypeOK
<1>4. SumFunction(Weights(q)) \in Int
  BY WeightsInt
<1>5. SumFunction(Weights(q))' = SumFunction(Weights(q))
  BY <1>2
<1> QED
  BY <1>3, <1>4, <1>5 DEF AccountFor

\* Every step keeps every request's account.
LEMMA AccountNext == TypeOK /\ TypeOK' /\ AccountInv /\ [Next]_vars => AccountInv'
<1> SUFFICES ASSUME TypeOK, TypeOK', AccountInv, [Next]_vars, NEW q \in Requests
             PROVE  AccountFor(q)'
  BY DEF AccountInv
<1>0. LoopOK /\ AccountFor(q)
  BY TypeParts DEF AccountInv
<1>t. \A o \in Operators : todo[o] \subseteq Requests
  BY <1>0 DEF LoopOK
<1>1. CASE UNCHANGED vars
  BY <1>0, <1>1, AccountQuiet, HoldersSame DEF vars
<1>2. ASSUME NEW o \in Operators, HeartbeatOnce(o) PROVE AccountFor(q)'
  BY <1>0, <1>2, AccountDrop, HoldersDrop DEF HeartbeatOnce
<1>3. ASSUME NEW o \in Operators, NEW r \in todo[o], Skip(o, r) PROVE AccountFor(q)'
  BY <1>0, <1>3, AccountDrop, HoldersContinue DEF Skip
<1>4. ASSUME NEW o \in Operators, NEW r \in todo[o], ClaimWorkload(o, r)
      PROVE  AccountFor(q)'
  <2>r. r \in Requests /\ Current(o, r) /\ pc[o] = "item" /\ UNCHANGED <<crs, extra>>
    BY <1>t, <1>4 DEF ClaimWorkload
  <2>h. o \notin Holders(q)
    BY <1>0, <2>r, HoldsCurrent DEF Held
  <2>1. CASE UNCHANGED row /\ Continue(o, r, snap[o])
    BY <1>0, <2>r, <2>1, AccountDrop, HoldersContinue
  <2>2. CASE /\ row[r].st = "requested" /\ row' = [row EXCEPT ![r] = ClaimedBy(o, @)]
             /\ Continue(o, r, snap[o])
    <3>1. Holders(q)' = Holders(q)
      BY <1>0, <2>h, <2>2, HoldersContinue
    <3>2. CASE q # r
      BY <1>0, <2>r, <2>2, <3>1, <3>2, AccountQuiet DEF TypeOK
    <3>3. CASE q = r
      BY <1>0, <2>r, <2>2, <3>1, <3>3, AccountRow DEF Loose
    <3> QED
      BY <3>2, <3>3
  <2>3. CASE /\ row[r].st = "requested" /\ row' = [row EXCEPT ![r] = ClaimedBy(o, @)]
             /\ Goto(o, "create")
    <3>1. /\ \A p \in Requests \ {r} : Holders(p)' = Holders(p)
          /\ Holders(r)' = Holders(r) \cup {o}
      BY <1>0, <2>r, <2>3, HoldersGrab
    <3>2. CASE q # r
      BY <1>0, <2>r, <2>3, <3>1, <3>2, AccountQuiet DEF TypeOK
    <3>3. CASE q = r
      <4>1. \A x \in Operators \ {o} : Weight(r, x)' = Weight(r, x)
        BY <2>r, <3>1 DEF Weight
      <4>2. crs[o][r] \in Nat /\ extra[r] \in Nat
        BY <2>r DEF TypeOK
      <4>3. Weight(r, o) = crs[o][r] /\ Weight(r, o)' = crs[o][r] + 1
        BY <2>r, <2>h, <3>1, <3>3, <4>2 DEF Weight
      <4>4. row'[r].st = "provisioning" /\ row'[r].owner = o
        BY <2>r, <2>3 DEF TypeOK, Rows, ClaimedBy
      <4>5. Loose(r) = 1 /\ Loose(r)' = 0
        BY <2>3, <3>1, <4>4 DEF Loose, Orphaned
      <4> QED
        BY <1>0, <2>r, <3>3, <4>1, <4>2, <4>3, <4>5, AccountStep
    <3> QED
      BY <3>2, <3>3
  <2> QED
    BY <1>4, <2>1, <2>2, <2>3 DEF ClaimWorkload
<1>5. ASSUME NEW o \in Operators, NEW r \in todo[o], VersionMismatch(o, r)
      PROVE  AccountFor(q)'
  BY <1>0, <1>5, AccountQuiet, HoldersKeep DEF VersionMismatch, Held
<1>6. ASSUME NEW o \in Operators, NEW r \in todo[o], Create(o, r) PROVE AccountFor(q)'
  <2>r. r \in Requests /\ o \in Holders(r) /\ pc[o] \in Held /\ UNCHANGED row
    BY <1>0, <1>t, <1>6, HoldsCurrent DEF Create, Held
  <2>1. CASE Goto(o, "retryable") /\ UNCHANGED <<crs, extra>>
    BY <1>0, <2>r, <2>1, AccountQuiet, HoldersKeep DEF Held
  <2>c. ASSUME crs' = [crs EXCEPT ![o][r] = @ + 1]
        PROVE  /\ \A x \in Operators : (x # o \/ q # r) => crs'[x][q] = crs[x][q]
               /\ crs'[o][r] = crs[o][r] + 1 /\ crs[o][r] \in Nat /\ extra[r] \in Nat
    BY <2>r, <2>c DEF TypeOK
  <2>2. CASE /\ crs' = [crs EXCEPT ![o][r] = @ + 1]
             /\ Continue(o, r, Counted(o, r)) /\ UNCHANGED extra
    <3>1. Holders(q)' = Holders(q) \ {o}
      BY <1>0, <2>2, HoldersContinue
    <3>2. CASE q # r
      <4>1. o \notin Holders(q)
        BY <1>0, <2>r, <3>2, CurrentUnique DEF Holders
      <4> QED
        BY <1>0, <2>r, <2>2, <2>c, <3>1, <3>2, <4>1, AccountQuiet
    <3>3. CASE q = r
      <4>1. \A x \in Operators \ {o} : Weight(r, x)' = Weight(r, x)
        BY <2>2, <2>c, <3>1, <3>3 DEF Weight
      <4>2. Weight(r, o) = crs[o][r] + 1 /\ Weight(r, o)' = crs[o][r] + 1
        BY <2>r, <2>2, <2>c, <3>1, <3>3 DEF Weight
      <4>3. Loose(r)' = Loose(r)
        <5>1. row[r].st = "provisioning" => row[r].owner \in Operators
          BY <2>r DEF TypeOK
        <5>2. Orphaned(r)' <=> Orphaned(r)
          BY <2>r, <2>2, <2>c, <3>1, <3>3, <5>1 DEF Orphaned
        <5> QED
          BY <2>r, <5>2 DEF Loose
      <4>4. Loose(r) \in {0, 1}
        BY DEF Loose
      <4> QED
        BY <1>0, <2>r, <2>2, <2>c, <3>3, <4>1, <4>2, <4>3, <4>4, AccountStep
    <3> QED
      BY <3>2, <3>3
  <2>3. CASE /\ crs' = [crs EXCEPT ![o][r] = @ + 1]
             /\ extra' = [extra EXCEPT ![r] = @ + 1] /\ Goto(o, "retryable")
    <3>1. Holders(q)' = Holders(q)
      BY <1>0, <2>r, <2>3, HoldersKeep DEF Held
    <3>2. CASE q # r
      BY <1>0, <2>r, <2>3, <2>c, <3>1, <3>2, AccountQuiet DEF TypeOK
    <3>3. CASE q = r
      <4>1. \A x \in Operators \ {o} : Weight(r, x)' = Weight(r, x)
        BY <2>3, <2>c, <3>1, <3>3 DEF Weight
      <4>2. Weight(r, o) = crs[o][r] + 1 /\ Weight(r, o)' = crs[o][r] + 2
        BY <2>r, <2>3, <2>c, <3>1, <3>3 DEF Weight
      <4>3. Loose(r)' = Loose(r)
        <5>1. row[r].st = "provisioning" => row[r].owner \in Operators
          BY <2>r DEF TypeOK
        <5>2. Orphaned(r)' <=> Orphaned(r)
          BY <2>r, <2>3, <2>c, <3>1, <3>3, <5>1 DEF Orphaned
        <5> QED
          BY <2>r, <5>2 DEF Loose
      <4>4. Loose(r) \in {0, 1} /\ extra'[r] = extra[r] + 1
        BY <2>r, <2>3 DEF Loose, TypeOK
      <4> QED
        BY <1>0, <2>r, <2>3, <2>c, <3>3, <4>1, <4>2, <4>3, <4>4, AccountStep
    <3> QED
      BY <3>2, <3>3
  <2> QED
    BY <1>6, <2>1, <2>2, <2>3 DEF Create
<1>7. ASSUME NEW o \in Operators, NEW r \in todo[o], ReportLifecycle(o, r)
      PROVE  AccountFor(q)'
  <2>r. r \in Requests /\ o \in Holders(r) /\ UNCHANGED <<crs, extra>>
    BY <1>0, <1>t, <1>7, HoldsCurrent DEF ReportLifecycle, Held
  <2>1. Holders(q)' = Holders(q) \ {o}
    BY <1>0, <1>7, HoldersContinue DEF ReportLifecycle
  <2>2. CASE q = r
    BY <1>0, <2>r, <2>1, <2>2, AccountLetGo
  <2>3. CASE q # r
    <3>1. row'[q] = row[q]
      BY <1>7, <2>3 DEF ReportLifecycle, TypeOK
    <3>2. o \notin Holders(q)
      BY <1>0, <2>r, <2>3, CurrentUnique DEF Holders
    <3> QED
      BY <1>0, <2>r, <2>1, <3>1, <3>2, AccountQuiet
  <2> QED
    BY <2>2, <2>3
<1>8. ASSUME NEW o \in Operators, Crash(o) PROVE AccountFor(q)'
  BY <1>0, <1>8, AccountDrop, HoldersDrop DEF Crash
<1>9. ASSUME NEW o \in Operators, NEW r \in Requests, Appear(o, r) PROVE AccountFor(q)'
  BY <1>0, <1>9, AccountQuiet, HoldersSame DEF Appear
<1>10. ASSUME NEW o \in Operators, NEW r \in Requests, Settle(o, r) PROVE AccountFor(q)'
  <2>1. Holders(q)' = Holders(q) /\ UNCHANGED <<crs, extra>>
    BY <1>10, HoldersSame DEF Settle
  <2>2. CASE q # r
    BY <1>0, <1>10, <2>1, <2>2, AccountQuiet DEF Settle, TypeOK
  <2>3. CASE q = r
    <3>1. row'[r].st = "active"
      BY <1>10 DEF Settle, TypeOK, Rows
    <3>2. Loose(r)' = 0
      BY <3>1 DEF Loose, Orphaned
    <3> QED
      BY <1>0, <2>1, <2>3, <3>2, AccountRow
  <2> QED
    BY <2>2, <2>3
<1>11. ASSUME NEW r \in Requests, LeaseExpires(r) PROVE AccountFor(q)'
  <2>1. Holders(q)' = Holders(q) /\ UNCHANGED <<crs, extra>>
    BY <1>11, HoldersSame DEF LeaseExpires
  <2>2. CASE q # r
    BY <1>0, <1>11, <2>1, <2>2, AccountQuiet DEF LeaseExpires, TypeOK
  <2>3. CASE q = r
    BY <1>0, <1>11, <2>1, <2>3, AccountRow DEF LeaseExpires, Loose
  <2> QED
    BY <2>2, <2>3
<1>12. ASSUME NEW r \in Requests, LeaseExpiresEarly(r) PROVE AccountFor(q)'
  <2>1. Holders(q)' = Holders(q) /\ UNCHANGED crs
    BY <1>12, HoldersSame DEF LeaseExpiresEarly
  <2>2. CASE q # r
    BY <1>0, <1>12, <2>1, <2>2, AccountQuiet DEF LeaseExpiresEarly, TypeOK
  <2>3. CASE q = r
    BY <1>0, <1>12, <2>1, <2>3, AccountRow DEF LeaseExpiresEarly, TypeOK
  <2> QED
    BY <2>2, <2>3
<1> QED
  BY <1>1, <1>2, <1>3, <1>4, <1>5, <1>6, <1>7, <1>8, <1>9, <1>10, <1>11, <1>12
  DEF Next, Tick

\* Nobody has or holds anything at first, and every request is in the queue.
LEMMA AccountInit == Init => AccountInv
<1> SUFFICES ASSUME Init, NEW r \in Requests PROVE AccountFor(r)
  BY DEF AccountInv
<1>1. \A o \in Operators : Weight(r, o) = 0
  BY DEF Init, Weight, Holders
<1>2. Weights(r) = [o \in Operators |-> 0]
  BY <1>1 DEF Weights
<1>3. SumFunction(Weights(r)) = 0
  BY <1>2, SumZero, RequestsAssumption
<1>4. Loose(r) \in {0, 1} /\ extra[r] = 0
  BY DEF Loose, Init
<1> QED
  BY <1>3, <1>4 DEF AccountFor

\* The account covers the CRs.
LEMMA AccountCovers == TypeOK /\ AccountInv => DuplicatesAccounted
<1> SUFFICES ASSUME TypeOK, AccountInv, NEW r \in Requests PROVE CRsOf(r) <= 1 + extra[r]
  BY DEF DuplicatesAccounted
<1> DEFINE f == [o \in Operators |-> crs[o][r]]
<1>1. f \in [Operators -> Int]
  BY DEF TypeOK
<1>2. \A o \in Operators : f[o] <= Weights(r)[o]
  BY DEF TypeOK, Weights, Weight
<1>3. CRsOf(r) = SumFunction(f)
  BY DEF CRsOf
<1> HIDE DEF f
<1>4. SumFunction(f) <= SumFunction(Weights(r)) /\ SumFunction(f) \in Int
  BY <1>1, <1>2, WeightsInt, SumMonotone, SumInt, RequestsAssumption
<1> QED
  BY <1>3, <1>4, WeightsInt DEF AccountInv, AccountFor

\* For every fleet: a request never has more CRs than its first claim and the
\* lost Create answers and early leases account for, summed over all operators.
THEOREM DuplicatesAlwaysAccounted == Spec => []DuplicatesAccounted
BY TypeInit, TypeStep, AccountInit, AccountNext, AccountCovers, PTL DEF Spec

--------------------------------------------------------------------------------
(* The self-gate.                                                          *)

\* Multiplication, for the one case the sums need.
LEMMA OnceMore ==
  ASSUME NEW a \in Nat, NEW b \in Nat
  PROVE  (a + 1) * b = a * b + b /\ a * b \in Nat
OBVIOUS

\* What n Deployments of each request ask of one resource.
Asked(n, d) == [r \in Requests |-> n[r] * Demand[r][d]]

\* The sum is over numbers.
LEMMA AskedInt ==
  ASSUME NEW n \in [Requests -> Nat], NEW d \in Resources
  PROVE  /\ Asked(n, d) \in [Requests -> Int]
         /\ Requested(n)[d] = SumFunction(Asked(n, d))
         /\ Requested(n)[d] \in Int
<1>1. \A r \in Requests : n[r] * Demand[r][d] \in Int
  <2> TAKE r \in Requests
  <2>1. n[r] \in Nat /\ Demand[r][d] \in Nat
    BY RequestsAssumption
  <2> QED
    BY <2>1, OnceMore
<1>2. Asked(n, d) \in [Requests -> Int]
  BY <1>1 DEF Asked
<1>3. Requested(n)[d] = SumFunction(Asked(n, d))
  BY DEF Requested, Asked
<1> QED
  BY <1>2, <1>3, SumInt, RequestsAssumption

\* One Deployment more adds what its template asks for (Tracker's sum and the
\* in-place shrinking of the snapshot agree).
LEMMA RequestedMore ==
  ASSUME NEW n \in [Requests -> Nat], NEW r \in Requests, NEW d \in Resources
  PROVE  Requested([n EXCEPT ![r] = @ + 1])[d] = Requested(n)[d] + Demand[r][d]
<1> DEFINE m == [n EXCEPT ![r] = @ + 1]
<1>0. n[r] \in Nat /\ Demand[r][d] \in Nat
  BY RequestsAssumption
<1>1. m \in [Requests -> Nat] /\ m[r] = n[r] + 1 /\ \A x \in Requests \ {r} : m[x] = n[x]
  BY <1>0
<1> HIDE DEF m
<1>2. /\ Asked(m, d)[r] = (n[r] + 1) * Demand[r][d]
      /\ Asked(n, d)[r] = n[r] * Demand[r][d]
      /\ \A x \in Requests \ {r} : Asked(m, d)[x] = Asked(n, d)[x]
  BY <1>1 DEF Asked
<1>3. Asked(m, d)[r] = Asked(n, d)[r] + Demand[r][d] /\ Asked(n, d)[r] \in Nat
  BY <1>0, <1>2, OnceMore
<1>4. Asked(m, d) \in [Requests -> Int] /\ Asked(n, d) \in [Requests -> Int]
  BY <1>1, AskedInt
<1>5. SumFunction(Asked(m, d)) =
        SumFunction(Asked(n, d)) + (Asked(m, d)[r] - Asked(n, d)[r])
  <2> DEFINE f == Asked(n, d)
             g == Asked(m, d)
  <2>1. /\ f \in [Requests -> Int] /\ g \in [Requests -> Int] /\ IsFiniteSet(Requests)
        /\ \A x \in Requests \ {r} : g[x] = f[x]
    BY <1>2, <1>4, RequestsAssumption
  <2> HIDE DEF f, g
  <2>2. SumFunction(g) = SumFunction(f) + (g[r] - f[r])
    BY <2>1, SumUpdate
  <2> QED
    BY <2>2 DEF f, g
<1>6. Requested(m)[d] = SumFunction(Asked(m, d)) /\ Requested(n)[d] = SumFunction(Asked(n, d))
  BY <1>1, AskedInt
<1>7. Requested(n)[d] \in Int
  BY AskedInt
<1>8. Requested(m)[d] = Requested(n)[d] + Demand[r][d]
  BY <1>0, <1>3, <1>5, <1>6, <1>7
<1> QED
  BY <1>8 DEF m

\* No Deployments ask for nothing.
LEMMA RequestedNone ==
  ASSUME NEW d \in Resources
  PROVE  Requested([r \in Requests |-> 0])[d] = 0
<1> DEFINE z == [r \in Requests |-> 0]
<1>1. \A r \in Requests : Demand[r][d] \in Nat /\ z[r] = 0
  BY RequestsAssumption
<1> HIDE DEF z
<1>2. \A r \in Requests : z[r] * Demand[r][d] = 0
  BY <1>1
<1>3. Asked(z, d) = [r \in Requests |-> 0]
  BY <1>2 DEF Asked
<1>4. Requested(z)[d] = SumFunction(Asked(z, d))
  BY DEF Requested, Asked
<1> QED
  BY <1>3, <1>4, SumZero, RequestsAssumption DEF z

\* An operator that has seen all it created: what it created fits, the tick's
\* snapshot counts exactly that, and the request it is about to create was let
\* through by the gate of this very snapshot.
GateFor(o) == ~blind[o] =>
  /\ \A d \in Resources : Requested(crs[o])[d] <= Allocatable[o][d]
  /\ pc[o] # "idle" => snap[o] = [ok |-> TRUE, used |-> Requested(crs[o])]
  /\ \A r \in Known[o] :
       pc[o] = "create" /\ Current(o, r) => Fits(o, Requested(crs[o]), r)

GateInv == DOMAIN snap = Operators /\ \A o \in Operators : GateFor(o)

\* A step that is not about o leaves its gate alone.
LEMMA GateQuiet ==
  ASSUME NEW x \in Operators, GateFor(x),
         blind'[x] = blind[x], crs'[x] = crs[x], snap'[x] = snap[x],
         pc'[x] = pc[x], todo'[x] = todo[x]
  PROVE  GateFor(x)'
BY DEF GateFor, Current, Requested

\* A step of o's tick that creates nothing and is not about to create keeps the
\* snapshot, or ends the tick and the snapshot with it.
LEMMA GateMove ==
  ASSUME NEW o \in Operators, GateFor(o), blind'[o] = blind[o], crs'[o] = crs[o],
         pc'[o] # "create", pc'[o] = "idle" \/ (pc[o] # "idle" /\ snap'[o] = snap[o])
  PROVE  GateFor(o)'
BY DEF GateFor, Requested

\* Moving on with the tick, in terms of o.
LEMMA GateContinue ==
  ASSUME LoopOK, DOMAIN snap = Operators, NEW o \in Operators, NEW r, NEW s,
         Continue(o, r, s)
  PROVE  /\ pc'[o] = "idle" \/ (pc'[o] = "item" /\ snap'[o] = s)
         /\ DOMAIN snap' = Operators
         /\ \A x \in Operators \ {o} :
              pc'[x] = pc[x] /\ todo'[x] = todo[x] /\ snap'[x] = snap[x]
BY DEF LoopOK, Continue

\* Going to another step about the same item, in terms of o.
LEMMA GateGoto ==
  ASSUME LoopOK, NEW o \in Operators, NEW l, Goto(o, l)
  PROVE  /\ pc'[o] = l /\ UNCHANGED <<snap, todo>>
         /\ \A x \in Operators \ {o} : pc'[x] = pc[x]
BY DEF LoopOK, Goto

\* A CR the gate let through still fits, and the snapshot that is shrunk in
\* place counts it (Counted).
LEMMA GateCreate ==
  ASSUME TypeOK, NEW o \in Operators, NEW r \in Requests, GateFor(o), ~blind[o],
         pc[o] = "create", Current(o, r), r \in Known[o],
         crs' = [crs EXCEPT ![o][r] = @ + 1]
  PROVE  /\ \A d \in Resources : Requested(crs'[o])[d] <= Allocatable[o][d]
         /\ Counted(o, r) = [ok |-> TRUE, used |-> Requested(crs'[o])]
<1>1. crs[o] \in [Requests -> Nat] /\ crs'[o] = [crs[o] EXCEPT ![r] = @ + 1]
  BY DEF TypeOK
<1>2. \A d \in Resources : Requested(crs'[o])[d] = Requested(crs[o])[d] + Demand[r][d]
  BY <1>1, RequestedMore
<1>3. \A d \in Resources : /\ Requested(crs[o])[d] \in Int
                            /\ Allocatable[o][d] \in Nat /\ Demand[r][d] \in Nat
  BY <1>1, AskedInt, RequestsAssumption
<1>4. snap[o] = [ok |-> TRUE, used |-> Requested(crs[o])] /\ Fits(o, Requested(crs[o]), r)
  BY DEF GateFor
<1>5. \A d \in Resources : Requested(crs'[o])[d] <= Allocatable[o][d]
  <2> TAKE d \in Resources
  <2>1. Allocatable[o][d] - Requested(crs[o])[d] >= Demand[r][d]
    BY <1>4 DEF Fits
  <2>2. Requested(crs'[o])[d] = Requested(crs[o])[d] + Demand[r][d]
    BY <1>2
  <2>3. Requested(crs[o])[d] \in Int /\ Allocatable[o][d] \in Int /\ Demand[r][d] \in Int
    BY <1>3
  <2> QED
    BY <2>1, <2>2, <2>3
<1>6. Counted(o, r) =
        [ok |-> TRUE, used |-> [d \in Resources |-> Requested(crs[o])[d] + Demand[r][d]]]
  <2> DEFINE u == Requested(crs[o])
  <2>1. snap[o] = [ok |-> TRUE, used |-> u]
    BY <1>4
  <2> HIDE DEF u
  <2>2. snap[o].ok /\ snap[o].used = u
    BY <2>1
  <2>3. Counted(o, r) =
          [snap[o] EXCEPT !.used = [d \in Resources |-> snap[o].used[d] + Demand[r][d]]]
    BY <2>2 DEF Counted
  <2>4. Counted(o, r) = [ok |-> TRUE, used |-> [d \in Resources |-> u[d] + Demand[r][d]]]
    BY <2>1, <2>2, <2>3
  <2> QED
    BY <2>4 DEF u
<1>7. Requested(crs'[o]) = [d \in Resources |-> Requested(crs'[o])[d]]
  BY DEF Requested
<1>8. [d \in Resources |-> Requested(crs[o])[d] + Demand[r][d]] = Requested(crs'[o])
  BY <1>2, <1>7
<1> QED
  BY <1>5, <1>6, <1>8

\* Every step keeps every operator's gate.
LEMMA GateNext == TypeOK /\ GateInv /\ [Next]_vars => GateInv'
<1> SUFFICES ASSUME TypeOK, GateInv, [Next]_vars PROVE GateInv'
  OBVIOUS
<1>0. LoopOK /\ DOMAIN snap = Operators /\ (\A o \in Operators : GateFor(o)) /\ BlindOK
  BY TypeParts DEF GateInv
<1>t. \A o \in Operators : todo[o] \subseteq Requests
  BY <1>0 DEF LoopOK
<1>1. CASE UNCHANGED vars
  BY <1>0, <1>1, GateQuiet DEF vars, GateInv
<1>2. ASSUME NEW o \in Operators, HeartbeatOnce(o) PROVE GateInv'
  <2>1. /\ \A x \in Operators \ {o} : /\ pc'[x] = pc[x] /\ todo'[x] = todo[x]
                                       /\ snap'[x] = snap[x] /\ blind'[x] = blind[x]
        /\ crs' = crs /\ DOMAIN snap' = Operators /\ pc'[o] = "item"
    BY <1>0, <1>2 DEF HeartbeatOnce, Snapshot, LoopOK, BlindOK
  <2>2. ASSUME ~blind'[o]
        PROVE  ~blind[o] /\ snap'[o] = [ok |-> TRUE, used |-> Requested(crs[o])]
    <3>1. /\ snap' = [snap EXCEPT ![o] = [ok |-> TRUE, used |-> Requested(cached[o])]]
          /\ ~(blind[o] \/ cached[o] # crs[o])
      BY <1>0, <1>2, <2>2 DEF HeartbeatOnce, Snapshot, BlindOK
    <3> QED
      BY <1>0, <3>1
  <2>3. GateFor(o)'
    BY <1>0, <2>1, <2>2 DEF GateFor, Requested
  <2> QED
    BY <1>0, <2>1, <2>3, GateQuiet DEF GateInv
<1>3. ASSUME NEW o \in Operators, NEW r \in todo[o], Skip(o, r) PROVE GateInv'
  <2>1. UNCHANGED <<crs, blind>> /\ pc[o] = "item" /\ Continue(o, r, snap[o])
    BY <1>3 DEF Skip
  <2> QED
    BY <1>0, <2>1, GateContinue, GateMove, GateQuiet DEF GateInv
<1>4. ASSUME NEW o \in Operators, NEW r \in todo[o], ClaimWorkload(o, r) PROVE GateInv'
  <2>1. UNCHANGED <<crs, blind>> /\ pc[o] = "item" /\ Current(o, r) /\ ~Gated(o, r)
    BY <1>4 DEF ClaimWorkload
  <2>2. CASE Continue(o, r, snap[o])
    BY <1>0, <2>1, <2>2, GateContinue, GateMove, GateQuiet DEF GateInv
  <2>3. CASE Goto(o, "create")
    <3>1. /\ pc'[o] = "create" /\ UNCHANGED <<snap, todo>>
          /\ \A x \in Operators \ {o} : pc'[x] = pc[x]
      BY <1>0, <2>3, GateGoto
    <3>2. ASSUME ~blind[o], NEW q \in Known[o], Current(o, q)'
          PROVE  Fits(o, Requested(crs[o]), q)
      <4>1. q = r
        BY <1>0, <2>1, <3>1, <3>2, CurrentUnique DEF Current
      <4>2. snap[o] = [ok |-> TRUE, used |-> Requested(crs[o])]
        BY <1>0, <2>1, <3>2 DEF GateFor
      <4> QED
        BY <2>1, <3>2, <4>1, <4>2 DEF Gated
    <3>3. GateFor(o)'
      <4> SUFFICES ASSUME ~blind'[o]
                   PROVE  /\ \A d \in Resources : Requested(crs'[o])[d] <= Allocatable[o][d]
                          /\ snap'[o] = [ok |-> TRUE, used |-> Requested(crs'[o])]
                          /\ \A q \in Known[o] :
                               Current(o, q)' => Fits(o, Requested(crs'[o]), q)
        BY <3>1 DEF GateFor, Requested, Fits
      <4>1. ~blind[o] /\ crs' = crs /\ snap' = snap
        BY <2>1, <3>1
      <4>2. /\ \A d \in Resources : Requested(crs[o])[d] <= Allocatable[o][d]
            /\ snap[o] = [ok |-> TRUE, used |-> Requested(crs[o])]
        BY <1>0, <2>1, <4>1 DEF GateFor
      <4> QED
        BY <3>2, <4>1, <4>2
    <3> QED
      BY <1>0, <2>1, <3>1, <3>3, GateQuiet DEF GateInv
  <2> QED
    BY <1>4, <2>2, <2>3 DEF ClaimWorkload
<1>5. ASSUME NEW o \in Operators, NEW r \in todo[o], VersionMismatch(o, r) PROVE GateInv'
  <2>1. UNCHANGED <<crs, blind>> /\ pc[o] = "create" /\ Goto(o, "terminal")
    BY <1>5 DEF VersionMismatch
  <2> QED
    BY <1>0, <2>1, GateGoto, GateMove, GateQuiet DEF GateInv
<1>6. ASSUME NEW o \in Operators, NEW r \in todo[o], Create(o, r) PROVE GateInv'
  <2>r. r \in Requests /\ pc[o] = "create" /\ Current(o, r) /\ r \in Known[o]
    BY <1>t, <1>6, RequestsAssumption DEF Create
  <2>1. CASE Goto(o, "retryable") /\ UNCHANGED <<crs, blind>>
    BY <1>0, <2>r, <2>1, GateGoto, GateMove, GateQuiet DEF GateInv
  <2>2. CASE /\ crs' = [crs EXCEPT ![o][r] = @ + 1] /\ UNCHANGED blind
             /\ Continue(o, r, Counted(o, r))
    <3>1. /\ pc'[o] = "idle" \/ (pc'[o] = "item" /\ snap'[o] = Counted(o, r))
          /\ DOMAIN snap' = Operators
          /\ \A x \in Operators \ {o} :
               pc'[x] = pc[x] /\ todo'[x] = todo[x] /\ snap'[x] = snap[x]
      BY <1>0, <2>2, GateContinue
    <3>2. \A x \in Operators \ {o} : crs'[x] = crs[x]
      BY <2>2 DEF TypeOK
    <3>3. GateFor(o)'
      <4> SUFFICES ASSUME ~blind'[o]
                   PROVE  /\ \A d \in Resources : Requested(crs'[o])[d] <= Allocatable[o][d]
                          /\ pc'[o] # "idle" =>
                               snap'[o] = [ok |-> TRUE, used |-> Requested(crs'[o])]
        BY <3>1 DEF GateFor, Requested
      <4>1. ~blind[o]
        BY <2>2
      <4> QED
        BY <1>0, <2>r, <2>2, <3>1, <4>1, GateCreate
    <3> QED
      BY <1>0, <2>2, <3>1, <3>2, <3>3, GateQuiet DEF GateInv
  <2>3. CASE /\ crs' = [crs EXCEPT ![o][r] = @ + 1] /\ Goto(o, "retryable")
             /\ blind' = [blind EXCEPT ![o] = TRUE]
    <3>1. /\ \A x \in Operators \ {o} : crs'[x] = crs[x] /\ blind'[x] = blind[x]
          /\ blind'[o]
      BY <2>3 DEF TypeOK
    <3>2. GateFor(o)'
      BY <3>1 DEF GateFor
    <3> QED
      BY <1>0, <2>3, <3>1, <3>2, GateGoto, GateQuiet DEF GateInv
  <2> QED
    BY <1>6, <2>1, <2>2, <2>3 DEF Create
<1>7. ASSUME NEW o \in Operators, NEW r \in todo[o], ReportLifecycle(o, r) PROVE GateInv'
  <2>1. UNCHANGED <<crs, blind>> /\ pc[o] # "idle" /\ Continue(o, r, snap[o])
    BY <1>7 DEF ReportLifecycle
  <2> QED
    BY <1>0, <2>1, GateContinue, GateMove, GateQuiet DEF GateInv
<1>8. ASSUME NEW o \in Operators, Crash(o) PROVE GateInv'
  <2>1. /\ \A x \in Operators \ {o} :
             pc'[x] = pc[x] /\ todo'[x] = todo[x] /\ snap'[x] = snap[x]
        /\ UNCHANGED <<crs, blind>> /\ DOMAIN snap' = Operators /\ pc'[o] = "idle"
    BY <1>0, <1>8 DEF Crash, LoopOK
  <2> QED
    BY <1>0, <2>1, GateMove, GateQuiet DEF GateInv
<1>9. ASSUME UNCHANGED <<crs, pc, todo, snap, blind>> PROVE GateInv'
  BY <1>0, <1>9, GateQuiet DEF GateInv
<1> QED
  BY <1>1, <1>2, <1>3, <1>4, <1>5, <1>6, <1>7, <1>8, <1>9
  DEF Next, Tick, Appear, Settle, LeaseExpires, LeaseExpiresEarly

\* At first nothing was created, and nothing fits everywhere.
LEMMA GateInit == Init => GateInv
<1> SUFFICES ASSUME Init PROVE GateInv
  OBVIOUS
<1>1. ASSUME NEW o \in Operators, NEW d \in Resources
      PROVE  Requested(crs[o])[d] <= Allocatable[o][d]
  <2>1. crs[o] = [r \in Requests |-> 0]
    BY DEF Init
  <2>2. Requested(crs[o])[d] = 0
    BY <2>1, RequestedNone
  <2>3. Allocatable[o][d] \in Nat
    BY RequestsAssumption
  <2> QED
    BY <2>2, <2>3
<1>2. DOMAIN snap = Operators /\ \A o \in Operators : pc[o] = "idle"
  BY DEF Init
<1> QED
  BY <1>1, <1>2 DEF GateInv, GateFor

\* For every catalog and every node pool: an operator whose snapshots counted
\* all that it had created never creates more than its nodes hold.
THEOREM SelfGateHolds == Spec => []NoOvercommitUnlessBlind
<1>1. GateInv => NoOvercommitUnlessBlind
  BY DEF GateInv, GateFor, NoOvercommitUnlessBlind
<1> QED
  BY <1>1, TypeInit, TypeStep, GateInit, GateNext, PTL DEF Spec

--------------------------------------------------------------------------------
(* The refinement of RequestLife.                                          *)

\* A step that leaves the rows and CRs alone and drops at most one held claim
\* is a stutter or a holder that gives up.
LEMMA LifeDrop ==
  ASSUME LoopOK, NEW o \in Operators, UNCHANGED <<row, crs>>,
         \A q \in Requests : Holders(q)' = Holders(q) \ {o}
  PROVE  [Life!Next]_(Life!life)
<1>1. CASE \A q \in Requests : o \notin Holders(q)
  <2>1. \A q \in Requests : Holders(q)' = Holders(q)
    BY <1>1
  <2> QED
    BY <2>1 DEF Life!life
<1>2. ASSUME NEW r \in Requests, o \in Holders(r) PROVE Life!GiveUp(r, o)
  <2>1. \A q \in Requests \ {r} : o \notin Holders(q)
    BY <1>2, CurrentUnique DEF Holders
  <2>2. [p \in Requests |-> Holders(p)]' =
          [[p \in Requests |-> Holders(p)] EXCEPT ![r] = @ \ {o}]
    BY <2>1
  <2> QED
    BY <1>2, <2>2 DEF Life!GiveUp
<1> QED
  BY <1>1, <1>2 DEF Life!Next

\* A step that leaves rows, CRs and holders alone is a stutter.
LEMMA LifeSame ==
  ASSUME UNCHANGED <<row, crs>>, \A q \in Requests : Holders(q)' = Holders(q)
  PROVE  [Life!Next]_(Life!life)
BY DEF Life!life

\* A CR more for r is o among the operators that made one.
LEMMA LifeMade ==
  ASSUME TypeOK, NEW o \in Operators, NEW r \in Requests,
         crs' = [crs EXCEPT ![o][r] = @ + 1]
  PROVE  [p \in Requests |-> {x \in Operators : crs[x][p] > 0}]' =
           [[p \in Requests |-> {x \in Operators : crs[x][p] > 0}]
              EXCEPT ![r] = @ \cup {o}]
<1>1. crs'[o][r] > 0
  BY DEF TypeOK
<1>2. \A x \in Operators, p \in Requests :
        (x # o \/ p # r) => crs'[x][p] = crs[x][p]
  BY DEF TypeOK
<1>3. \A p \in Requests \ {r} :
        {x \in Operators : crs'[x][p] > 0} = {x \in Operators : crs[x][p] > 0}
  BY <1>2
<1>4. {x \in Operators : crs'[x][r] > 0} = {x \in Operators : crs[x][r] > 0} \cup {o}
  BY <1>1, <1>2
<1> QED
  BY <1>3, <1>4

\* Every step of the fleet is a step of RequestLife or changes nothing it
\* sees.
LEMMA LifeStep == TypeOK /\ [Next]_vars => [Life!Next]_(Life!life)
<1> SUFFICES ASSUME TypeOK, [Next]_vars PROVE [Life!Next]_(Life!life)
  OBVIOUS
<1>0. LoopOK /\ RowsOK
  BY TypeParts
<1>t. \A o \in Operators : todo[o] \subseteq Requests
  BY <1>0 DEF LoopOK
<1> DEFINE hold == [p \in Requests |-> Holders(p)]
<1>1. CASE UNCHANGED vars
  BY <1>1, HoldersSame, LifeSame DEF vars
<1>2. ASSUME NEW o \in Operators, HeartbeatOnce(o) PROVE [Life!Next]_(Life!life)
  BY <1>0, <1>2, HoldersDrop, LifeDrop DEF HeartbeatOnce
<1>3. ASSUME NEW o \in Operators, NEW r \in todo[o], Skip(o, r)
      PROVE  [Life!Next]_(Life!life)
  BY <1>0, <1>3, HoldersContinue, LifeDrop DEF Skip
<1>4. ASSUME NEW o \in Operators, NEW r \in todo[o], ClaimWorkload(o, r)
      PROVE  [Life!Next]_(Life!life)
  <2>r. r \in Requests /\ Current(o, r) /\ pc[o] = "item" /\ UNCHANGED crs
    BY <1>t, <1>4 DEF ClaimWorkload
  <2>1. CASE UNCHANGED row /\ Continue(o, r, snap[o])
    BY <1>0, <2>r, <2>1, HoldersContinue, LifeDrop
  <2>2. CASE /\ row[r].st = "requested" /\ row' = [row EXCEPT ![r] = ClaimedBy(o, @)]
             /\ Goto(o, "create") \/ Continue(o, r, snap[o])
    <3>1. hold' \in {hold, [hold EXCEPT ![r] = @ \cup {o}]}
      <4>1. CASE Goto(o, "create")
        BY <1>0, <2>r, <4>1, HoldersGrab
      <4>2. CASE Continue(o, r, snap[o])
        <5>1. \A q \in Requests : Holders(q)' = Holders(q) \ {o}
          BY <1>0, <4>2, HoldersContinue
        <5>2. \A q \in Requests : o \notin Holders(q)
          BY <1>0, <2>r, HoldsCurrent DEF Held
        <5>3. \A q \in Requests : Holders(q)' = Holders(q)
          BY <5>1, <5>2
        <5> QED
          BY <5>3
      <4> QED
        BY <2>2, <4>1, <4>2
    <3>2. row' = [row EXCEPT ![r].st = "provisioning", ![r].owner = o]
      BY <1>0, <2>r, <2>2 DEF RowsOK, ClaimedBy
    <3>3. Life!Claim(r, o)
      BY <2>r, <2>2, <3>1, <3>2 DEF Life!Claim
    <3> QED
      BY <2>r, <3>3 DEF Life!Next
  <2> QED
    BY <1>4, <2>1, <2>2 DEF ClaimWorkload
<1>5. ASSUME NEW o \in Operators, NEW r \in todo[o], VersionMismatch(o, r)
      PROVE  [Life!Next]_(Life!life)
  BY <1>0, <1>5, HoldersKeep, LifeSame DEF VersionMismatch, Held
<1>6. ASSUME NEW o \in Operators, NEW r \in todo[o], Create(o, r)
      PROVE  [Life!Next]_(Life!life)
  <2>r. r \in Requests /\ o \in Holders(r) /\ pc[o] \in Held /\ UNCHANGED row
    BY <1>0, <1>t, <1>6, HoldsCurrent DEF Create, Held
  <2>1. CASE Goto(o, "retryable") /\ UNCHANGED crs
    BY <1>0, <2>r, <2>1, HoldersKeep, LifeSame DEF Held
  <2>2. CASE /\ crs' = [crs EXCEPT ![o][r] = @ + 1]
             /\ Goto(o, "retryable") \/ Continue(o, r, Counted(o, r))
    <3>1. hold' \in {hold, [hold EXCEPT ![r] = @ \ {o}]}
      <4>1. CASE Goto(o, "retryable")
        BY <1>0, <2>r, <4>1, HoldersKeep DEF Held
      <4>2. CASE Continue(o, r, Counted(o, r))
        <5>1. \A q \in Requests \ {r} : o \notin Holders(q)
          BY <1>0, <2>r, CurrentUnique DEF Holders
        <5>2. \A q \in Requests : Holders(q)' = Holders(q) \ {o}
          BY <1>0, <4>2, HoldersContinue
        <5>3. \A q \in Requests \ {r} : Holders(q)' = Holders(q)
          BY <5>1, <5>2
        <5>4. hold' = [hold EXCEPT ![r] = @ \ {o}]
          BY <2>r, <5>2, <5>3
        <5> QED
          BY <5>4
      <4> QED
        BY <2>2, <4>1, <4>2
    <3>2. Life!Make(r, o)
      BY <2>r, <2>2, <3>1, LifeMade DEF Life!Make
    <3> QED
      BY <2>r, <3>2 DEF Life!Next
  <2> QED
    BY <1>6, <2>1, <2>2 DEF Create
<1>7. ASSUME NEW o \in Operators, NEW r \in todo[o], ReportLifecycle(o, r)
      PROVE  [Life!Next]_(Life!life)
  <2>r. r \in Requests /\ o \in Holders(r) /\ UNCHANGED crs
    BY <1>0, <1>t, <1>7, HoldsCurrent DEF ReportLifecycle, Held
  <2>1. \A q \in Requests : Holders(q)' = Holders(q) \ {o}
    BY <1>0, <1>7, HoldersContinue DEF ReportLifecycle
  <2>2. CASE UNCHANGED row
    BY <1>0, <2>r, <2>1, <2>2, LifeDrop
  <2>3. CASE /\ row[r].st = "provisioning"
             /\ row' \in {[row EXCEPT ![r] = Released(@)], [row EXCEPT ![r].st = "failed"]}
    <3>1. \A q \in Requests \ {r} : o \notin Holders(q)
      BY <1>0, <2>r, CurrentUnique DEF Holders
    <3>2. hold' = [hold EXCEPT ![r] = @ \ {o}]
      BY <2>1, <3>1
    <3>3. Life!GiveUp(r, o)
      BY <2>r, <2>3, <3>2 DEF Life!GiveUp, Life!Released, Released
    <3> QED
      BY <2>r, <3>3 DEF Life!Next
  <2>4. ASSUME NEW w \in ReportOutcomes(o, row[r], pc[o] = "retryable"),
               row' = [row EXCEPT ![r] = w], ~ UNCHANGED row
        PROVE  /\ row[r].st = "provisioning"
               /\ row' \in {[row EXCEPT ![r] = Released(@)], [row EXCEPT ![r].st = "failed"]}
    <3>1. w # row[r]
      BY <1>0, <2>4 DEF RowsOK
    <3>2. /\ row[r].st = "provisioning"
          /\ w = Released(row[r]) \/ w = [row[r] EXCEPT !.st = "failed"]
      <4> DEFINE b == pc[o] = "retryable"
      <4>1. b \in BOOLEAN /\ w \in ReportOutcomes(o, row[r], b)
        BY <2>4
      <4> HIDE DEF b
      <4> QED
        BY <1>0, <2>r, <3>1, <4>1, ReportedRow, Zenon
    <3> QED
      BY <1>0, <2>r, <2>4, <3>2 DEF RowsOK
  <2> QED
    BY <1>7, <2>2, <2>3, <2>4 DEF ReportLifecycle
<1>8. ASSUME NEW o \in Operators, Crash(o) PROVE [Life!Next]_(Life!life)
  BY <1>0, <1>8, HoldersDrop, LifeDrop DEF Crash
<1>9. ASSUME NEW o \in Operators, NEW r \in Requests, Appear(o, r)
      PROVE  [Life!Next]_(Life!life)
  BY <1>9, HoldersSame, LifeSame DEF Appear
<1>10. ASSUME NEW o \in Operators, NEW r \in Requests, Settle(o, r)
       PROVE  [Life!Next]_(Life!life)
  <2>1. \A q \in Requests : Holders(q)' = Holders(q)
    BY <1>10, HoldersSame DEF Settle
  <2>2. Life!Settle(r, o)
    BY <1>10, <2>1 DEF Settle, Life!Settle
  <2> QED
    BY <2>2 DEF Life!Next
<1>11. ASSUME NEW r \in Requests, LeaseExpires(r) \/ LeaseExpiresEarly(r)
       PROVE  [Life!Next]_(Life!life)
  <2>1. \A q \in Requests : Holders(q)' = Holders(q)
    BY <1>11, HoldersSame DEF LeaseExpires, LeaseExpiresEarly
  <2>2. Life!Expire(r)
    BY <1>11, <2>1
    DEF LeaseExpires, LeaseExpiresEarly, Orphaned, Released, Life!Expire, Life!Released
  <2> QED
    BY <2>2 DEF Life!Next
<1> QED
  BY <1>1, <1>2, <1>3, <1>4, <1>5, <1>6, <1>7, <1>8, <1>9, <1>10, <1>11 DEF Next, Tick

\* Every fleet gives each request the life RequestLife describes.
THEOREM ClaimLoopRefinesLife == Spec => LifeSpec
<1>1. Init => Life!Init
  BY DEF Init, Life!Init, Holders
<1> QED
  BY <1>1, TypeInit, TypeStep, LifeStep, PTL DEF Spec, LifeSpec, Life!Spec

\* So an active request is always run by the operator its row names.
THEOREM ActiveWorkloadsRun == Spec => []Life!ActiveIsMade
BY ClaimLoopRefinesLife, Life!ActiveAlwaysMade, PTL DEF LifeSpec

\* And no late report or lease reopens a settled request.
THEOREM SettledRequestsStay == Spec => Life!SettledStays
BY ClaimLoopRefinesLife, Life!SettledAlwaysStays, PTL DEF LifeSpec

================================================================================
