------------------------------ MODULE RequestLife ------------------------------
(***************************************************************************)
(* What the claim loop promises about one request, whatever the fleet that *)
(* serves it does in between: a request is claimed by one operator at a    *)
(* time, only an operator that claimed it makes a Workload CR for it, only *)
(* an operator that made one settles it, a claim that comes to nothing     *)
(* goes back to the queue until the attempts are used up, and a settled    *)
(* request stays settled.  ClaimLoop implements this specification: ticks, *)
(* snapshots, capacity, the order of the queue and caches are not seen     *)
(* here.  The rows are Convex's, modelled from the client's calls.         *)
(***************************************************************************)
EXTENDS Integers, TLAPS

CONSTANTS Operators, Requests, MaxAttempts

VARIABLES
  row,      \* Convex's row of each request
  holders,  \* holders[r]: the operators between a claim of r and its outcome
  made      \* made[r]: the operators with a CR for r

life == <<row, holders, made>>

Init ==
  /\ row = [r \in Requests |-> [st |-> "requested", owner |-> "none", attempts |-> 0]]
  /\ holders = [r \in Requests |-> {}]
  /\ made = [r \in Requests |-> {}]

Released(w) ==
  [st |-> IF w.attempts + 1 >= MaxAttempts THEN "exhausted" ELSE "requested",
   owner |-> "none", attempts |-> w.attempts + 1]

\* The claim lands; its operator learns of it, or its answer is lost.
Claim(r, o) ==
  /\ row[r].st = "requested"
  /\ row' = [row EXCEPT ![r].st = "provisioning", ![r].owner = o]
  /\ holders' \in {holders, [holders EXCEPT ![r] = @ \cup {o}]}
  /\ UNCHANGED made

\* A holder creates the CR and is done, or does not learn that it did.
Make(r, o) ==
  /\ o \in holders[r]
  /\ made' = [made EXCEPT ![r] = @ \cup {o}]
  /\ holders' \in {holders, [holders EXCEPT ![r] = @ \ {o}]}
  /\ UNCHANGED row

\* A holder gives up; what it reports ends the claim, or says nothing any more.
GiveUp(r, o) ==
  /\ o \in holders[r]
  /\ holders' = [holders EXCEPT ![r] = @ \ {o}]
  /\ \/ UNCHANGED row
     \/ /\ row[r].st = "provisioning"
        /\ row' \in {[row EXCEPT ![r] = Released(@)], [row EXCEPT ![r].st = "failed"]}
  /\ UNCHANGED made

\* Convex takes a claim back.
Expire(r) ==
  /\ row[r].st = "provisioning"
  /\ row' = [row EXCEPT ![r] = Released(@)]
  /\ UNCHANGED <<holders, made>>

\* The reports about an operator's CR settle the claim.
Settle(r, o) ==
  /\ o \in made[r]
  /\ row[r].st = "provisioning"
  /\ row' = [row EXCEPT ![r].st = "active", ![r].owner = o]
  /\ UNCHANGED <<holders, made>>

Next ==
  \E r \in Requests :
    \/ Expire(r)
    \/ \E o \in Operators : Claim(r, o) \/ Make(r, o) \/ GiveUp(r, o) \/ Settle(r, o)

Spec == Init /\ [][Next]_life

--------------------------------------------------------------------------------

\* An active request is run by the operator its row names: that operator has
\* made a CR for it (Create before the reconciler's first report).
ActiveIsMade ==
  \A r \in Requests : row[r].st = "active" => row[r].owner \in made[r]

\* A request that is active, failed or exhausted stays as it is: no late report
\* and no lease reopens it.
SettledStays ==
  [][\A r \in Requests :
       row[r].st \in {"active", "failed", "exhausted"} => row'[r] = row[r]]_life

--------------------------------------------------------------------------------
(* Proofs. *)

LifeRows ==
  [st : {"requested", "provisioning", "active", "failed", "exhausted"},
   owner : Operators \cup {"none"}, attempts : Nat]

\* ActiveIsMade with the types its proof rests on.
LifeInv ==
  /\ row \in [Requests -> LifeRows]
  /\ made \in [Requests -> SUBSET Operators]
  /\ ActiveIsMade

\* A released row is a row, and not an active one (releaseClaim).
LEMMA ReleasedRow ==
  ASSUME NEW w \in LifeRows
  PROVE  Released(w) \in LifeRows /\ Released(w).st # "active"
BY DEF Released, LifeRows

\* One step keeps the invariant: a row becomes active only by Settle, and no
\* step takes a CR away.
LEMMA LifeStep == LifeInv /\ [Next]_life => LifeInv'
<1> SUFFICES ASSUME LifeInv, [Next]_life PROVE LifeInv'
  OBVIOUS
<1> USE DEF LifeInv, ActiveIsMade
<1>1. CASE UNCHANGED life
  BY <1>1 DEF life
<1>2. ASSUME NEW r \in Requests, Expire(r) PROVE LifeInv'
  BY <1>2, ReleasedRow DEF Expire
<1>3. ASSUME NEW r \in Requests, NEW o \in Operators, Claim(r, o) PROVE LifeInv'
  BY <1>3 DEF Claim, LifeRows
<1>4. ASSUME NEW r \in Requests, NEW o \in Operators, Make(r, o) PROVE LifeInv'
  BY <1>4 DEF Make
<1>5. ASSUME NEW r \in Requests, NEW o \in Operators, GiveUp(r, o) PROVE LifeInv'
  <2>1. CASE UNCHANGED row
    BY <1>5, <2>1 DEF GiveUp
  <2>2. CASE row' = [row EXCEPT ![r] = Released(@)]
    BY <1>5, <2>2, ReleasedRow DEF GiveUp
  <2>3. CASE row' = [row EXCEPT ![r].st = "failed"]
    BY <1>5, <2>3 DEF GiveUp, LifeRows
  <2> QED
    BY <1>5, <2>1, <2>2, <2>3 DEF GiveUp
<1>6. ASSUME NEW r \in Requests, NEW o \in Operators, Settle(r, o) PROVE LifeInv'
  BY <1>6 DEF Settle, LifeRows
<1> QED
  BY <1>1, <1>2, <1>3, <1>4, <1>5, <1>6 DEF Next

\* In every life a request that is active is run by the operator its row names.
THEOREM ActiveAlwaysMade == Spec => []ActiveIsMade
<1>1. Init => LifeInv
  BY DEF Init, LifeInv, LifeRows, ActiveIsMade
<1>2. LifeInv => ActiveIsMade
  BY DEF LifeInv
<1> QED
  BY <1>1, <1>2, LifeStep, PTL DEF Spec

\* In every life a settled request stays settled.
THEOREM SettledAlwaysStays == Spec => SettledStays
<1> DEFINE Stays == \A r \in Requests :
      row[r].st \in {"active", "failed", "exhausted"} => row'[r] = row[r]
<1>1. Init => LifeInv
  BY DEF Init, LifeInv, LifeRows, ActiveIsMade
<1>2. LifeInv /\ [Next]_life => [Stays]_life
  BY DEF LifeInv, Next, life, Claim, Make, GiveUp, Expire, Settle
<1> QED
  BY <1>1, <1>2, LifeStep, PTL DEF Spec, SettledStays
================================================================================
