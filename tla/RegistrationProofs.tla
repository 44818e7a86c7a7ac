-------------------------- MODULE RegistrationProofs --------------------------
(***************************************************************************)
(* Proofs about OperatorRegistration, for any set of configurations and    *)
(* any number of faults, rotations and redeployments.                      *)
(***************************************************************************)
EXTENDS OperatorRegistration, TLAPS

\* Every variable keeps its type; in particular the client never holds an
\* empty enrollment secret (checkEnrollmentSecret, setupConvexIntegration).
THEOREM RegistrationTypes == Spec => []TypeOK
<1>1. Init => TypeOK
  <2>1. -1 \in Int
    OBVIOUS
  <2>2. Init => /\ row \in [token : Nat, conf : Nat, secret : Nat, valid : BOOLEAN]
                /\ stored \in [token : Nat, conf : Nat]
    BY DEF Init
  <2>3. Init => /\ accepted \in Nat \ {0} /\ mounted \in Nat
                /\ conf \in Configs /\ secret \in Nat \ {0} /\ mem \in Nat /\ minted \in Nat
                /\ faults \in Nat /\ changes \in Nat
    BY LimitsAssumption DEF Init
  <2>4. Init => call \in Int /\ refused \in BOOLEAN
    BY <2>1 DEF Init
  <2> QED
    BY <2>2, <2>3, <2>4 DEF Init, TypeOK
<1>2. TypeOK /\ [Next]_vars => TypeOK'
  <2> SUFFICES ASSUME TypeOK, [Next]_vars PROVE TypeOK'
    OBVIOUS
  <2> USE ConfigsAssumption DEF TypeOK, convexVars, procVars, callVars, budget
  <2>0. Fault \/ NoFault \/ Change => faults' \in Nat /\ changes' \in Nat
    BY DEF Fault, NoFault, Change
  <2>1. CASE Boot
    BY <2>1 DEF Boot
  <2>2. CASE Load
    BY <2>2, <2>0 DEF Load
  <2>3. CASE Validate
    BY <2>3, <2>0 DEF Validate
  <2>4. CASE Register
    <3>1. row' \in [token : Nat, conf : Nat, secret : Nat, valid : BOOLEAN]
      <4>1. Minted \/ UNCHANGED row
        BY <2>4 DEF Register
      <4>2. conf \in Nat /\ row.token + 1 \in Nat /\ secret \in Nat
        OBVIOUS
      <4>3. Minted => row' \in [token : Nat, conf : Nat, secret : Nat, valid : BOOLEAN]
        BY <4>2 DEF Minted
      <4> QED
        BY <4>1, <4>3
    <3>2. call' \in Int /\ minted' \in Nat /\ mem' \in Nat
      BY <2>4 DEF Register, Failed
    <3> QED
      BY <2>4, <2>0, <3>1, <3>2 DEF Register, Failed, Returned
  <2>5. CASE Save
    BY <2>5, <2>0 DEF Save, Failed, Returned
  <2>6. CASE HeartbeatOnce
    BY <2>6, <2>0 DEF HeartbeatOnce
  <2>7. CASE CheckEnrollmentSecret
    BY <2>7 DEF CheckEnrollmentSecret
  <2>8. CASE CopyToken
    BY <2>8 DEF CopyToken
  <2>9. CASE SendCall
    <3>1. refused' \in BOOLEAN
      BY <2>9 DEF SendCall, Authorized
    <3> QED
      BY <2>9, <2>0, <3>1 DEF SendCall
  <2>10. CASE Crash
    BY <2>10, <2>0 DEF Crash, Stop
  <2>11. CASE Redeployed
    BY <2>11, <2>0 DEF Redeployed, Stop
  <2>12. CASE Rotate
    BY <2>12, <2>0 DEF Rotate
  <2>13. CASE Unmount
    BY <2>13, <2>0 DEF Unmount
  <2>14. CASE Mount
    BY <2>14 DEF Mount
  <2>15. CASE Revoke
    BY <2>15, <2>0 DEF Revoke
  <2>16. CASE UNCHANGED vars
    BY <2>16 DEF vars
  <2> QED
    BY <2>1, <2>2, <2>3, <2>4, <2>5, <2>6, <2>7, <2>8, <2>9, <2>10, <2>11, <2>12,
       <2>13, <2>14, <2>15, <2>16 DEF Next, Goroutine, Caller, Environment
<1> QED
  BY <1>1, <1>2, PTL DEF Spec

\* The inductive invariant: neither the Secret nor the process ever holds a pair
\* newer than Convex's row, and whoever holds the newest pair holds it for the
\* configuration that row describes.
THEOREM RegistrationInvariant == Spec => [](TypeOK /\ RegistrationInv)
<1>1. Init => RegistrationInv
  BY DEF Init, RegistrationInv, ServingMatchesFleet
<1>2. TypeOK /\ RegistrationInv /\ [Next]_vars => RegistrationInv'
  <2> SUFFICES ASSUME TypeOK, RegistrationInv, [Next]_vars PROVE RegistrationInv'
    OBVIOUS
  <2> USE DEF TypeOK, RegistrationInv, ServingMatchesFleet, convexVars, procVars, budget
  <2>1. CASE Boot
    BY <2>1 DEF Boot
  <2>2. CASE Load
    BY <2>2 DEF Load
  <2>3. CASE Validate
    BY <2>3 DEF Validate, Authorized
  <2>4. CASE Register
    BY <2>4 DEF Register, Minted, Failed, Returned
  <2>5. CASE Save
    <3>1. minted # 0 /\ minted = row.token /\ stored.token < minted /\ row.conf = conf
      BY <2>5 DEF Save
    <3>2. /\ UNCHANGED <<row, conf>> /\ minted' = 0 /\ pc' \in {"down", "idle", "enroll"}
          /\ \/ stored' = [token |-> minted, conf |-> conf] /\ mem' \in {minted, mem, 0}
             \/ stored' = stored /\ mem' \in {mem, 0}
          /\ pc' = "down" => mem' = 0
      BY <2>5 DEF Save, Failed, Returned
    <3> QED
      BY <3>1, <3>2
  <2>6. CASE HeartbeatOnce
    BY <2>6 DEF HeartbeatOnce
  <2>7. CASE CheckEnrollmentSecret
    BY <2>7 DEF CheckEnrollmentSecret
  <2>8. CASE Caller
    BY <2>8 DEF Caller, CopyToken, SendCall
  <2>9. CASE Crash
    BY <2>9 DEF Crash, Stop
  <2>10. CASE Redeployed
    BY <2>10 DEF Redeployed, Stop
  <2>11. CASE Rotate \/ Unmount \/ Mount
    BY <2>11 DEF Rotate, Unmount, Mount
  <2>12. CASE Revoke
    BY <2>12 DEF Revoke
  <2>13. CASE UNCHANGED vars
    BY <2>13 DEF vars
  <2> QED
    BY <2>1, <2>2, <2>3, <2>4, <2>5, <2>6, <2>7, <2>8, <2>9, <2>10, <2>11, <2>12,
       <2>13 DEF Next, Goroutine, Environment
<1> QED
  BY <1>1, <1>2, RegistrationTypes, PTL DEF Spec

\* loadOrRegister and register: while Convex honours the token in use, its
\* fleet entry describes the running process.
THEOREM FleetIsCurrent == Spec => []ServingMatchesFleet
<1>1. RegistrationInv => ServingMatchesFleet
  BY DEF RegistrationInv
<1> QED
  BY <1>1, RegistrationInvariant, PTL

\* register's order of Save and setTokens: the tokens in use are on record.
THEOREM TokensArePersisted == Spec => []PersistedFirst
<1>1. RegistrationInv => PersistedFirst
  BY DEF RegistrationInv, PersistedFirst
<1> QED
  BY <1>1, RegistrationInvariant, PTL
================================================================================
