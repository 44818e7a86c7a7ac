------------------------- MODULE OperatorRegistration -------------------------
(***************************************************************************)
(* How an operator process gets and keeps its pair of tokens: Runnable's   *)
(* Start, loadOrRegister, register, heartbeatOnce and                      *)
(* checkEnrollmentSecret, the token Secret (tokenstore), the mounted       *)
(* enrollment secret, and the calls other goroutines make with the token   *)
(* they copy out of Runnable.  Token pairs, enrollment secrets and         *)
(* configurations (catalog hash, version and tags) are numbered; 0 stands  *)
(* for none.  What the heartbeat's claimable work leads to is modelled in  *)
(* ClaimLoop and PendingOperations.                                        *)
(***************************************************************************)
EXTENDS Integers

CONSTANTS Configs,      \* configurations the process may be deployed with
          MaxFaults,    \* lost calls or answers, crashes, revocations
          MaxChanges    \* secret rotations and redeployments of the operator

ASSUME ConfigsAssumption == Configs \subseteq Nat
ASSUME LimitsAssumption == MaxFaults \in Nat /\ MaxChanges \in Nat

VARIABLES
  accepted,  \* the enrollment secret Convex accepts
  mounted,   \* the value in the mounted volume
  row,       \* Convex's row of this operator: what registered it last
  stored,    \* the token Secret
  conf,      \* the running (or next) process's configuration
  secret,    \* Client.config.EnrollmentSecret
  mem,       \* Runnable.tokens
  pc,        \* control point of the Runnable's goroutine
  from,      \* who called register
  minted,    \* the pair register has got and not yet saved
  call,      \* the token another goroutine's call carries, -1 when none
  refused,   \* that goroutine's last call was refused
  faults, changes

convexVars == <<accepted, mounted, row>>
procVars == <<conf, secret, mem, pc, from, minted>>
callVars == <<call, refused>>
budget == <<faults, changes>>
vars == <<convexVars, stored, procVars, callVars, budget>>

Fault == faults > 0 /\ faults' = faults - 1 /\ UNCHANGED changes
NoFault == UNCHANGED budget
Change == changes > 0 /\ changes' = changes - 1 /\ UNCHANGED faults

Init ==
  /\ accepted = 1 /\ mounted = 1
  /\ row = [token |-> 0, conf |-> 0, secret |-> 0, valid |-> FALSE]
  /\ stored = [token |-> 0, conf |-> 0]
  /\ conf \in Configs
  /\ secret = 1 /\ mem = 0 /\ pc = "down" /\ from = "start" /\ minted = 0
  /\ call = -1 /\ refused = FALSE
  /\ faults = MaxFaults /\ changes = MaxChanges

TypeOK ==
  /\ accepted \in Nat \ {0} /\ mounted \in Nat
  /\ row \in [token : Nat, conf : Nat, secret : Nat, valid : BOOLEAN]
  /\ stored \in [token : Nat, conf : Nat]
  /\ conf \in Configs /\ secret \in Nat \ {0} /\ mem \in Nat
  /\ pc \in {"down", "load", "validate", "register", "save", "idle", "enroll"}
  /\ from \in {"start", "beat", "enroll"} /\ minted \in Nat
  /\ call \in Int /\ refused \in BOOLEAN
  /\ faults \in Nat /\ changes \in Nat

\* Convex accepts one heartbeat token per operator, the last one it minted.
Authorized(token) == token # 0 /\ token = row.token /\ row.valid

\* The deploy API lets a caller in who presents the deploy token of the pair in
\* use; without a pair it lets nobody in.
requireDeployToken(presented) == presented # 0 /\ mem # 0 /\ presented = mem
--------------------------------------------------------------------------------
\* setupConvexIntegration: no process starts without a readable, non-empty
\* enrollment secret.
Boot ==
  /\ pc = "down" /\ mounted # 0
  /\ secret' = mounted /\ pc' = "load" /\ from' = "start"
  /\ UNCHANGED <<convexVars, stored, conf, mem, minted, callVars, budget>>

\* loadOrRegister: a missing, incomplete or unreadable Secret means a fresh
\* registration.
Load ==
  /\ pc = "load"
  /\ \/ pc' = (IF stored.token = 0 THEN "register" ELSE "validate") /\ NoFault
     \/ pc' = "register" /\ Fault
  /\ UNCHANGED <<convexVars, stored, conf, secret, mem, from, minted, callVars>>

\* Mutant: a token that still works is reused whatever it was issued for.
ValidateTokenOnly ==
  /\ pc = "validate"
  /\ \/ /\ Authorized(stored.token) /\ NoFault
        /\ mem' = stored.token /\ pc' = "idle"
     \/ /\ ~Authorized(stored.token) /\ NoFault
        /\ pc' = "register" /\ UNCHANGED mem
     \/ /\ Fault
        /\ pc' = "register" /\ UNCHANGED mem
  /\ UNCHANGED <<convexVars, stored, conf, secret, from, minted, callVars>>

\* ... and so does a token Convex rejects, or one issued to a process with
\* another catalog, version or set of tags.
Validate ==
  /\ pc = "validate"
  /\ \/ /\ Authorized(stored.token) /\ stored.conf = conf /\ NoFault
        /\ mem' = stored.token /\ pc' = "idle"
     \/ /\ ~Authorized(stored.token) \/ stored.conf # conf
        /\ NoFault
        /\ pc' = "register" /\ UNCHANGED mem
     \/ /\ Fault
        /\ pc' = "register" /\ UNCHANGED mem
  /\ UNCHANGED <<convexVars, stored, conf, secret, from, minted, callVars>>

\* Where register returns to.  Start hands its error to the manager, which
\* ends the process; the two callers of the tick only log it.
Returned == pc' = IF from = "beat" THEN "enroll" ELSE "idle"

Failed ==
  /\ minted' = 0
  /\ \/ from = "start" /\ pc' = "down" /\ mem' = 0 /\ call' = -1
     \/ from # "start" /\ Returned /\ UNCHANGED <<mem, call>>

Minted ==
  row' = [token |-> row.token + 1, conf |-> conf, secret |-> secret, valid |-> TRUE]

\* Client.Register, with the enrollment secret the client holds.
Register ==
  /\ pc = "register"
  /\ \/ /\ secret = accepted /\ NoFault
        /\ Minted /\ minted' = row.token + 1
        /\ pc' = "save" /\ UNCHANGED <<mem, call>>
     \/ secret # accepted /\ NoFault /\ UNCHANGED row /\ Failed
     \/ secret = accepted /\ Fault /\ Minted /\ Failed
     \/ Fault /\ UNCHANGED row /\ Failed
  /\ UNCHANGED <<accepted, mounted, stored, conf, secret, from, refused>>

\* Mutant: the tokens are installed whether or not they could be saved.
SaveUnchecked ==
  LET saved == [token |-> minted, conf |-> conf] IN
  /\ pc = "save"
  /\ \/ stored' = saved /\ NoFault
     \/ stored' \in {stored, saved} /\ Fault
  /\ mem' = minted /\ minted' = 0 /\ Returned
  /\ UNCHANGED <<convexVars, conf, secret, from, callVars>>

\* Store.Save, then setTokens.
Save ==
  LET saved == [token |-> minted, conf |-> conf] IN
  /\ pc = "save"
  /\ \/ /\ stored' = saved /\ NoFault
        /\ mem' = minted /\ minted' = 0 /\ Returned /\ UNCHANGED call
     \/ stored' \in {stored, saved} /\ Fault /\ Failed
  /\ UNCHANGED <<convexVars, conf, secret, from, refused>>

\* Mutant: a rejected token is logged like any other failed heartbeat.
HeartbeatOnceGivesUp ==
  /\ pc = "idle"
  /\ pc' = "enroll" /\ UNCHANGED from
  /\ NoFault \/ Fault
  /\ UNCHANGED <<convexVars, stored, conf, secret, mem, minted, callVars>>

\* One tick: heartbeatOnce, which registers again only on 401 or 410, ...
HeartbeatOnce ==
  /\ pc = "idle"
  /\ \/ Authorized(mem) /\ NoFault /\ pc' = "enroll" /\ UNCHANGED from
     \/ ~Authorized(mem) /\ NoFault /\ pc' = "register" /\ from' = "beat"
     \/ Fault /\ pc' = "enroll" /\ UNCHANGED from
  /\ UNCHANGED <<convexVars, stored, conf, secret, mem, minted, callVars>>

\* Mutant: an empty secret file counts as a rotation.
CheckEnrollmentSecretAcceptsEmpty ==
  /\ pc = "enroll"
  /\ \/ mounted = secret /\ pc' = "idle" /\ UNCHANGED <<secret, from>>
     \/ /\ mounted # secret
        /\ secret' = mounted /\ pc' = "register" /\ from' = "enroll"
  /\ UNCHANGED <<convexVars, stored, conf, mem, minted, callVars, budget>>

\* ... then checkEnrollmentSecret.
CheckEnrollmentSecret ==
  /\ pc = "enroll"
  /\ \/ mounted \in {0, secret} /\ pc' = "idle" /\ UNCHANGED <<secret, from>>
     \/ /\ mounted \notin {0, secret}
        /\ secret' = mounted /\ pc' = "register" /\ from' = "enroll"
  /\ UNCHANGED <<convexVars, stored, conf, mem, minted, callVars, budget>>

\* The reconciler, the metrics reporter and the gateway copy the heartbeat
\* token under the lock and send their request after releasing it.
CopyToken ==
  /\ pc # "down" /\ call = -1
  /\ call' = mem
  /\ UNCHANGED <<convexVars, stored, procVars, refused, budget>>

SendCall ==
  /\ call # -1
  /\ call' = -1
  /\ \/ refused' = ~Authorized(call) /\ NoFault
     \/ refused' = TRUE /\ Fault
  /\ UNCHANGED <<convexVars, stored, procVars>>
--------------------------------------------------------------------------------
\* The process ends: it is killed, or redeployed with another configuration.
Stop == pc' = "down" /\ mem' = 0 /\ minted' = 0 /\ call' = -1

Crash ==
  /\ pc # "down" /\ Fault /\ Stop
  /\ UNCHANGED <<convexVars, stored, conf, secret, from, refused>>

Redeployed ==
  /\ Change /\ Stop
  /\ conf' \in Configs \ {conf}
  /\ UNCHANGED <<convexVars, stored, secret, from, refused>>

\* An administrator rotates the secret, in Convex first; the mounted volume
\* follows, and may be empty in between.
Rotate ==
  /\ Change
  /\ accepted' = accepted + 1
  /\ UNCHANGED <<mounted, row, stored, procVars, callVars>>

Unmount ==
  /\ Fault /\ mounted' = 0
  /\ UNCHANGED <<accepted, row, stored, procVars, callVars>>

Mount ==
  /\ mounted # accepted /\ mounted' = accepted
  /\ UNCHANGED <<accepted, row, stored, procVars, callVars, budget>>

\* Convex withdraws the token (401 or 410 from then on).
Revoke ==
  /\ row.valid /\ Fault
  /\ row' = [row EXCEPT !.valid = FALSE]
  /\ UNCHANGED <<accepted, mounted, stored, procVars, callVars>>

Goroutine ==
  \/ Boot \/ Load \/ Validate \/ Register \/ Save \/ HeartbeatOnce
  \/ CheckEnrollmentSecret
Caller == CopyToken \/ SendCall
Environment == Crash \/ Redeployed \/ Rotate \/ Unmount \/ Mount \/ Revoke

Next == Goroutine \/ Caller \/ Environment

Spec == Init /\ [][Next]_vars

\* The ticker and the other goroutines keep running, a container that ended is
\* restarted, and the kubelet brings the volume up to date.
LiveSpec == Spec /\ WF_vars(Goroutine) /\ WF_vars(Caller) /\ WF_vars(Mount)
--------------------------------------------------------------------------------
\* register saves before it installs: the tokens in use survive a restart
\* unless Convex has already replaced them by newer ones.
PersistedFirst == mem <= stored.token

\* loadOrRegister's three comparisons: while Convex honours the token in use,
\* its fleet entry describes this process's catalog, version and tags, also
\* after roll-backs and registrations whose answer or Save was lost.
ServingMatchesFleet == (mem # 0 /\ mem = row.token) => row.conf = conf

\* What makes ServingMatchesFleet inductive: the same holds of the stored pair
\* and of the pair being saved, and nothing is newer than Convex's row.
RegistrationInv ==
  /\ mem <= stored.token /\ stored.token <= row.token
  /\ ServingMatchesFleet
  /\ stored.token = row.token => stored.conf = row.conf
  /\ minted # 0 => minted = row.token /\ stored.token < minted /\ row.conf = conf
  /\ pc = "save" <=> minted # 0
  /\ pc = "down" => mem = 0

\* Whatever was lost on the way, the operator ends up with the pair Convex
\* minted last: its calls are authorized, and the deploy API lets Convex in with
\* the deploy token it has on record.
TokensConverge == <>[](Authorized(mem) /\ requireDeployToken(row.token))

\* A reconcile, metrics or gateway call refused for a stale or missing token
\* gets through later, since the heartbeat brings a new one.
RefusedCallsRecover == refused ~> ~refused

\* docs/production-deploy.md: "if you rotate ENROLLMENT_SECRET later ... the
\* operator picks up the new value and re-registers on its own".
RotationReregisters ==
  (pc = "register" /\ from = "enroll") ~> (row.secret = secret)
================================================================================
