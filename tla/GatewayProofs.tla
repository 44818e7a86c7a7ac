----------------------------- MODULE GatewayProofs ------------------------------
(***************************************************************************)
(* Proofs about GatewaySession, for any number of processes, browsers,     *)
(* workloads, tokens and keys: the processes that serve agree on the key,  *)
(* sessions survive restarts, and a request is admitted only on a session  *)
(* that this browser obtained for that workload.                           *)
(***************************************************************************)
EXTENDS GatewaySession, TLAPS

\* A budget that pays for a fault, or is left alone, stays a budget.
LEMMA FaultTypes ==
  ASSUME faults \in 0..MaxFaults, Fault \/ NoFault
  PROVE  faults' \in 0..MaxFaults
BY GatewayAssumption DEF Fault, NoFault

\* What a browser may be left with: the page of an answer, a request that
\* goes on, a cookie that was just signed.
LEMMA UserTypes ==
  /\ \A n \in Names, k \in Kinds : [kind |-> k, name |-> n] \in Pages
  /\ \A at \in {"exchange", "workload", "service"}, p \in Processes, n \in Names,
        t \in Tokens \cup {NoToken} :
       [at |-> at, by |-> p, name |-> n, token |-> t] \in Reqs
  /\ NoReq \in Reqs /\ NoPage \in Pages /\ NoCookie \in Cookies
  /\ \A k \in Keys, n \in Names, c \in 0..MaxClock :
       [key |-> k, name |-> n, exp |-> c + TTL] \in Cookies
BY GatewayAssumption DEF Pages, Reqs, Cookies

\* A request in flight names its process and its workload.
LEMMA ReqFields ==
  ASSUME NEW r \in Reqs, r # NoReq
  PROVE  /\ r.at \in {"exchange", "workload", "service"}
         /\ r.by \in Processes /\ r.name \in Names
         /\ r.token \in Tokens \cup {NoToken}
BY DEF Reqs

\* A request under way is not the absent one.
LEMMA ReqAt ==
  ASSUME NEW r \in Reqs, r.at \in {"exchange", "workload", "service"}
  PROVE  r # NoReq
BY DEF NoReq

\* A cookie a browser holds has a key, a scope and an expiry.
LEMMA CookieFields ==
  ASSUME NEW c \in Cookies, c # NoCookie
  PROVE  c.key \in Keys /\ c.name \in Names /\ c.exp \in 0..(MaxClock + TTL)
BY DEF Cookies

\* Changing one entry of a table of browsers and names.
LEMMA EntryTypes ==
  ASSUME NEW S, NEW f \in [Browsers -> [Names -> S]],
         NEW b \in Browsers, NEW n \in Names, NEW x \in S
  PROVE  [f EXCEPT ![b][n] = x] \in [Browsers -> [Names -> S]]
OBVIOUS

\* A phase has a page.
LEMMA PhasePages == \A ph : PageOfPhase(ph) \in Kinds
BY DEF PageOfPhase, Kinds, Refreshing

\* The invariant of the proofs.
GInv == TypeOK /\ SessionInv

\* The invariant holds before the first boot.
LEMMA GInvInit == Init => GInv
<1> SUFFICES ASSUME Init PROVE GInv
  OBVIOUS
<1>1. -1 \in -1..MaxClock
  BY GatewayAssumption
<1>2. TypeOK
  BY <1>1, UserTypes, GatewayAssumption DEF Init, TypeOK, Phases
<1>3. SessionInv
  BY DEF Init, SessionInv, KeysAgree, NoReq
<1> QED
  BY <1>2, <1>3 DEF GInv

\* The steps of LoadOrGenerate.  Whatever p returns with is the stored key,
\* and once there is a stored key nobody writes another.
LEMMA BootStep ==
  ASSUME GInv, NEW p \in Processes, LoadOrGenerate(p)
  PROVE  GInv'
<1> USE DEF GInv
<1>1. UNCHANGED <<userVars, worldVars>>
  BY DEF LoadOrGenerate, GetKey, CreateKey, RereadKey
<1>2. faults' \in 0..MaxFaults
  BY FaultTypes DEF LoadOrGenerate, GetKey, CreateKey, RereadKey, TypeOK
<1>3. /\ secret' \in Keys \cup {Absent, Empty}
      /\ boot' \in [Processes -> {"get", "create", "reread", "serving"}]
      /\ key' \in [Processes -> Keys \cup {NoKey}]
  <2>1. CASE GetKey(p)
    <3>1. secret' \in Keys \cup {Absent, Empty}
      BY <2>1 DEF GetKey, TypeOK
    <3>2. \E b \in {"get", "create", "serving"}, k \in Keys \cup {NoKey} :
            boot' = [boot EXCEPT ![p] = b] /\ key' = [key EXCEPT ![p] = k]
      <4>1. \/ secret \in Keys /\ Serve(p, secret)
            \/ \E k \in Keys : /\ key' = [key EXCEPT ![p] = k]
                             /\ boot' = [boot EXCEPT ![p] = "create"]
            \/ BootFails(p)
        BY <2>1 DEF GetKey, Fresh
      <4> QED
        BY <4>1 DEF Serve, BootFails
    <3> QED
      BY <3>1, <3>2 DEF TypeOK
  <2>2. CASE CreateKey(p)
    BY <2>2 DEF CreateKey, Serve, BootFails, TypeOK, SessionInv
  <2>3. CASE RereadKey(p)
    BY <2>3 DEF RereadKey, Serve, BootFails, TypeOK
  <2> QED
    BY <2>1, <2>2, <2>3 DEF LoadOrGenerate
<1>4. secret \in Keys => secret' = secret
  BY GatewayAssumption DEF LoadOrGenerate, GetKey, CreateKey, RereadKey
<1>5. /\ \A q \in Processes \ {p} : boot'[q] = boot[q] /\ key'[q] = key[q]
      /\ boot'[p] = "serving" => key'[p] = secret' /\ secret' \in Keys
      /\ boot'[p] \in {"create", "reread"} => key'[p] \in Keys
      /\ boot[p] # "serving"
  <2>1. CASE GetKey(p)
    BY <2>1 DEF GetKey, Serve, BootFails, Fresh, TypeOK
  <2>2. CASE CreateKey(p)
    BY <2>2 DEF CreateKey, Serve, BootFails, TypeOK, SessionInv
  <2>3. CASE RereadKey(p)
    BY <2>3 DEF RereadKey, Serve, BootFails, TypeOK
  <2> QED
    BY <2>1, <2>2, <2>3 DEF LoadOrGenerate
<1>6. TypeOK'
  BY <1>1, <1>2, <1>3 DEF TypeOK, userVars, worldVars
<1>7. KeysAgree'
  BY <1>4, <1>5 DEF SessionInv, KeysAgree
<1>8. \A b \in Browsers, n \in Names : jar[b][n] # NoCookie => jar[b][n].key = secret'
  BY <1>4, CookieFields DEF SessionInv, TypeOK
<1>9. \A b \in Browsers : req[b] # NoReq => boot'[req[b].by] = "serving"
  BY <1>5, ReqFields DEF SessionInv, TypeOK
<1> QED
  BY <1>1, <1>5, <1>6, <1>7, <1>8, <1>9 DEF SessionInv, userVars

\* A restart forgets the key and the requests of its process only.
LEMMA RestartStep ==
  ASSUME GInv, NEW p \in Processes, Restart(p)
  PROVE  GInv'
<1> USE DEF GInv
<1>1. faults' \in 0..MaxFaults
  BY FaultTypes DEF Restart, TypeOK
<1>2. /\ boot' = [boot EXCEPT ![p] = "get"]
      /\ key' = [key EXCEPT ![p] = NoKey]
      /\ UNCHANGED <<secret, used, jar, grant, wl, svc, clock, changes>>
  BY DEF Restart, BootFails, worldVars
<1>3. /\ req' \in [Browsers -> Reqs]
      /\ \A b \in Browsers : req'[b] = IF ServedBy(b, p) THEN NoReq ELSE req[b]
  BY UserTypes DEF Restart, TypeOK
<1>4. page' \in [Browsers -> Pages]
  <2>1. "error" \in Kinds
    BY DEF Kinds
  <2>2. \A b \in Browsers : ServedBy(b, p) => req[b].name \in Names
    BY ReqFields DEF ServedBy, TypeOK
  <2> QED
    BY <2>1, <2>2, UserTypes DEF Restart, TypeOK
<1>5. TypeOK'
  BY <1>1, <1>2, <1>3, <1>4 DEF TypeOK
<1>6. KeysAgree' /\ \A q \in Processes : boot'[q] \in {"create", "reread"} => key'[q] \in Keys
  BY <1>2 DEF SessionInv, KeysAgree, TypeOK
<1>7. \A b \in Browsers : req'[b] # NoReq => boot'[req'[b].by] = "serving"
  <2> SUFFICES ASSUME NEW b \in Browsers, req'[b] # NoReq
               PROVE  boot'[req'[b].by] = "serving"
    OBVIOUS
  <2>1. req'[b] = req[b] /\ req[b].by # p
    BY <1>3 DEF ServedBy
  <2> QED
    BY <2>1, <1>2, ReqFields DEF SessionInv, TypeOK
<1>8. \A b \in Browsers : req'[b].at = "exchange" => req'[b].token \in Tokens
  BY <1>3 DEF SessionInv, NoReq
<1> QED
  BY <1>2, <1>5, <1>6, <1>7, <1>8 DEF SessionInv

\* The steps that change only the request and the page of one browser, and
\* possibly pay for a fault.
BrowserStep(b) ==
  /\ UNCHANGED <<keyVars, used, jar, grant, worldVars>>
  /\ Fault \/ NoFault
  /\ \E r \in Reqs :
       /\ req' = [req EXCEPT ![b] = r]
       /\ r # NoReq => boot[r.by] = "serving"
       /\ r.at = "exchange" => r.token \in Tokens
  /\ page' = page \/ \E q \in Pages : page' = [page EXCEPT ![b] = q]

\* Steps of this kind keep the invariant.
LEMMA BrowserStepKeeps ==
  ASSUME GInv, NEW b \in Browsers, BrowserStep(b)
  PROVE  GInv'
<1> USE DEF GInv
<1>1. faults' \in 0..MaxFaults
  BY FaultTypes DEF BrowserStep, TypeOK
<1>2. UNCHANGED <<secret, boot, key, used, jar, grant, wl, svc, clock, changes>>
  BY DEF BrowserStep, keyVars, worldVars
<1>3. PICK r \in Reqs : /\ req' = [req EXCEPT ![b] = r]
                        /\ r # NoReq => boot[r.by] = "serving"
                        /\ r.at = "exchange" => r.token \in Tokens
  BY DEF BrowserStep
<1>4. page' \in [Browsers -> Pages]
  BY DEF BrowserStep, TypeOK
<1>5. /\ req' \in [Browsers -> Reqs]
      /\ \A c \in Browsers : req'[c] = IF c = b THEN r ELSE req[c]
  BY <1>3 DEF TypeOK
<1>6. TypeOK'
  BY <1>1, <1>2, <1>4, <1>5 DEF TypeOK
<1> QED
  BY <1>2, <1>3, <1>5, <1>6 DEF SessionInv, KeysAgree

\* Opening a page and resolving it are such steps.
LEMMA OpenPlainStep ==
  ASSUME GInv, NEW b \in Browsers, NEW p \in Processes, NEW n \in Names,
         OpenPlain(b, p, n)
  PROVE  BrowserStep(b)
<1>1. NoReq.at # "exchange" /\ "unauthenticated" \in Kinds
  BY DEF NoReq, Kinds
<1>2. boot[p] = "serving" /\ NoFault /\ UNCHANGED <<keyVars, used, jar, grant, worldVars>>
  BY DEF OpenPlain, NoFault
<1>3. CASE Pass(b, p, n, NoToken, "workload")
  <2> DEFINE r == [at |-> "workload", by |-> p, name |-> n, token |-> NoToken]
  <2>1. r \in Reqs /\ r.by = p /\ r.at = "workload"
    BY UserTypes
  <2>2. req' = [req EXCEPT ![b] = r] /\ page' = page
    BY <1>3 DEF Pass
  <2> HIDE DEF r
  <2> QED
    BY <1>2, <2>1, <2>2 DEF BrowserStep
<1>4. CASE Show(b, n, "unauthenticated")
  BY <1>1, <1>2, <1>4, UserTypes DEF Show, BrowserStep
<1> QED
  BY <1>3, <1>4 DEF OpenPlain

\* Opening a link only starts a request.
LEMMA OpenWithTokenStep ==
  ASSUME GInv, NEW b \in Browsers, NEW p \in Processes, NEW n \in Names,
         NEW t \in Tokens, OpenWithToken(b, p, n, t)
  PROVE  BrowserStep(b)
<1> DEFINE r == [at |-> "exchange", by |-> p, name |-> n, token |-> t]
<1>1. r \in Reqs /\ r.by = p /\ r.token \in Tokens
  BY UserTypes
<1>2. /\ boot[p] = "serving" /\ NoFault
      /\ req' = [req EXCEPT ![b] = r] /\ page' = page
      /\ UNCHANGED <<keyVars, used, jar, grant, worldVars>>
  BY DEF OpenWithToken, NoFault, Pass
<1> HIDE DEF r
<1> QED
  BY <1>1, <1>2 DEF BrowserStep

\* Answering b's request about n with a page is such a step.
LEMMA ShowStep ==
  ASSUME NEW b \in Browsers, NEW n \in Names, NEW k \in Kinds, Show(b, n, k),
         UNCHANGED <<keyVars, used, jar, grant, worldVars>>, Fault \/ NoFault
  PROVE  BrowserStep(b)
<1>1. NoReq.at # "exchange" /\ NoReq \in Reqs /\ [kind |-> k, name |-> n] \in Pages
  BY UserTypes DEF NoReq
<1> QED
  BY <1>1 DEF Show, BrowserStep

\* The phase switch and the Service lookup only move the request on.
LEMMA ResolveStep ==
  ASSUME GInv, NEW b \in Browsers, ResolveWorkload(b) \/ ResolveService(b)
  PROVE  BrowserStep(b)
<1> DEFINE n == req[b].name
<1>1. /\ req[b] \in Reqs /\ req[b] # NoReq /\ n \in Names
      /\ req[b].by \in Processes /\ req[b].token \in Tokens \cup {NoToken}
      /\ boot[req[b].by] = "serving"
  BY ReqAt, ReqFields DEF ResolveWorkload, ResolveService, GInv, TypeOK, SessionInv
<1>2. UNCHANGED <<keyVars, used, jar, grant, worldVars>> /\ (Fault \/ NoFault)
  BY DEF ResolveWorkload, ResolveService
<1>3. {"error", "app"} \subseteq Kinds
  BY DEF Kinds
<1>4. CASE req' = [req EXCEPT ![b].at = "service"] /\ UNCHANGED page
  <2> DEFINE r == [req[b] EXCEPT !.at = "service"]
  <2>1. r \in Reqs /\ r.by = req[b].by /\ r.at # "exchange"
    BY <1>1 DEF Reqs
  <2>2. req' = [req EXCEPT ![b] = r]
    BY <1>4 DEF GInv, TypeOK
  <2> HIDE DEF r
  <2> QED
    BY <1>1, <1>2, <1>4, <2>1, <2>2 DEF BrowserStep
<1>5. CASE \E k \in Kinds : Show(b, n, k)
  BY <1>1, <1>2, <1>5, ShowStep
<1> QED
  BY <1>3, <1>4, <1>5, PhasePages DEF ResolveWorkload, ResolveService

\* An exchange either is such a step, with the token consumed perhaps, or
\* signs a cookie with the key all serving processes share.
LEMMA ExchangeStep ==
  ASSUME GInv, NEW b \in Browsers, Exchange(b)
  PROVE  GInv'
<1> DEFINE p == req[b].by
           n == req[b].name
           t == req[b].token
<1>1. /\ p \in Processes /\ n \in Names /\ t \in Tokens
      /\ boot[p] = "serving" /\ key[p] = secret /\ secret \in Keys
  BY ReqAt, ReqFields DEF Exchange, GInv, TypeOK, SessionInv, KeysAgree
<1>2. UNCHANGED <<secret, boot, key, wl, svc, clock, changes>> /\ (Fault \/ NoFault)
  BY DEF Exchange, keyVars, worldVars
<1>3. used' \subseteq Tokens
  BY <1>1 DEF Exchange, GInv, TypeOK
<1>4. PICK k \in Kinds : Show(b, n, k)
  BY DEF Exchange, Kinds, Refreshing
<1>5. /\ req' \in [Browsers -> Reqs] /\ page' \in [Browsers -> Pages]
      /\ \A c \in Browsers : req'[c] = IF c = b THEN NoReq ELSE req[c]
  BY <1>1, <1>4, UserTypes DEF Show, GInv, TypeOK
<1>6. faults' \in 0..MaxFaults
  BY <1>2, FaultTypes DEF GInv, TypeOK
<1> DEFINE cookie == Sign(p, n)
<1>7. /\ cookie \in Cookies /\ cookie.key = secret /\ cookie.name = n
      /\ cookie.exp = clock + TTL /\ clock \in 0..MaxClock
  BY <1>1, UserTypes DEF Sign, GInv, TypeOK
<1>8. \/ UNCHANGED <<jar, grant>>
      \/ /\ jar' = [jar EXCEPT ![b][n] = cookie]
         /\ grant' = [grant EXCEPT ![b][n] = clock]
  BY DEF Exchange
<1> HIDE DEF cookie
<1>9. /\ jar' \in [Browsers -> [Names -> Cookies]]
      /\ grant' \in [Browsers -> [Names -> -1..MaxClock]]
  <2>1. clock \in -1..MaxClock
    BY <1>7, GatewayAssumption
  <2>2. [jar EXCEPT ![b][n] = cookie] \in [Browsers -> [Names -> Cookies]]
    BY <1>1, <1>7, EntryTypes DEF GInv, TypeOK
  <2>3. [grant EXCEPT ![b][n] = clock] \in [Browsers -> [Names -> -1..MaxClock]]
    BY <1>1, <2>1, EntryTypes DEF GInv, TypeOK
  <2> QED
    BY <1>8, <2>2, <2>3 DEF GInv, TypeOK
<1>10. TypeOK'
  BY <1>2, <1>3, <1>5, <1>6, <1>9 DEF GInv, TypeOK
<1>11. \A c \in Browsers, m \in Names : jar'[c][m] # NoCookie =>
         /\ jar'[c][m].key = secret'
         /\ jar'[c][m].name = m
         /\ grant'[c][m] >= 0
         /\ jar'[c][m].exp = grant'[c][m] + TTL
  <2>1. CASE UNCHANGED <<jar, grant>>
    BY <2>1, <1>2 DEF GInv, SessionInv
  <2>2. CASE /\ jar' = [jar EXCEPT ![b][n] = cookie]
             /\ grant' = [grant EXCEPT ![b][n] = clock]
    <3>1. \A c \in Browsers, m \in Names :
            \/ c = b /\ m = n /\ jar'[c][m] = cookie /\ grant'[c][m] = clock
            \/ jar'[c][m] = jar[c][m] /\ grant'[c][m] = grant[c][m]
      BY <2>2 DEF GInv, TypeOK
    <3> QED
      BY <3>1, <1>2, <1>7 DEF GInv, SessionInv
  <2> QED
    BY <1>8, <2>1, <2>2
<1>12. NoReq.at # "exchange"
  BY DEF NoReq
<1> QED
  BY <1>2, <1>5, <1>10, <1>11, <1>12 DEF GInv, SessionInv, KeysAgree

\* What goes on around the gateway only takes cookies away.
LEMMA WorldStep ==
  ASSUME GInv,
         \/ Tick
         \/ \E n \in Names : PhaseChanges(n)
         \/ \E b \in Browsers, n \in Names : CookieDropped(b, n)
  PROVE  GInv'
<1> USE DEF GInv
<1>1. CASE Tick
  <2>1. clock' \in 0..MaxClock
    BY <1>1, GatewayAssumption DEF Tick, TypeOK
  <2> QED
    BY <1>1, <2>1 DEF Tick, TypeOK, SessionInv, KeysAgree, keyVars, userVars
<1>2. ASSUME NEW n \in Names, PhaseChanges(n)
      PROVE  GInv'
  <2>1. UNCHANGED <<secret, boot, key, used, jar, req, page, grant, clock, faults>>
    BY <1>2 DEF PhaseChanges, keyVars, userVars
  <2>2. changes' \in 0..MaxChanges
    BY <1>2, GatewayAssumption DEF PhaseChanges, TypeOK
  <2>3. wl' \in [Names -> Phases]
    BY <1>2 DEF PhaseChanges, TypeOK
  <2>4. svc' \in [Names -> BOOLEAN]
    BY <1>2 DEF PhaseChanges, TypeOK
  <2> QED
    BY <2>1, <2>2, <2>3, <2>4 DEF TypeOK, SessionInv, KeysAgree
<1>3. ASSUME NEW b \in Browsers, NEW n \in Names, CookieDropped(b, n)
      PROVE  GInv'
  <2>1. UNCHANGED <<secret, boot, key, used, req, page, grant, wl, svc, clock, changes, faults>>
    BY <1>3 DEF CookieDropped, keyVars, worldVars
  <2>2. jar' = [jar EXCEPT ![b][n] = NoCookie]
    BY <1>3 DEF CookieDropped
  <2>3. jar' \in [Browsers -> [Names -> Cookies]]
    BY <2>2, UserTypes, EntryTypes DEF TypeOK
  <2>4. \A c \in Browsers, m \in Names : jar'[c][m] = jar[c][m] \/ jar'[c][m] = NoCookie
    BY <2>2 DEF TypeOK
  <2>5. TypeOK'
    BY <2>1, <2>3 DEF TypeOK
  <2> QED
    BY <2>1, <2>4, <2>5 DEF SessionInv, KeysAgree
<1> QED
  BY <1>1, <1>2, <1>3

\* Every step keeps the invariant.
LEMMA GInvNext ==
  ASSUME GInv, [Next]_vars
  PROVE  GInv'
<1>1. ASSUME NEW p \in Processes, LoadOrGenerate(p) \/ Restart(p)
      PROVE  GInv'
  BY <1>1, BootStep, RestartStep
<1>2. ASSUME NEW b \in Browsers, Handle(b)
      PROVE  GInv'
  BY <1>2, ExchangeStep, ResolveStep, BrowserStepKeeps DEF Handle
<1>3. ASSUME NEW b \in Browsers, NEW p \in Processes, User(b, p) \/ Refresh(b, p)
      PROVE  GInv'
  <2>1. ASSUME NEW n \in Names, OpenPlain(b, p, n)
        PROVE  GInv'
    BY <2>1, OpenPlainStep, BrowserStepKeeps
  <2>2. ASSUME NEW n \in Names, NEW t \in Tokens, OpenWithToken(b, p, n, t)
        PROVE  GInv'
    BY <2>2, OpenWithTokenStep, BrowserStepKeeps
  <2>3. ASSUME Refresh(b, p)
        PROVE  page[b].name \in Names
    BY <2>3 DEF Refresh, GInv, TypeOK, Pages, NoPage, Refreshing
  <2> QED
    BY <1>3, <2>1, <2>2, <2>3 DEF User, Refresh
<1>4. CASE UNCHANGED vars
  BY <1>4 DEF vars, keyVars, userVars, worldVars, GInv, TypeOK, SessionInv, KeysAgree
<1> QED
  BY <1>1, <1>2, <1>3, <1>4, WorldStep DEF Next

\* Types and the session invariant hold of every behaviour of the gateway.
THEOREM SessionInvariant == Spec => [](TypeOK /\ SessionInv)
<1>1. Spec => []GInv
  BY GInvInit, GInvNext, PTL DEF Spec
<1> QED
  BY <1>1, PTL DEF GInv

\* Cookies, requests, pages and the stored key stay in their sets: a cookie
\* that a browser holds was signed with a key some process generated.
THEOREM GatewayTypes == Spec => []TypeOK
BY SessionInvariant, PTL

\* LoadOrGenerate: however many processes race, crash, retry and lose answers,
\* all that serve sign with the one stored key.
THEOREM KeysAlwaysAgree == Spec => []KeysAgree
<1>1. TypeOK /\ SessionInv => KeysAgree
  BY DEF SessionInv
<1> QED
  BY <1>1, SessionInvariant, PTL

\* A cookie verifies at every serving process until its time is over, whatever
\* restarts there were since it was signed.
THEOREM SessionsAlwaysSurvive == Spec => []SessionsSurvive
<1>1. TypeOK /\ SessionInv => SessionsSurvive
  BY DEF SessionInv, KeysAgree, SessionsSurvive, Verify
<1> QED
  BY <1>1, SessionInvariant, PTL

\* The only step that lets a request through to the workload is a plain
\* request with a cookie that verifies.
LEMMA AdmissionVerifies ==
  ASSUME GInv, [Next]_vars, NEW b \in Browsers,
         req[b].at # "workload", req'[b].at = "workload"
  PROVE  \E p \in Processes, n \in Names, m \in Names :
           boot[p] = "serving" /\ Verify(p, n, jar[b][m]) /\ req'[b].name = n
<1> USE DEF GInv
<1>0. req \in [Browsers -> Reqs] /\ NoReq.at # "workload"
  BY DEF TypeOK, NoReq
<1>1. ASSUME NEW p \in Processes, LoadOrGenerate(p) \/ Restart(p)
      PROVE  FALSE
  BY <1>0, <1>1 DEF LoadOrGenerate, GetKey, CreateKey, RereadKey, Restart, userVars
<1>2. ASSUME NEW c \in Browsers, Handle(c)
      PROVE  FALSE
  <2>1. CASE \E n, k : Show(c, n, k)
    BY <1>0, <2>1 DEF Show
  <2>2. CASE req' = [req EXCEPT ![c].at = "service"]
    <3>1. ASSUME c = b
          PROVE  req'[b].at = "service"
      <4>1. ResolveWorkload(c)
        BY <1>0, <1>2, <2>2, <3>1 DEF Handle, Exchange, ResolveService, Show
      <4> QED
        BY <1>0, <3>1, <4>1 DEF ResolveWorkload
    <3> QED
      BY <1>0, <2>2, <3>1
  <2> QED
    BY <1>2, <2>1, <2>2 DEF Handle, Exchange, ResolveWorkload, ResolveService
<1>3. ASSUME NEW c \in Browsers, NEW p \in Processes, NEW n \in Names, OpenPlain(c, p, n)
      PROVE  \E m \in Names : c = b /\ Verify(p, n, jar[b][m]) /\ req'[b].name = n
  <2>1. PICK m \in Names :
          \/ Verify(p, n, jar[c][m]) /\ Pass(c, p, n, NoToken, "workload")
          \/ ~Verify(p, n, jar[c][m]) /\ Show(c, n, "unauthenticated")
    BY <1>3 DEF OpenPlain
  <2>2. ~Show(c, n, "unauthenticated")
    BY <1>0 DEF Show
  <2>3. req' = [req EXCEPT ![c] = [at |-> "workload", by |-> p, name |-> n, token |-> NoToken]]
    BY <2>1, <2>2 DEF Pass
  <2>4. c = b /\ req'[b].name = n
    BY <1>0, <2>3
  <2> QED
    BY <2>1, <2>2, <2>4
<1>4. ASSUME NEW c \in Browsers, NEW p \in Processes, NEW n \in Names, NEW t \in Tokens,
             OpenWithToken(c, p, n, t)
      PROVE  FALSE
  BY <1>0, <1>4 DEF OpenWithToken, Pass
<1>5. ASSUME \/ Tick
             \/ \E n \in Names : PhaseChanges(n)
             \/ \E c \in Browsers, n \in Names : CookieDropped(c, n)
             \/ UNCHANGED vars
      PROVE  FALSE
  BY <1>5 DEF Tick, PhaseChanges, CookieDropped, vars, userVars
<1>6. ASSUME NEW c \in Browsers, NEW p \in Processes, Refresh(c, p)
      PROVE  page[c].name \in Names /\ OpenPlain(c, p, page[c].name)
  BY <1>6 DEF Refresh, TypeOK, Pages, NoPage, Refreshing
<1>7. PICK c \in Browsers, p \in Processes, n \in Names : OpenPlain(c, p, n)
  BY <1>1, <1>2, <1>4, <1>5, <1>6 DEF Next, User
<1>8. boot[p] = "serving"
  BY <1>7 DEF OpenPlain
<1> QED
  BY <1>3, <1>7, <1>8

\* requireGatewayToken admits a request only on a session that this browser
\* obtained for this workload, no longer ago than TTL plus the skew.
THEOREM AdmissionNeedsGrant == Spec => AdmittedByGrant
<1> DEFINE Granted(b, n) == grant[b][n] >= 0 /\ clock <= grant[b][n] + TTL + Skew
           Admitted == \A b \in Browsers :
             req[b].at # "workload" /\ req'[b].at = "workload" => Granted(b, req'[b].name)
<1>1. ASSUME GInv, [Next]_vars
      PROVE  Admitted
  <2> SUFFICES ASSUME NEW b \in Browsers,
                      req[b].at # "workload", req'[b].at = "workload"
               PROVE  Granted(b, req'[b].name)
    OBVIOUS
  <2>1. PICK p \in Processes, n \in Names, m \in Names :
          boot[p] = "serving" /\ Verify(p, n, jar[b][m]) /\ req'[b].name = n
    BY <1>1, AdmissionVerifies
  <2>2. jar[b][m] # NoCookie /\ jar[b][m].name = n /\ clock <= jar[b][m].exp + Skew
    BY <2>1 DEF Verify
  <2>3. m = n /\ grant[b][n] >= 0 /\ jar[b][m].exp = grant[b][n] + TTL
    BY <1>1, <2>2 DEF GInv, SessionInv
  <2> QED
    BY <2>1, <2>2, <2>3
<1>2. Spec => []GInv
  BY GInvInit, GInvNext, PTL DEF Spec
<1>3. [Next]_vars /\ GInv => [Admitted]_vars
  BY <1>1
<1> QED
  BY <1>2, <1>3, PTL DEF Spec, AdmittedByGrant

================================================================================
