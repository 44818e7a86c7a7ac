----------------------------- MODULE GatewaySession -----------------------------
(***************************************************************************)
(* The browser-facing gateway: the signing key every operator process      *)
(* loads or generates at boot (keystore.go, called from main before the    *)
(* leader election, so an old and a new process of a rollout race), the    *)
(* exchange of a one-time token for a signed session cookie and the cookie *)
(* fast path (requireGatewayToken, Sign, Verify), and the page or proxied  *)
(* answer of ServiceProxy.Handler.                                         *)
(***************************************************************************)
EXTENDS Integers

CONSTANTS
  Processes,    \* operator processes serving /gw/ (replicas, or a rollout's)
  Browsers,
  Names,        \* workload names
  Tokens,       \* one-time tokens Convex has minted
  Grantee,      \* Grantee[t]: the workload name t was minted for
  Keys,         \* signing keys rand.Read can return
  TTL,          \* gatewayCookieTTL
  Skew,         \* clockSkew
  MaxClock, MaxFaults, MaxChanges

\* Key values tell a Secret that is absent, one without signing key data,
\* and a process that holds none from real keys.
Absent == "absent"

Empty == "empty"

NoKey == "none"

NoToken == "none"

NoCookie == [key |-> NoKey]

ASSUME GatewayAssumption ==
  /\ Grantee \in [Tokens -> Names]
  /\ Keys \cap {Absent, Empty, NoKey} = {}
  /\ NoToken \notin Tokens
  /\ TTL \in Nat /\ Skew \in Nat
  /\ MaxClock \in Nat /\ MaxFaults \in Nat /\ MaxChanges \in Nat

VARIABLES
  secret,   \* the Secret KeySecretName: Absent, Empty or its key
  boot,     \* where each process is in LoadOrGenerate, or "serving"
  key,      \* the key a process has generated or returned
  used,     \* the tokens Convex has consumed
  jar,      \* jar[b][n]: the cookie browser b keeps for path /gw/n
  req,      \* the request each browser has in flight
  page,     \* what each browser shows
  wl,       \* the phase of each Workload, or "absent"
  svc,      \* whether its Service exists
  clock,
  grant,    \* history: when b last exchanged a token for n, -1 if never
  faults, changes

keyVars == <<secret, boot, key>>
userVars == <<used, jar, req, page, grant>>
worldVars == <<wl, svc, clock, changes>>
vars == <<keyVars, userVars, worldVars, faults>>

Cookies == [key : Keys, name : Names, exp : 0..(MaxClock + TTL)] \cup {NoCookie}

Phases == {"Deploying", "Running", "Stopped", "Failed", "absent"}

Refreshing == {"redirect", "loading", "failed"}

Kinds == Refreshing \cup {"app", "stopped", "notfound", "unauthenticated", "error"}

NoPage == [kind |-> "none"]

Pages == [kind : Kinds, name : Names] \cup {NoPage}

NoReq == [at |-> "none"]

Reqs == [at : {"exchange", "workload", "service"}, by : Processes, name : Names,
         token : Tokens \cup {NoToken}] \cup {NoReq}

Init ==
  /\ secret \in {Absent, Empty}
  /\ boot = [p \in Processes |-> "get"]
  /\ key = [p \in Processes |-> NoKey]
  /\ used = {}
  /\ jar = [b \in Browsers |-> [n \in Names |-> NoCookie]]
  /\ req = [b \in Browsers |-> NoReq]
  /\ page = [b \in Browsers |-> NoPage]
  /\ wl = [n \in Names |-> "Deploying"]
  /\ svc = [n \in Names |-> TRUE]
  /\ clock = 0
  /\ grant = [b \in Browsers |-> [n \in Names |-> -1]]
  /\ faults = MaxFaults
  /\ changes = MaxChanges

Fault == faults > 0 /\ faults' = faults - 1

NoFault == UNCHANGED faults

--------------------------------------------------------------------------------
(* KeyStore.LoadOrGenerate of process p.                                   *)

\* An error leaves main, and the kubelet starts the process again.
BootFails(p) ==
  /\ boot' = [boot EXCEPT ![p] = "get"]
  /\ key' = [key EXCEPT ![p] = NoKey]

Serve(p, k) ==
  /\ boot' = [boot EXCEPT ![p] = "serving"]
  /\ key' = [key EXCEPT ![p] = k]

\* rand.Read: never a key seen before.
Fresh ==
  {k \in Keys : /\ k # secret
                /\ \A p \in Processes : key[p] # k
                /\ \A b \in Browsers, n \in Names : jar[b][n].key # k}

GetKey(p) ==
  /\ boot[p] = "get"
  /\ \/ secret \in Keys /\ NoFault /\ Serve(p, secret)
     \/ /\ secret \notin Keys /\ NoFault
        /\ \E k \in Fresh : key' = [key EXCEPT ![p] = k]
        /\ boot' = [boot EXCEPT ![p] = "create"]
     \/ Fault /\ BootFails(p)
  /\ UNCHANGED <<secret, userVars, worldVars>>

\* Mutant: an existing Secret is overwritten with a fresh key.
CreateKeyOverwrites(p) ==
  /\ boot[p] = "create"
  /\ secret' = key[p] /\ NoFault /\ Serve(p, key[p])
  /\ UNCHANGED <<userVars, worldVars>>

\* Mutant: AlreadyExists is answered by another Create.
CreateKeyRetries(p) ==
  /\ boot[p] = "create"
  /\ secret = Absent /\ secret' = key[p] /\ NoFault /\ Serve(p, key[p])
  /\ UNCHANGED <<userVars, worldVars>>

\* The Create lands, or lands with its answer lost, or is lost; AlreadyExists
\* sends the loser of the race to read the winner's key.
CreateKey(p) ==
  /\ boot[p] = "create"
  /\ \/ secret = Absent /\ secret' = key[p] /\ NoFault /\ Serve(p, key[p])
     \/ secret = Absent /\ secret' = key[p] /\ Fault /\ BootFails(p)
     \/ /\ secret # Absent /\ NoFault
        /\ boot' = [boot EXCEPT ![p] = "reread"]
        /\ UNCHANGED <<secret, key>>
     \/ Fault /\ BootFails(p) /\ UNCHANGED secret
  /\ UNCHANGED <<userVars, worldVars>>

\* Mutant: the loser of the race keeps the key it generated.
RereadKeepsOwn(p) ==
  /\ boot[p] = "reread"
  /\ NoFault /\ Serve(p, key[p])
  /\ UNCHANGED <<secret, userVars, worldVars>>

\* Mutant: the winner's Secret is used without a check that it holds a key.
RereadUnchecked(p) ==
  /\ boot[p] = "reread"
  /\ NoFault /\ Serve(p, secret)
  /\ UNCHANGED <<secret, userVars, worldVars>>

\* The winner's key, or the error of a Secret that has no signing key data.
RereadKey(p) ==
  /\ boot[p] = "reread"
  /\ \/ secret \in Keys /\ NoFault /\ Serve(p, secret)
     \/ secret \notin Keys /\ NoFault /\ BootFails(p)
     \/ Fault /\ BootFails(p)
  /\ UNCHANGED <<secret, userVars, worldVars>>

ServedBy(b, p) == req[b] # NoReq /\ req[b].by = p

\* A process is restarted; the requests it was serving break off.
Restart(p) ==
  /\ boot[p] # "get"
  /\ Fault /\ BootFails(p)
  /\ req' = [b \in Browsers |-> IF ServedBy(b, p) THEN NoReq ELSE req[b]]
  /\ page' = [b \in Browsers |->
       IF ServedBy(b, p) THEN [kind |-> "error", name |-> req[b].name] ELSE page[b]]
  /\ UNCHANGED <<secret, used, jar, grant, worldVars>>

--------------------------------------------------------------------------------
(* requireGatewayToken.                                                    *)

\* Mutant: the cookie's name is not compared with the requested one.
VerifyUnscoped(p, n, cookie) ==
  /\ cookie # NoCookie
  /\ cookie.key = key[p]
  /\ clock <= cookie.exp + Skew

\* The signature, the scope, then the expiry with its tolerance.
Verify(p, n, cookie) ==
  /\ cookie # NoCookie
  /\ cookie.key = key[p]
  /\ cookie.name = n
  /\ clock <= cookie.exp + Skew

\* The answer to b's request is a page.
Show(b, n, kind) ==
  /\ req' = [req EXCEPT ![b] = NoReq]
  /\ page' = [page EXCEPT ![b] = [kind |-> kind, name |-> n]]

\* The request goes on to step at of process p.
Pass(b, p, n, t, at) ==
  /\ req' = [req EXCEPT ![b] = [at |-> at, by |-> p, name |-> n, token |-> t]]
  /\ UNCHANGED page

\* A request without token: the fast path.  The path scope of a cookie is
\* the client's to respect, so any cookie of the jar may come along.
OpenPlain(b, p, n) ==
  /\ req[b] = NoReq /\ boot[p] = "serving"
  /\ \E m \in Names :
       \/ Verify(p, n, jar[b][m]) /\ Pass(b, p, n, NoToken, "workload")
       \/ ~Verify(p, n, jar[b][m]) /\ Show(b, n, "unauthenticated")
  /\ UNCHANGED <<keyVars, used, jar, grant, worldVars, faults>>

\* The browser follows a redirect, or a page reloads itself.
Refresh(b, p) ==
  /\ page[b].kind \in Refreshing
  /\ OpenPlain(b, p, page[b].name)

\* A request with ?token= goes to Convex whatever cookie there is.
OpenWithToken(b, p, n, t) ==
  /\ req[b] = NoReq /\ boot[p] = "serving"
  /\ Pass(b, p, n, t, "exchange")
  /\ UNCHANGED <<keyVars, used, jar, grant, worldVars, faults>>

Sign(p, n) == [key |-> key[p], name |-> n, exp |-> clock + TTL]

\* VerifyGatewayToken: Convex honours a token once, for the name it was
\* minted for.
Honoured(t, n) == t \notin used /\ Grantee[t] = n

\* The answer to an honoured token carries the cookie and the redirect; a
\* refused token, a lost call and a lost answer read the same.
Exchange(b) ==
  LET p == req[b].by
      n == req[b].name
      t == req[b].token
      good == Honoured(t, n)
  IN
  /\ req[b].at = "exchange"
  /\ \/ /\ good /\ NoFault
        /\ used' = used \cup {t}
        /\ jar' = [jar EXCEPT ![b][n] = Sign(p, n)]
        /\ grant' = [grant EXCEPT ![b][n] = clock]
        /\ Show(b, n, "redirect")
     \/ /\ good /\ Fault
        /\ used' = used \cup {t}
        /\ Show(b, n, "unauthenticated")
        /\ UNCHANGED <<jar, grant>>
     \/ /\ ~good /\ NoFault
        /\ Show(b, n, "unauthenticated")
        /\ UNCHANGED <<used, jar, grant>>
     \/ /\ Fault
        /\ Show(b, n, "unauthenticated")
        /\ UNCHANGED <<used, jar, grant>>
  /\ UNCHANGED <<keyVars, worldVars>>

--------------------------------------------------------------------------------
(* ServiceProxy.Handler: two reads, the workload and then its Service.     *)

\* Mutant: Stopped falls into the catch-all with Deploying.
PageOfPhaseCatchAll(ph) ==
  CASE ph = "absent" -> "notfound"
    [] ph = "Failed" -> "failed"
    [] OTHER -> "loading"

\* The page of a phase other than Running.
PageOfPhase(ph) ==
  CASE ph = "absent" -> "notfound"
    [] ph = "Failed" -> "failed"
    [] ph = "Stopped" -> "stopped"
    [] OTHER -> "loading"

ResolveWorkload(b) ==
  LET n == req[b].name IN
  /\ req[b].at = "workload"
  /\ \/ /\ wl[n] = "Running" /\ NoFault
        /\ req' = [req EXCEPT ![b].at = "service"]
        /\ UNCHANGED page
     \/ wl[n] # "Running" /\ NoFault /\ Show(b, n, PageOfPhase(wl[n]))
     \/ Fault /\ Show(b, n, "error")
  /\ UNCHANGED <<keyVars, used, jar, grant, worldVars>>

ResolveService(b) ==
  LET n == req[b].name IN
  /\ req[b].at = "service"
  /\ \/ svc[n] /\ NoFault /\ Show(b, n, "app")
     \/ ~svc[n] /\ NoFault /\ Show(b, n, "error")
     \/ Fault /\ Show(b, n, "error")
  /\ UNCHANGED <<keyVars, used, jar, grant, worldVars>>

--------------------------------------------------------------------------------
(* What goes on around the gateway.                                        *)

\* The reconciler moves a workload to another phase, or it and its Service go.
PhaseChanges(n) ==
  /\ changes > 0 /\ changes' = changes - 1
  /\ wl[n] # "absent"
  /\ \E ph \in Phases \ {wl[n]} :
       /\ wl' = [wl EXCEPT ![n] = ph]
       /\ svc' = [svc EXCEPT ![n] = ph # "absent"]
  /\ UNCHANGED <<keyVars, userVars, clock, faults>>

Tick ==
  /\ clock < MaxClock
  /\ clock' = clock + 1
  /\ UNCHANGED <<keyVars, userVars, wl, svc, changes, faults>>

\* MaxAge is over and the browser drops the cookie, sooner or later.
CookieDropped(b, n) ==
  /\ jar[b][n] # NoCookie
  /\ clock >= jar[b][n].exp
  /\ jar' = [jar EXCEPT ![b][n] = NoCookie]
  /\ UNCHANGED <<keyVars, used, req, page, grant, worldVars, faults>>

LoadOrGenerate(p) == GetKey(p) \/ CreateKey(p) \/ RereadKey(p)

Handle(b) == Exchange(b) \/ ResolveWorkload(b) \/ ResolveService(b)

User(b, p) ==
  \/ \E n \in Names : OpenPlain(b, p, n)
  \/ \E n \in Names, t \in Tokens : OpenWithToken(b, p, n, t)

Next ==
  \/ \E p \in Processes : LoadOrGenerate(p) \/ Restart(p)
  \/ \E b \in Browsers : Handle(b)
  \/ \E b \in Browsers, p \in Processes : User(b, p) \/ Refresh(b, p)
  \/ \E b \in Browsers, n \in Names : CookieDropped(b, n)
  \/ \E n \in Names : PhaseChanges(n)
  \/ Tick

Spec == Init /\ [][Next]_vars

\* A boot goes on or is retried, a request that was accepted is answered, and
\* a page that reloads itself does so.
Fairness ==
  /\ \A p \in Processes : WF_vars(LoadOrGenerate(p))
  /\ \A b \in Browsers : WF_vars(Handle(b))
  /\ \A b \in Browsers : WF_vars(\E p \in Processes : Refresh(b, p))

LiveSpec == Spec /\ Fairness

--------------------------------------------------------------------------------
(* Properties.                                                             *)

\* Every variable stays in its set.
TypeOK ==
  /\ secret \in Keys \cup {Absent, Empty}
  /\ boot \in [Processes -> {"get", "create", "reread", "serving"}]
  /\ key \in [Processes -> Keys \cup {NoKey}]
  /\ used \subseteq Tokens
  /\ jar \in [Browsers -> [Names -> Cookies]]
  /\ req \in [Browsers -> Reqs]
  /\ page \in [Browsers -> Pages]
  /\ wl \in [Names -> Phases]
  /\ svc \in [Names -> BOOLEAN]
  /\ clock \in 0..MaxClock
  /\ grant \in [Browsers -> [Names -> -1..MaxClock]]
  /\ faults \in 0..MaxFaults
  /\ changes \in 0..MaxChanges

\* "every replica ends up signing with the same key" (keystore.go:67): however
\* the boots of several processes race, are retried and lose answers, the
\* ones that serve hold the stored key.
KeysAgree ==
  \A p \in Processes : boot[p] = "serving" => key[p] = secret /\ secret \in Keys

\* A session survives restarts and is good at every replica: a cookie a
\* browser holds verifies at each serving process until its time is over
\* (main.go:289-290, LoadOrGenerate, Sign, Verify).
SessionsSurvive ==
  \A b \in Browsers, n \in Names, p \in Processes :
    (/\ jar[b][n] # NoCookie
     /\ boot[p] = "serving"
     /\ clock <= jar[b][n].exp + Skew) => Verify(p, n, jar[b][n])

\* What makes the two inductive and ties a cookie to the exchange it came from.
SessionInv ==
  /\ KeysAgree
  /\ \A b \in Browsers, n \in Names : jar[b][n] # NoCookie =>
       /\ jar[b][n].key = secret
       /\ jar[b][n].name = n
       /\ grant[b][n] >= 0
       /\ jar[b][n].exp = grant[b][n] + TTL
  /\ \A b \in Browsers : req[b] # NoReq => boot[req[b].by] = "serving"
  /\ \A b \in Browsers : req[b].at = "exchange" => req[b].token \in Tokens
  /\ \A p \in Processes : boot[p] \in {"create", "reread"} => key[p] \in Keys

\* A request reaches a workload only on a session of that browser for that
\* very workload: an exchange no longer ago than the cookie's lifetime and
\* the tolerated skew (requireGatewayToken, Verify).
AdmittedByGrant ==
  [][\A b \in Browsers :
       req[b].at # "workload" /\ req'[b].at = "workload" =>
         LET g == grant[b][req'[b].name]
         IN  g >= 0 /\ clock <= g + TTL + Skew]_vars

\* Unless the Secret is there without its key, every process gets to serve,
\* the loser of the create race too.
BootCompletes ==
  \A p \in Processes : secret # Empty ~> boot[p] = "serving" \/ secret = Empty

\* A page that reloads itself is not shown for ever for a workload that is
\* stopped, "an endlessly-refreshing "starting up" spinner for a workload
\* that was intentionally suspended" (proxy.go:113-118).
NoEndlessRefresh ==
  \A b \in Browsers :
    []<>~(page[b].kind \in Refreshing /\ wl[page[b].name] = "Stopped")

================================================================================
