--------------------------------- MODULE Catalog ---------------------------------
(***************************************************************************)
(* The template catalog: parameters, ResolveParams and each template's     *)
(* Build (internal/catalog), and the render step of the reconciler that    *)
(* puts them together.  Everything here is a function of its arguments.    *)
(*                                                                         *)
(* A JSON value is a tagged tuple, a config a function from some of the    *)
(* keys to values.  A number is given in halves, so that the truncation of *)
(* paramInt32 shows.  Of a rendered workload only what the parameters      *)
(* decide is kept; labels, options and descriptions are left out.          *)
(***************************************************************************)
EXTENDS Integers, Sequences

Null == <<"null">>
Str(s) == <<"string", s>>
Num(halves) == <<"number", halves>>
Bool(b) == <<"bool", b>>

IsString(v) == v[1] = "string"
IsNumber(v) == v[1] = "number"

\* Indexing a Go map: nil for a key that is not there.
Lookup(m, k) == IF k \in DOMAIN m THEN m[k] ELSE Null

NoConfig == [k \in {} |-> Null]
--------------------------------------------------------------------------------
(* Parameters.  "always" stands for a nil Visibility, an empty range for   *)
(* no Min and Max, in halves.                                              *)

Param(key) ==
  [key |-> key, default |-> Null, required |-> FALSE,
   op |-> "always", dependsOn |-> key, values |-> {},
   range |-> << >>]

browserParameters ==
  LET whenRestoring(p) == [p EXCEPT !.op = "equals", !.dependsOn = "restoreProfile",
                                    !.values = {Bool(TRUE)}]
  IN  << whenRestoring([Param("profileName") EXCEPT !.required = TRUE]),
         [Param("restoreProfile") EXCEPT !.default = Bool(FALSE)],
         whenRestoring(Param("profileDownloadUrl")) >>

\* The Max of workerConnections, and its Default, which is also Build's fallback.
MaxConnections == 65536
DefaultConnections == 1024

\* Mutant: a default is raised here and not in Build.
NginxParametersRaised ==
  << [Param("logLevel") EXCEPT !.default = Str("info")],
     [Param("workerConnections") EXCEPT !.default = Num(2 * 4096),
                                        !.range = <<0, 2 * MaxConnections>>] >>

NginxParameters ==
  << [Param("logLevel") EXCEPT !.default = Str("info")],
     [Param("workerConnections") EXCEPT !.default = Num(2 * DefaultConnections),
                                        !.range = <<0, 2 * MaxConnections>>] >>

WebtopParameters ==
  << [Param("flavor") EXCEPT !.default = Str("latest")] >> \o browserParameters

Parameters ==
  [nginx |-> NginxParameters, firefox |-> browserParameters,
   chrome |-> browserParameters, webtop |-> WebtopParameters]

Templates == DOMAIN Parameters

\* backup_state, the one operation there is, on the templates that declare it.
BackupParameters == << Param("label"), [Param("uploadUrl") EXCEPT !.required = TRUE] >>

OperationsOf(tmpl) == IF tmpl = "nginx" THEN {} ELSE {"backup_state"}
--------------------------------------------------------------------------------
(* ResolveParams. *)

evalVisibility(p, actual) ==
  CASE p.op \in {"equals", "oneOf"} -> actual \in p.values
    [] p.op = "notEquals" -> actual \notin p.values
    [] OTHER -> TRUE

\* Mutant: numbers are not recognised.
checkValidationUntyped(p, v) == TRUE

\* A constraint on another type than the value's is skipped.  No template has
\* a MaxLength or a Regex.
checkValidation(p, v) ==
  IsNumber(v) /\ p.range # << >> => v[2] >= p.range[1] /\ v[2] <= p.range[2]

\* First pass: a default fills in for a key that is absent; an explicit null
\* is a key that is there.
WithDefaults(params, raw) ==
  LET defaulted == {i \in DOMAIN params : params[i].default # Null}
      filled == {params[i].key : i \in defaulted} \ DOMAIN raw
  IN  [k \in DOMAIN raw \cup filled |->
         IF k \in DOMAIN raw THEN raw[k]
         ELSE params[CHOOSE i \in defaulted : params[i].key = k].default]

\* Second pass, for one parameter: hidden ones are exempt.
Acceptable(p, resolved) ==
  LET v == Lookup(resolved, p.key)
      present == v # Null /\ v # Str("")
  IN  evalVisibility(p, Lookup(resolved, p.dependsOn)) =>
        /\ p.required => present
        /\ present => checkValidation(p, v)

\* The second pass stops at the first parameter it cannot accept.
ResolveParams(params, raw) ==
  LET resolved == WithDefaults(params, raw)
  IN  [ok |-> \A i \in DOMAIN params : Acceptable(params[i], resolved),
       params |-> resolved]
--------------------------------------------------------------------------------
(* Build. *)

paramString(params, key, fallback) ==
  LET v == Lookup(params, key)
  IN  IF IsString(v) /\ v # Str("") THEN v[2] ELSE fallback

\* int32(v) cuts the fraction off.
paramInt32(params, key, fallback) ==
  LET v == Lookup(params, key)
  IN  CASE ~IsNumber(v) -> fallback
        [] IsNumber(v) /\ v[2] >= 0 -> v[2] \div 2
        [] OTHER -> -((-v[2]) \div 2)

\* setting: LOG_LEVEL or the image's flavor; profile: PROFILE_DOWNLOAD_URL.
Rendered(app, setting, workers, profile) ==
  [app |-> app, setting |-> setting, workers |-> workers, profile |-> profile]

BuildNginx(params) ==
  Rendered("nginx", paramString(params, "logLevel", "info"),
           paramInt32(params, "workerConnections", DefaultConnections), "")

BuildBrowser(app, params) ==
  Rendered(app, "", 0, paramString(params, "profileDownloadUrl", ""))

BuildWebtop(params) ==
  Rendered("webtop", paramString(params, "flavor", "latest"), 0,
           paramString(params, "profileDownloadUrl", ""))

Build(tmpl, params) ==
  CASE tmpl = "nginx" -> BuildNginx(params)
    [] tmpl = "webtop" -> BuildWebtop(params)
    [] OTHER -> BuildBrowser(tmpl, params)

legacyRendered(image) == Rendered(image, "", 0, "")

\* render of the reconciler, from the fields of a Workload's spec; an error
\* leaves what unused.
render(tmpl, image, config) ==
  LET resolved == ResolveParams(Parameters[tmpl], config)
  IN  CASE tmpl = "" -> [ok |-> image # "", what |-> legacyRendered(image)]
        [] tmpl # "" /\ tmpl \notin Templates -> [ok |-> FALSE, what |-> legacyRendered("")]
        [] tmpl \in Templates /\ ~resolved.ok -> [ok |-> FALSE, what |-> legacyRendered("")]
        [] OTHER -> [ok |-> TRUE, what |-> Build(tmpl, resolved.params)]
================================================================================
