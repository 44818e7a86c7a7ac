------------------------------ MODULE MCDeployApi ------------------------------
(* Instances of DeployApi. *)
EXTENDS DeployApi

Request(kind, name) ==
  [kind |-> kind, name |-> name, tmpl |-> "", user |-> TRUE, image |-> "",
   replicas |-> 1, config |-> NoConfig]

FromTemplate(tmpl, config) ==
  [Request("template", "") EXCEPT !.tmpl = tmpl, !.config = config]

FromImage(name, image, replicas) ==
  [Request("raw", name) EXCEPT !.image = image, !.replicas = replicas]

\* One past the limit, and a blank.
NginxConfigs ==
  {[k \in {"workerConnections"} |-> v] : v \in {Num(2 * 65536 + 2), Null}}

BrowserConfigs ==
  { [restoreProfile |-> Bool(TRUE), profileName |-> Str("")],
    [restoreProfile |-> Bool(TRUE), profileName |-> Str("p"),
     profileDownloadUrl |-> Str("u")] }

\* Callers use the first nginx name for their raw deploys and deletes.
MCGenerated == [t \in Templates |-> CASE t = "nginx" -> {"a"} [] t = "webtop" -> {"b"} [] OTHER -> {}]

MCConfigs ==
  {NoConfig, [k \in {"workerConnections"} |-> Num(2 * 65536 + 2)]}

MCRequests ==
  {FromTemplate("nginx", g) : g \in NginxConfigs}
    \cup {FromTemplate("webtop", g) : g \in BrowserConfigs}
    \cup {FromTemplate("unknown", NoConfig), FromImage("a", "i", 1), FromImage("a", "j", 0),
          Request("get", "a"), Request("delete", "a")}

NoneGenerated == [t \in Templates |-> {}]

RawRequests == {FromImage("a", "i", 1), FromImage("a", "j", 1), Request("delete", "a")}
================================================================================
