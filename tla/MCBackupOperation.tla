---------------------------- MODULE MCBackupOperation ----------------------------
(* Instances of BackupOperation. *)
EXTENDS BackupOperation

\* tmpl "none" is a workload that does not exist.
Ask(tmpl, params) == [tmpl |-> tmpl, key |-> "backup_state", params |-> params]

WithUrl(v) == [k \in {"uploadUrl"} |-> v]

GoodRequests == {Ask("firefox", WithUrl(Str("u")))}

MCRequests ==
  GoodRequests \cup
    {Ask("none", NoConfig), Ask("", NoConfig), Ask("nginx", WithUrl(Str("u"))),
     Ask("firefox", NoConfig), Ask("firefox", WithUrl(Num(2)))}
================================================================================
