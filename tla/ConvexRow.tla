------------------------------- MODULE ConvexRow -------------------------------
(***************************************************************************)
(* The row Convex keeps for one claimed workload, as the operator sees it. *)
(* Convex is a service outside this repository: every definition here is   *)
(* modelled from what the operator sends, what it does with the answers,   *)
(* and what the comments beside those calls say of the other side          *)
(* (client.go, runnable.go, workload_controller.go).  Where they leave the *)
(* outcome open the definition is a set of possible outcomes.              *)
(***************************************************************************)

Operations == {"redeploy", "stop", "resume", "destroy"}

\* The in-flight status a claimed operation puts the row in, and the queued
\* status a released claim goes back to.
InFlightOf == [redeploy |-> "redeploying", stop |-> "stopping",
               resume |-> "resuming", destroy |-> "destroying"]

QueuedOf == [provisioning |-> "requested", redeploying |-> "redeploy",
             stopping |-> "stop", resuming |-> "resume", destroying |-> "destroy"]

InFlight == DOMAIN QueuedOf

\* "exhausted" is the failure releaseClaim ends in once its attempt cap is
\* reached, told apart here from the "failed" of a report.
Resolved == {"active", "stopped", "failed", "exhausted"}

Statuses == InFlight \cup Resolved \cup Operations \cup {"requested", "destroyed"}

\* Who the row is claimed for: nobody, this CR before Convex has learnt its
\* generated name, this CR by (operatorId, name), or another claim of the
\* same request (another operator's, or a second CR of this one).
Owners == {"none", "unnamed", "named", "other"}

Rows == [st : Statuses, owner : Owners]

\* releaseClaim: a create goes back to any operator, so (operatorId, name) is
\* cleared; a pending operation stays assigned to the operator that holds the
\* CR, since ClaimOperation must hand its name out again.  The attempt cap is
\* Convex's own, so it may be reached on any release.
Queued(row) ==
  [st |-> QueuedOf[row.st],
   owner |-> IF row.st = "provisioning" THEN "none" ELSE row.owner]

Releases(row) == {Queued(row), [row EXCEPT !.st = "exhausted"]}

\* reportLifecycle's resolution of a non-retryable report.  A "failed" report
\* may be kept as the "active" of a workload that still runs (the
\* resolveLifecycleStatus of the comments); "destroying" has no
\* non-retryable resolution.
Resolutions(phase) == IF phase = "failed" THEN {"failed", "active"} ELSE {phase}

\* The rows a report sent with this CR's name and workload id may leave
\* behind; the empty set is the 409 of ErrLifecycleStale.
ReportApplied(row, phase, retryable) ==
  CASE row.st \notin InFlight -> {}
    [] row.st \in InFlight /\ retryable -> Releases(row)
    [] row.st = "destroying" /\ ~retryable -> {}
    [] OTHER -> {[row EXCEPT !.st = s] : s \in Resolutions(phase)}

\* Whether the report may also be refused: a row claimed by somebody else is
\* reachable through the workload id alone, and the operator's code does not
\* say whether Convex compares the claimant.
ReportMayBeStale(row, phase, retryable) ==
  row.owner = "other" \/ ReportApplied(row, phase, retryable) = {}

\* UpsertWorkload gives an unnamed provisioning row the CR's real name.
Upserted(row) == IF row.owner = "unnamed" THEN [row EXCEPT !.owner = "named"] ELSE row

\* RemoveWorkload looks the row up by (operatorId, name) only.
Removed(row) == IF row.owner = "named" THEN [row EXCEPT !.st = "destroyed"] ELSE row

\* What a user may ask of a workload in each resolved status.
Requestable(st) ==
  CASE st = "active"  -> {"redeploy", "stop", "destroy"}
    [] st = "stopped" -> {"resume", "destroy"}
    [] st \in {"failed", "exhausted"} -> {"redeploy", "destroy"}
    [] OTHER -> {}
================================================================================
