--------------------------- MODULE PendingOperations ---------------------------
(***************************************************************************)
(* processPendingOperations for one row: the heartbeat goroutine claims an *)
(* operation Convex queued, carries it out on the Workload object, and     *)
(* reports a failure.  It runs beside the reconciler and shares the        *)
(* manager's cached client with it.  The stop, resume and redeploy writes  *)
(* are a cached Get and an Update: the Update goes through only if the     *)
(* cached version is still the stored one.                                 *)
(***************************************************************************)
EXTENDS WorkloadObjects

VARIABLES ep,   \* control point of the loop body
          op    \* the claimed operation

opVars == <<ep, op>>

OpInit == ep = "idle" /\ op = "none"

OpTypeOK ==
  /\ ep \in {"idle", "apply", "reportRetryable", "reportTerminal"}
  /\ op \in Operations \cup {"none"}

NextItem == ep' = "idle" /\ op' = "none"

Report(label) == ep' = label /\ UNCHANGED op

\* ClaimOperation.  When its answer is lost the row is in flight with nobody
\* working on it.
ClaimOperation ==
  /\ ep = "idle" /\ row.st \in Operations /\ row.owner = "named"
  /\ row' = [row EXCEPT !.st = InFlightOf[row.st]]
  /\ \/ ep' = "apply" /\ op' = row.st /\ NoFault
     \/ UNCHANGED opVars /\ Fault
  /\ UNCHANGED <<w, cache, dep, seen, stuck, queued, hist>>

\* A cached Get followed by an Update to newObj.  An Update that changes
\* nothing is a no-op write: no new generation and no watch event.
GetAndUpdate(newObj) ==
  \/ cache.live /\ cache = w /\ w' = newObj /\ NoFault /\ NextItem
  \/ cache.live /\ cache = w /\ w' \in {w, newObj} /\ Fault /\ Report("reportRetryable")
  \/ (~cache.live \/ cache # w) /\ UNCHANGED w /\ NoFault /\ Report("reportRetryable")

\* The API server's part in an Update that changes the spec.
NewGeneration(o) == [o EXCEPT !.gen = @ + 1]

\* Mutant: a redeploy to the template the object already has changes nothing.
RedeployedWithoutNonce(o) == o

\* The template-version check comes first and is terminal when it fails;
\* Redeploy always writes a new LastRedeployedAt, hence a new generation.
Redeployed(o) == NewGeneration(o)

\* SetSuspended writes Spec.Suspended and nothing else.
Suspended(o, suspended) ==
  IF o.suspended = suspended THEN o
  ELSE NewGeneration([o EXCEPT !.suspended = suspended])

Redeploy ==
  /\ ep = "apply" /\ op = "redeploy"
  /\ \/ GetAndUpdate(Redeployed(w)) /\ UNCHANGED hist
     \/ /\ UNCHANGED w /\ Fault /\ Report("reportTerminal")
        /\ hist' = [hist EXCEPT !.broken = TRUE]
  /\ UNCHANGED <<cache, dep, seen, stuck, queued, row>>

SetSuspended ==
  /\ ep = "apply" /\ op \in {"stop", "resume"}
  /\ GetAndUpdate(Suspended(w, op = "stop"))
  /\ UNCHANGED <<cache, dep, seen, stuck, queued, row, hist>>

\* Destroy: NotFound is success, and success is reported by nobody here.
Destroy ==
  /\ ep = "apply" /\ op = "destroy"
  /\ \/ w' = Deleted(w) /\ NoFault /\ NextItem
     \/ w' \in {w, Deleted(w)} /\ Fault /\ Report("reportRetryable")
  /\ UNCHANGED <<cache, dep, seen, stuck, queued, row, hist>>

\* ReportLifecycle(failed) by name; its own failure is only logged.
ReportOutcome ==
  LET retryable == ep = "reportRetryable"
      applied == IF row.owner = "named"
                   THEN ReportApplied(row, "failed", retryable) ELSE {}
  IN
  /\ ep \in {"reportRetryable", "reportTerminal"}
  /\ \/ row' \in applied /\ NoFault
     \/ applied = {} /\ UNCHANGED row /\ NoFault
     \/ row' \in applied \cup {row} /\ Fault
  /\ NextItem
  /\ UNCHANGED <<w, cache, dep, seen, stuck, queued, hist>>

ProcessPending ==
  ClaimOperation \/ Redeploy \/ SetSuspended \/ Destroy \/ ReportOutcome
================================================================================
