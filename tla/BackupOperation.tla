----------------------------- MODULE BackupOperation -----------------------------
(***************************************************************************)
(* Operations on a running workload: handleRunFunction (internal/api)      *)
(* finds a pod (internal/podexec) and runs backup_state in it, the script  *)
(* of internal/catalog/browser.go that packs the profile into a file of a  *)
(* fixed name, uploads and removes it.  The process in the pod outlives a  *)
(* call that lost its connection.  A backup whose call was answered 200 is *)
(* recorded by Convex and may be restored by the init container of a later *)
(* deploy of the workload.                                                 *)
(*                                                                         *)
(* An archive is "partial" while a tar writes it, "whole", or "torn": two  *)
(* tars have written the same file, or it was sent before it was whole.    *)
(***************************************************************************)
EXTENDS Integers, Catalog, HttpStatus

CONSTANTS
  MaxCalls,    \* bound on the calls of the operation
  MaxPods,     \* bound on the workload's deploys, a pod each
  Requests,    \* what a call may carry: the template, the operation, params
  OneAtATime,  \* whether the caller waits for a call before it makes another
  MaxFaults    \* bound on lost connections, failed transfers and evictions

ASSUME BackupBounds ==
  MaxCalls \in Nat /\ MaxPods \in Nat \ {0} /\ OneAtATime \in BOOLEAN /\ MaxFaults \in Nat

Calls == 1..MaxCalls
Pods == 1..MaxPods

VARIABLES
  pod,         \* each pod: where it is, and the backup its URL points to
  file,        \* the file /tmp/backup.tar.gz of each pod, 0 for none
  content,     \* what each file ever created holds
  call,        \* each call
  script,      \* the process of each call in its pod
  object,      \* the uploaded archive of each call
  overlapped,  \* history: the calls whose scripts met another in their pod
  faults

vars == <<pod, file, content, call, script, object, overlapped, faults>>

Off == [at |-> "off"]

Init ==
  /\ pod = [p \in Pods |-> IF p = 1 THEN [at |-> "init", url |-> 0] ELSE [at |-> "none", url |-> 0]]
  /\ file = [p \in Pods |-> 0]
  /\ content = [k \in Calls |-> "none"]
  /\ call = [k \in Calls |-> Off]
  /\ script = [k \in Calls |-> Off]
  /\ object = [k \in Calls |-> "none"]
  /\ overlapped = {}
  /\ faults = MaxFaults

Fault == faults > 0 /\ faults' = faults - 1
NoFault == UNCHANGED faults

Active(k) == script[k].at \in {"start", "tar", "packed", "curl", "rm"}
In(k) == call[k].pod
--------------------------------------------------------------------------------
(* Calls. *)

Done(k, code) == call' = [call EXCEPT ![k] = [at |-> "done", code |-> code]]

\* Mutant: whatever carries the label.
FindPodAny == {p \in Pods : pod[p].at \in {"init", "crash", "running"}}

\* FindPod: any pod of the workload that is Running, one about to go too.
FindPod == {p \in Pods : pod[p].at = "running"}

\* handleRunFunction up to the exec, Run's own check of the URL included.
Begin(k) ==
  /\ call[k] = Off /\ \A j \in 1 .. k - 1 : call[j] # Off
  /\ OneAtATime => \A j \in Calls : call[j].at # "exec"
  /\ \E r \in Requests :
       LET resolved == ResolveParams(BackupParameters, r.params) IN
       \/ r.tmpl = "none" /\ Done(k, StatusNotFound) /\ UNCHANGED script
       \/ r.tmpl \notin Templates \cup {"none"} /\ Done(k, StatusBadRequest) /\ UNCHANGED script
       \/ /\ r.tmpl \in Templates
          /\ \/ r.key \notin OperationsOf(r.tmpl) /\ Done(k, StatusNotFound) /\ UNCHANGED script
             \/ /\ r.key \in OperationsOf(r.tmpl)
                /\ \/ ~resolved.ok /\ Done(k, StatusBadRequest) /\ UNCHANGED script
                   \/ resolved.ok /\ FindPod = {} /\ Done(k, StatusConflict) /\ UNCHANGED script
                   \/ /\ resolved.ok /\ FindPod # {}
                      /\ paramString(resolved.params, "uploadUrl", "") = ""
                      /\ Done(k, StatusInternalServerError) /\ UNCHANGED script
                   \/ /\ resolved.ok /\ paramString(resolved.params, "uploadUrl", "") # ""
                      /\ \E p \in FindPod :
                           call' = [call EXCEPT ![k] = [at |-> "exec", pod |-> p]]
                      /\ script' = [script EXCEPT ![k] = [at |-> "start"]]
  /\ UNCHANGED <<pod, file, content, object, overlapped, faults>>

\* The script's exit status is the call's answer.
Answer(k) ==
  /\ call[k].at = "exec" /\ script[k].at \in {"ok", "failed"}
  /\ Done(k, IF script[k].at = "ok" THEN StatusOK ELSE StatusInternalServerError)
  /\ UNCHANGED <<pod, file, content, script, object, overlapped, faults>>

\* The caller's connection is lost: the request's context ends the stream,
\* not the process.
Lose(k) ==
  /\ call[k].at = "exec" /\ Fault
  /\ call' = [call EXCEPT ![k] = [at |-> "lost", pod |-> @.pod]]
  /\ UNCHANGED <<pod, file, content, script, object, overlapped>>
--------------------------------------------------------------------------------
(* The script of backup_state. *)

\* tar opens the file, which truncates one that is there: under another tar
\* that is writing it, or a curl that is sending it.
TarStart(k) ==
  LET p == In(k)
      i == IF file[p] = 0 THEN k ELSE file[p]
      On(j, at) == script[j].at = at /\ script[j].on = i
  IN
  /\ script[k].at = "start"
  /\ file' = [file EXCEPT ![p] = i]
  /\ content' = [content EXCEPT ![i] = IF \E j \in Calls : On(j, "tar") THEN "torn" ELSE "partial"]
  /\ script' = [j \in Calls |->
       IF j = k THEN [at |-> "tar", on |-> i]
       ELSE IF On(j, "curl") THEN [script[j] EXCEPT !.sends = "torn"] ELSE script[j]]
  /\ LET there == {j \in Calls : Active(j) /\ In(j) = p}
     IN  overlapped' = IF there = {k} THEN overlapped ELSE overlapped \cup there
  /\ UNCHANGED <<pod, call, object, faults>>

\* Mutant: no exit status of tar ends the script.
TarEndLenient(k) ==
  /\ script[k].at = "tar"
  /\ script' = [script EXCEPT ![k] = [at |-> "packed"]]
  /\ \/ /\ content' = [content EXCEPT ![script[k].on] = IF @ = "torn" THEN "torn" ELSE "whole"]
        /\ NoFault
     \/ Fault /\ UNCHANGED content
  /\ UNCHANGED <<pod, file, call, object, overlapped>>

\* Exit status 0, or 1 for files that changed; above 1 the script ends.
TarEnd(k) ==
  /\ script[k].at = "tar"
  /\ \/ /\ content' = [content EXCEPT ![script[k].on] = IF @ = "torn" THEN "torn" ELSE "whole"]
        /\ script' = [script EXCEPT ![k] = [at |-> "packed"]]
        /\ NoFault
     \/ Fault /\ script' = [script EXCEPT ![k] = [at |-> "failed"]] /\ UNCHANGED content
  /\ UNCHANGED <<pod, file, call, object, overlapped>>

\* curl opens whatever the name now stands for; with no file it fails.
CurlOpen(k) ==
  LET i == file[In(k)] IN
  /\ script[k].at = "packed"
  /\ script' = [script EXCEPT ![k] =
       IF i = 0 THEN [at |-> "failed"]
       ELSE [at |-> "curl", on |-> i,
             sends |-> IF content[i] = "whole" THEN "whole" ELSE "torn"]]
  /\ UNCHANGED <<pod, file, content, call, object, overlapped, faults>>

\* Mutant: an upload that failed goes unnoticed (no -f).
CurlEndUnnoticed(k) ==
  /\ script[k].at = "curl"
  /\ \/ object' = [object EXCEPT ![k] = script[k].sends] /\ NoFault
     \/ Fault /\ UNCHANGED object
  /\ script' = [script EXCEPT ![k] = [at |-> "rm"]]
  /\ UNCHANGED <<pod, file, content, call, overlapped>>

\* A file that shrinks under curl may also fail the transfer; so may the
\* network, before the upload or after it.
CurlEnd(k) ==
  /\ script[k].at = "curl"
  /\ \/ /\ object' = [object EXCEPT ![k] = script[k].sends]
        /\ script' = [script EXCEPT ![k] = [at |-> "rm"]]
        /\ NoFault
     \/ /\ \/ script[k].sends = "torn" /\ NoFault /\ UNCHANGED object
           \/ Fault /\ object' \in {object, [object EXCEPT ![k] = script[k].sends]}
        /\ script' = [script EXCEPT ![k] = [at |-> "failed"]]
  /\ UNCHANGED <<pod, file, content, call, overlapped>>

Rm(k) ==
  /\ script[k].at = "rm"
  /\ script' = [script EXCEPT ![k] = [at |-> "ok"]]
  /\ file' = [file EXCEPT ![In(k)] = 0]
  /\ UNCHANGED <<pod, content, call, object, overlapped, faults>>

Script(k) == TarStart(k) \/ TarEnd(k) \/ CurlOpen(k) \/ CurlEnd(k) \/ Rm(k)
--------------------------------------------------------------------------------
(* Pods. *)

Recorded == {k \in Calls : call[k].at = "done" /\ call[k].code = StatusOK}

\* A deploy, of a profile that was recorded or of none.  Convex makes the URL.
Deploy(p) ==
  /\ p > 1 /\ pod[p].at = "none" /\ pod[p - 1].at # "none"
  /\ \E b \in Recorded \cup {0} : pod' = [pod EXCEPT ![p] = [at |-> "init", url |-> b]]
  /\ UNCHANGED <<file, content, call, script, object, overlapped, faults>>

\* Mutant: a failed download stops the container.
InitContainerStrict(p) ==
  /\ pod[p].at \in {"init", "crash"}
  /\ pod' = [pod EXCEPT ![p].at =
       IF pod[p].url = 0 \/ (pod[p].url \in Calls /\ object[pod[p].url] = "whole")
       THEN "running" ELSE "crash"]
  /\ NoFault
  /\ UNCHANGED <<file, content, call, script, object, overlapped>>

\* restore-profile: no URL, or a download that fails, starts fresh; an archive
\* that tar cannot read fails the container, to be started again.
InitContainer(p) ==
  LET b == pod[p].url IN
  /\ pod[p].at \in {"init", "crash"}
  /\ \/ /\ pod' = [pod EXCEPT ![p].at =
            IF b \in Calls /\ object[b] = "torn" THEN "crash" ELSE "running"]
        /\ NoFault
     \/ Fault /\ b \in Calls /\ pod' = [pod EXCEPT ![p].at = "running"]
  /\ UNCHANGED <<file, content, call, script, object, overlapped>>

\* A presigned URL is good for a while.
Expire(p) ==
  /\ pod[p].at \in {"init", "running", "crash"} /\ pod[p].url > 0
  /\ pod' = [pod EXCEPT ![p].url = -1]
  /\ UNCHANGED <<file, content, call, script, object, overlapped, faults>>

\* What ends with a pod: its file, and the scripts in it.
Ends(p) ==
  /\ file' = [file EXCEPT ![p] = 0]
  /\ script' = [k \in Calls |->
       IF Active(k) /\ In(k) = p THEN [at |-> "failed"] ELSE script[k]]

\* The Deployment takes an old pod away once a newer one is running.
Replace(p) ==
  /\ pod[p].at \in {"init", "running", "crash"}
  /\ \E q \in p + 1 .. MaxPods : pod[q].at = "running"
  /\ pod' = [pod EXCEPT ![p] = [at |-> "gone", url |-> 0]]
  /\ Ends(p)
  /\ UNCHANGED <<content, call, object, overlapped, faults>>

\* A pod that is evicted comes back, with the same URL.
Evict(p) ==
  /\ pod[p].at = "running" /\ Fault
  /\ pod' = [pod EXCEPT ![p].at = "init"]
  /\ Ends(p)
  /\ UNCHANGED <<content, call, object, overlapped>>

Next ==
  \/ \E k \in Calls : Begin(k) \/ Answer(k) \/ Lose(k) \/ Script(k)
  \/ \E p \in Pods : Deploy(p) \/ InitContainer(p) \/ Expire(p) \/ Replace(p) \/ Evict(p)

Spec == Init /\ [][Next]_vars

\* The kubelet starts a pod's containers again until they run.  What curl and
\* tar take has no limit in the code, and no fairness here.
LiveSpec == Spec /\ \A p \in Pods : WF_vars(InitContainer(p))
--------------------------------------------------------------------------------
(* Properties. *)

\* The codes handleRunFunction answers with.
Codes == {StatusOK, StatusBadRequest, StatusNotFound, StatusConflict, StatusInternalServerError}

\* Every variable stays in its set; a file is one that was created, and a
\* script that runs is that of a call with a pod.
TypeOK ==
  /\ \A p \in Pods : /\ pod[p].at \in {"none", "init", "crash", "running", "gone"}
                     /\ pod[p].url \in -1 .. MaxCalls
                     /\ file[p] # 0 => content[file[p]] # "none"
  /\ \A k \in Calls :
       /\ content[k] \in {"none", "partial", "whole", "torn"}
       /\ object[k] \in {"none", "whole", "torn"}
       /\ Active(k) => call[k].at \in {"exec", "lost"} /\ pod[In(k)].at = "running"
       /\ call[k].at = "done" => call[k].code \in Codes
  /\ overlapped \subseteq Calls /\ faults \in 0..MaxFaults

\* Overlapping calls are the only source of a torn archive, and a torn
\* archive of a pod that cannot start: neither a failed transfer, nor a lost
\* connection, nor a pod that goes away under its script leaves one behind.
TornOnlyIfOverlapped ==
  /\ \A k \in Calls : object[k] = "torn" => k \in overlapped
  /\ \A p \in Pods : pod[p].at = "crash" => pod[p].url \in overlapped \cup {-1}

\* A backup that Convex records was uploaded: the exit status of curl makes it
\* through the script, the exec and the handler.
RecordedWasUploaded == \A k \in Recorded : object[k] # "none"

\* No failed download, now or when a pod is started again after its URL
\* expired, keeps a workload from starting ("Any wget failure ... is treated
\* as start fresh").
PodsStart ==
  \A p \in Pods :
    []<>(\/ pod[p].at \notin {"init", "crash"}
         \/ pod[p].url \in Calls /\ object[pod[p].url] = "torn")

\* "Tars the current browser profile and uploads it to R2 so it can be
\* restored into a future deploy" (browser.go): what was recorded can be
\* restored.
RecordedRestores == \A k \in Recorded : object[k] = "whole"
================================================================================
