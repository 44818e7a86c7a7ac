------------------------------ MODULE BackupProofs ------------------------------
(***************************************************************************)
(* Proofs about backup_state, for any number of calls, pods and faults:    *)
(* only scripts that met another one in their pod upload a torn archive,   *)
(* what is recorded was uploaded, a script runs in a running pod only, and *)
(* a caller that waits and loses no connection records whole archives.     *)
(***************************************************************************)
EXTENDS BackupOperation, TLAPS

--------------------------------------------------------------------------------
(* The inductive invariant.                                                *)

Scripts ==
  [at : {"off", "start", "packed", "rm", "ok", "failed"}]
    \cup [at : {"tar"}, on : Calls]
    \cup [at : {"curl"}, on : Calls, sends : {"whole", "torn"}]

\* The script has run its tar, or never will.
Begun(k) == script[k].at \notin {"off", "start"}

Holding(k) == script[k].at \in {"tar", "curl"}

\* Files are named after the call that created them.  No two pods share one,
\* and whoever has one open is in its pod, if it still has a name.
FilesInv ==
  /\ script \in [Calls -> Scripts]
  /\ file \in [Pods -> Calls \cup {0}]
  /\ DOMAIN content = Calls
  /\ \A k \in Calls : call[k].at = "off" => script[k].at = "off"
  /\ \A k \in Calls : Active(k) => In(k) \in Pods
  /\ \A p \in Pods : file[p] # 0 => Begun(file[p])
  /\ \A p, q \in Pods : file[p] = file[q] /\ file[p] # 0 => p = q
  /\ \A k \in Calls : Holding(k) =>
       /\ Begun(script[k].on)
       /\ \A p \in Pods : file[p] = script[k].on => p = In(k)

\* From its tar to the end of its curl, a script that has met no other has
\* its pod to itself but for scripts that are yet to start, and its archive is
\* in the state it left it in.
AloneAt(k) ==
  LET i == file[In(k)] IN
  /\ \A j \in Calls \ {k} : Active(j) /\ In(j) = In(k) => script[j].at = "start"
  /\ i # 0
  /\ script[k].at = "tar" => script[k].on = i /\ content[i] = "partial"
  /\ script[k].at = "packed" => content[i] = "whole"
  /\ script[k].at = "curl" => script[k].on = i /\ script[k].sends = "whole"

AloneInv ==
  \A k \in Calls \ overlapped : script[k].at \in {"tar", "packed", "curl"} => AloneAt(k)

\* What was uploaded, what was answered, and what pods make of it.
UploadInv ==
  /\ DOMAIN object = Calls /\ DOMAIN call = Calls /\ DOMAIN pod = Pods
  /\ \A p \in Pods : DOMAIN pod[p] = {"at", "url"}
  /\ \A k \in Calls : script[k].at \in {"rm", "ok"} => object[k] # "none"

BackupInv == FilesInv /\ AloneInv /\ UploadInv /\ TornOnlyIfOverlapped /\ RecordedWasUploaded

\* The records that the actions write are scripts.
LEMMA ScriptKinds ==
  ASSUME NEW i \in Calls, NEW x \in {"whole", "torn"}
  PROVE  /\ \A a \in {"off", "start", "packed", "rm", "ok", "failed"} : [at |-> a] \in Scripts
         /\ [at |-> "tar", on |-> i] \in Scripts
         /\ [at |-> "curl", on |-> i, sends |-> x] \in Scripts
BY DEF Scripts

\* A tar or a curl has a file of a call open.
LEMMA ScriptFields ==
  ASSUME NEW s \in Scripts
  PROVE  /\ s.at \in {"tar", "curl"} => s.on \in Calls
         /\ s.at = "curl" => s.sends \in {"whole", "torn"}
BY DEF Scripts

\* What a curl sends when its file is opened under it.
LEMMA ScriptTorn ==
  ASSUME NEW s \in Scripts, s.at = "curl"
  PROVE  LET t == [s EXCEPT !.sends = "torn"]
         IN  t \in Scripts /\ t.at = "curl" /\ t.on = s.on
<1>1. s \in [at : {"curl"}, on : Calls, sends : {"whole", "torn"}]
  BY DEF Scripts
<1>2. ASSUME NEW r \in [at : {"curl"}, on : Calls, sends : {"whole", "torn"}]
      PROVE  LET t == [r EXCEPT !.sends = "torn"]
             IN  /\ t \in [at : {"curl"}, on : Calls, sends : {"whole", "torn"}]
                 /\ t.at = "curl" /\ t.on = r.on
  OBVIOUS
<1> QED
  BY <1>1, <1>2 DEF Scripts
--------------------------------------------------------------------------------
(* Steps that leave the scripts and their files alone.                     *)

Quiet ==
  /\ UNCHANGED <<script, file, content, overlapped>>
  /\ \A k \in Calls : /\ Active(k) => call'[k].pod = call[k].pod
                      /\ call'[k].at = "off" => call[k].at = "off"

\* A step that moves no script keeps the files and who is alone.
LEMMA QuietKeeps ==
  ASSUME FilesInv, AloneInv, Quiet
  PROVE  FilesInv' /\ AloneInv'
<1>1. \A k \in Calls : (Active(k)' <=> Active(k)) /\ (Active(k) => In(k)' = In(k))
  BY DEF Quiet, Active, In
<1>2. FilesInv'
  BY <1>1 DEF FilesInv, Quiet, Begun, Holding, Active
<1>3. AloneInv'
  BY <1>1 DEF AloneInv, AloneAt, Quiet, Active
<1> QED
  BY <1>2, <1>3

\* Answering a call whose script does not run moves no script.
LEMMA DoneQuiet ==
  ASSUME UploadInv, NEW k \in Calls, ~Active(k), NEW code, Done(k, code),
         UNCHANGED <<script, file, content, overlapped>>
  PROVE  Quiet
<1> DEFINE x == [at |-> "done", code |-> code]
<1>1. call' = [call EXCEPT ![k] = x] /\ x.at = "done"
  BY DEF Done
<1> HIDE DEF x
<1>2. \A j \in Calls : call'[j] = IF j = k THEN x ELSE call[j]
  BY <1>1 DEF UploadInv
<1> QED
  BY <1>1, <1>2 DEF Quiet
--------------------------------------------------------------------------------
(* The start of a script.                                                  *)

\* Call k is taken to a pod.
Starts(k, p) ==
  /\ call[k].at = "off"
  /\ call' = [call EXCEPT ![k] = [at |-> "exec", pod |-> p]]
  /\ script' = [script EXCEPT ![k] = [at |-> "start"]]
  /\ UNCHANGED <<file, content, overlapped>>

\* A script that is yet to run its tar disturbs nobody.
LEMMA StartsKeeps ==
  ASSUME FilesInv, AloneInv, UploadInv, NEW k \in Calls, NEW p \in Pods, Starts(k, p)
  PROVE  FilesInv' /\ AloneInv'
<1> DEFINE x == [at |-> "exec", pod |-> p]
           y == [at |-> "start"]
<1>1. x.at = "exec" /\ x.pod = p /\ y.at = "start" /\ y \in Scripts
  BY DEF Scripts
<1>2. call' = [call EXCEPT ![k] = x] /\ script' = [script EXCEPT ![k] = y]
  BY DEF Starts
<1> HIDE DEF x, y
<1>3. \A j \in Calls : /\ call'[j] = IF j = k THEN x ELSE call[j]
                       /\ script'[j] = IF j = k THEN y ELSE script[j]
  BY <1>2 DEF UploadInv, FilesInv
<1>4. script[k].at = "off"
  BY DEF FilesInv, Starts
<1>5. \A j \in Calls : j # k => (Active(j)' <=> Active(j)) /\ In(j)' = In(j)
  BY <1>3 DEF Active, In
<1>6. \A j \in Calls : Begun(j) => j # k /\ Begun(j)'
  BY <1>3, <1>4 DEF Begun
<1>7. \A j \in Calls : Holding(j)' => j # k /\ Holding(j) /\ script'[j] = script[j]
  BY <1>1, <1>3 DEF Holding
<1>8. FilesInv'
  <2>1. script' \in [Calls -> Scripts]
    BY <1>1, <1>2 DEF FilesInv
  <2>2. file' \in [Pods -> Calls \cup {0}] /\ DOMAIN content' = Calls /\ file' = file
    BY DEF FilesInv, Starts
  <2>3. \A j \in Calls : call'[j].at = "off" => script'[j].at = "off"
    BY <1>1, <1>3 DEF FilesInv
  <2>4. \A j \in Calls : Active(j)' => In(j)' \in Pods
    <3>1. In(k)' = p
      BY <1>1, <1>3 DEF In
    <3> QED
      BY <1>5, <3>1 DEF FilesInv
  <2>5. \A q \in Pods : file'[q] # 0 => Begun(file[q])'
    <3>1. \A q \in Pods : file'[q] # 0 => file[q] \in Calls /\ Begun(file[q])
      BY <2>2 DEF FilesInv
    <3> QED
      BY <1>6, <2>2, <3>1 DEF Begun
  <2>6. \A j \in Calls : Holding(j)' =>
          /\ Begun(script[j].on)'
          /\ \A q \in Pods : file'[q] = script'[j].on => q = In(j)'
    <3>1. ASSUME NEW j \in Calls, Holding(j)'
          PROVE  /\ Begun(script[j].on)'
                 /\ \A q \in Pods : file'[q] = script'[j].on => q = In(j)'
      <4>1. j # k /\ Holding(j) /\ script'[j] = script[j] /\ In(j)' = In(j)
        BY <1>5, <1>7, <3>1
      <4>2. script[j].on \in Calls
        BY <4>1, ScriptFields DEF Holding, FilesInv
      <4>3. Begun(script[j].on) /\ \A q \in Pods : file[q] = script[j].on => q = In(j)
        BY <4>1 DEF FilesInv
      <4> QED
        BY <1>6, <2>2, <4>1, <4>2, <4>3 DEF Begun
    <3> QED
      BY <3>1
  <2> QED
    BY <2>1, <2>2, <2>3, <2>4, <2>5, <2>6 DEF FilesInv
<1>9. AloneInv'
  <2>1. ASSUME NEW j \in Calls \ overlapped', script'[j].at \in {"tar", "packed", "curl"}
        PROVE  AloneAt(j)'
    <3>1. j # k /\ script'[j] = script[j] /\ In(j)' = In(j)
      BY <1>1, <1>3, <1>5, <2>1
    <3>2. AloneAt(j)
      BY <2>1, <3>1 DEF AloneInv, Starts
    <3> QED
      BY <1>1, <1>3, <1>5, <3>1, <3>2 DEF AloneAt, Starts
  <2> QED
    BY <2>1 DEF AloneInv
<1> QED
  BY <1>8, <1>9
--------------------------------------------------------------------------------
(* The steps of a script after its start.                                  *)

\* A script that is under way goes on to s.  It may take the name of its
\* pod's file away, and write the file it has open.
MovesTo(k, s) ==
  /\ Active(k) /\ Begun(k)
  /\ s \in Scripts /\ s.at \notin {"off", "start"}
  /\ s.at \in {"tar", "curl"} => s.on = file[In(k)] /\ s.on # 0 /\ file' = file
  /\ script' = [script EXCEPT ![k] = s]
  /\ file' \in [Pods -> Calls \cup {0}]
  /\ \A q \in Pods : file'[q] = file[q] \/ (q = In(k) /\ file'[q] = 0)
  /\ DOMAIN content' = Calls
  /\ \A i \in Calls : content'[i] = content[i] \/ (script[k].at = "tar" /\ i = script[k].on)
  /\ UNCHANGED <<call, overlapped>>

\* Whichever way a script goes on, no two pods come to share a file.
LEMMA MovesKeepsFiles ==
  ASSUME FilesInv, NEW k \in Calls, NEW s, MovesTo(k, s)
  PROVE  FilesInv'
<1>1. \A j \in Calls : script'[j] = IF j = k THEN s ELSE script[j]
  BY DEF FilesInv, MovesTo
<1>2. \A j \in Calls : In(j)' = In(j)
  BY DEF In, MovesTo
<1>3. \A j \in Calls : Begun(j) => Begun(j)'
  BY <1>1 DEF Begun, MovesTo
<1>4. script' \in [Calls -> Scripts]
  BY DEF FilesInv, MovesTo
<1>5. \A j \in Calls : call'[j].at = "off" => script'[j].at = "off"
  BY <1>1 DEF FilesInv, MovesTo, Begun
<1>6. \A j \in Calls : Active(j)' => In(j)' \in Pods
  BY <1>1, <1>2 DEF FilesInv, MovesTo, Active
<1>7. \A p \in Pods : file'[p] # 0 => Begun(file[p])'
  <2>1. ASSUME NEW p \in Pods, file'[p] # 0
        PROVE  Begun(file[p])'
    <3>1. file'[p] = file[p] /\ file[p] \in Calls /\ Begun(file[p])
      BY <2>1 DEF FilesInv, MovesTo
    <3> QED
      BY <1>3, <3>1 DEF Begun
  <2> QED
    BY <2>1
<1>8. \A p, q \in Pods : file'[p] = file'[q] /\ file'[p] # 0 => p = q
  BY DEF FilesInv, MovesTo
<1>9. ASSUME NEW j \in Calls, Holding(j)'
      PROVE  /\ Begun(script[j].on)'
             /\ \A p \in Pods : file'[p] = script'[j].on => p = In(j)'
  <2>1. CASE j # k
    <3>1. Holding(j) /\ script'[j] = script[j]
      BY <1>1, <1>9, <2>1 DEF Holding
    <3>2. script[j].on \in Calls
      BY <3>1, ScriptFields DEF Holding, FilesInv
    <3>3. Begun(script[j].on) /\ \A p \in Pods : file[p] = script[j].on => p = In(j)
      BY <3>1 DEF FilesInv
    <3>4. script[j].on # 0
      BY <3>2 DEF Calls
    <3>5. Begun(script[j].on)'
      BY <1>3, <3>1, <3>2, <3>3 DEF Begun
    <3> QED
      BY <1>2, <3>1, <3>3, <3>4, <3>5 DEF MovesTo
  <2>2. CASE j = k
    <3>1. script'[k] = s /\ s.at \in {"tar", "curl"}
      BY <1>1, <1>9, <2>2 DEF Holding
    <3>2. s.on = file[In(k)] /\ s.on # 0 /\ file' = file /\ In(k) \in Pods
      BY <3>1 DEF MovesTo, FilesInv
    <3>3. s.on \in Calls /\ Begun(s.on)
      BY <3>2 DEF FilesInv
    <3>4. Begun(script[j].on)'
      BY <1>3, <2>2, <3>1, <3>3 DEF Begun
    <3>5. \A p \in Pods : file[p] = s.on => p = In(k)
      BY <3>2 DEF FilesInv
    <3> QED
      BY <1>2, <2>2, <3>1, <3>2, <3>4, <3>5
  <2> QED
    BY <2>1, <2>2
<1> QED
  BY <1>4, <1>5, <1>6, <1>7, <1>8, <1>9 DEF FilesInv, MovesTo

\* A script that has met no other does not notice.
LEMMA MovesKeepsOthers ==
  ASSUME FilesInv, AloneInv, NEW k \in Calls, NEW s, MovesTo(k, s),
         NEW j \in Calls \ overlapped, j # k, script'[j].at \in {"tar", "packed", "curl"}
  PROVE  AloneAt(j)'
<1>1. \A x \in Calls : script'[x] = IF x = k THEN s ELSE script[x]
  BY DEF FilesInv, MovesTo
<1>2. \A x \in Calls : In(x)' = In(x)
  BY DEF In, MovesTo
<1>3. script'[j] = script[j] /\ AloneAt(j) /\ Active(j)
  BY <1>1 DEF AloneInv, Active
<1>4. In(k) # In(j)
  BY <1>3 DEF AloneAt, MovesTo, Begun
<1>5. In(j) \in Pods
  BY <1>3 DEF FilesInv
<1>6. file'[In(j)] = file[In(j)] /\ file[In(j)] # 0 /\ file[In(j)] \in Calls
  BY <1>3, <1>4, <1>5 DEF MovesTo, AloneAt, FilesInv
<1>7. content'[file[In(j)]] = content[file[In(j)]]
  <2>1. ~(script[k].at = "tar" /\ file[In(j)] = script[k].on)
    BY <1>4, <1>5 DEF FilesInv, Holding
  <2> QED
    BY <1>6, <2>1 DEF MovesTo
<1>8. \A x \in Calls \ {j} : Active(x)' /\ In(x)' = In(j)' => script'[x].at = "start"
  BY <1>1, <1>2, <1>3, <1>4 DEF AloneAt, Active
<1> QED
  BY <1>2, <1>3, <1>6, <1>7, <1>8 DEF AloneAt

\* And one that is alone stays so.
LEMMA MovesKeepsAlone ==
  ASSUME FilesInv, AloneInv, NEW k \in Calls, NEW s, MovesTo(k, s),
         s.at \in {"tar", "packed", "curl"} /\ k \notin overlapped =>
           /\ script[k].at \in {"tar", "packed", "curl"}
           /\ file'[In(k)] = file[In(k)]
           /\ s.at # "tar"
           /\ s.at = "packed" => content'[file[In(k)]] = "whole"
           /\ s.at = "curl" => s.sends = "whole"
  PROVE  AloneInv'
<1>1. \A x \in Calls : script'[x] = IF x = k THEN s ELSE script[x]
  BY DEF FilesInv, MovesTo
<1>2. \A x \in Calls : In(x)' = In(x)
  BY DEF In, MovesTo
<1>3. ASSUME NEW j \in Calls \ overlapped', script'[j].at \in {"tar", "packed", "curl"}
      PROVE  AloneAt(j)'
  <2>0. j \in Calls \ overlapped
    BY DEF MovesTo
  <2>1. CASE j # k
    BY <1>3, <2>0, <2>1, MovesKeepsOthers
  <2>2. CASE j = k
    <3>1. script'[k] = s /\ s.at \in {"packed", "curl"} /\ AloneAt(k)
      BY <1>1, <1>3, <2>0, <2>2 DEF AloneInv
    <3>2. \A x \in Calls \ {k} : Active(x)' /\ In(x)' = In(k)' => script'[x].at = "start"
      BY <1>1, <1>2, <3>1 DEF AloneAt, Active
    <3>3. file'[In(k)] = file[In(k)] /\ file[In(k)] # 0
      BY <2>0, <2>2, <3>1 DEF AloneAt
    <3>4. /\ s.at = "packed" => content'[file[In(k)]] = "whole"
          /\ s.at = "curl" => s.on = file[In(k)] /\ s.sends = "whole"
      BY <2>0, <2>2, <3>1 DEF MovesTo
    <3> QED
      BY <1>2, <2>2, <3>1, <3>2, <3>3, <3>4 DEF AloneAt
  <2> QED
    BY <2>1, <2>2
<1> QED
  BY <1>3 DEF AloneInv

\* The file a tar opens is its pod's, or a new one; its tar is the only one on
\* it unless another script is in the pod.
TarFile(k) == IF file[In(k)] = 0 THEN k ELSE file[In(k)]

\* The file that a tar opens is no other pod's, and nobody outside has it
\* open.
LEMMA TarFileFacts ==
  ASSUME FilesInv, NEW k \in Calls, script[k].at = "start"
  PROVE  /\ In(k) \in Pods /\ Active(k) /\ TarFile(k) \in Calls /\ TarFile(k) # 0
         /\ \A q \in Pods : file[q] = TarFile(k) => q = In(k)
         /\ \A j \in Calls : Holding(j) /\ script[j].on = TarFile(k) => In(j) = In(k) /\ j # k
<1>1. Active(k) /\ In(k) \in Pods /\ ~Begun(k) /\ 0 \notin Calls
  BY DEF Active, FilesInv, Begun, Calls
<1>2. CASE file[In(k)] = 0
  <2>1. TarFile(k) = k
    BY <1>2 DEF TarFile
  <2>2. \A q \in Pods : file[q] # k
    BY <1>1 DEF FilesInv
  <2>3. \A j \in Calls : Holding(j) => script[j].on # k
    BY <1>1 DEF FilesInv
  <2> QED
    BY <1>1, <2>1, <2>2, <2>3
<1>3. CASE file[In(k)] # 0
  <2>1. TarFile(k) = file[In(k)] /\ file[In(k)] \in Calls
    BY <1>1, <1>3 DEF TarFile, FilesInv
  <2>2. \A q \in Pods : file[q] = file[In(k)] => q = In(k)
    BY <1>1, <1>3 DEF FilesInv
  <2>3. \A j \in Calls : Holding(j) /\ script[j].on = file[In(k)] => In(j) = In(k)
    BY <1>1 DEF FilesInv
  <2>4. ~Holding(k)
    BY DEF Holding
  <2> QED
    BY <1>1, <1>3, <2>1, <2>2, <2>3, <2>4
<1> QED
  BY <1>2, <1>3

\* What TarStart does, script by script.
LEMMA TarStartFacts ==
  ASSUME FilesInv, NEW k \in Calls, TarStart(k)
  PROVE  /\ script' \in [Calls -> Scripts]
         /\ script'[k].at = "tar" /\ script'[k].on = TarFile(k)
         /\ \A j \in Calls \ {k} :
              /\ script'[j].at = script[j].at
              /\ Holding(j) => script'[j].on = script[j].on
              /\ ~(script[j].at = "curl" /\ script[j].on = TarFile(k)) => script'[j] = script[j]
         /\ file' = [file EXCEPT ![In(k)] = TarFile(k)]
         /\ content' = [content EXCEPT ![TarFile(k)] =
              IF \E j \in Calls : script[j].at = "tar" /\ script[j].on = TarFile(k)
              THEN "torn" ELSE "partial"]
<1> DEFINE i == TarFile(k)
           t == [at |-> "tar", on |-> i]
           torn(j) == [script[j] EXCEPT !.sends = "torn"]
<1>1. i \in Calls /\ script[k].at = "start"
  BY TarFileFacts DEF TarStart
<1>2. t \in Scripts /\ t.at = "tar" /\ t.on = i
  BY <1>1, ScriptKinds
<1>3. \A j \in Calls : script[j].at = "curl" =>
        torn(j) \in Scripts /\ torn(j).at = "curl" /\ torn(j).on = script[j].on
  BY ScriptTorn DEF FilesInv
<1>4. script' = [j \in Calls |->
        IF j = k THEN t
        ELSE IF script[j].at = "curl" /\ script[j].on = i THEN torn(j) ELSE script[j]]
  BY DEF TarStart, TarFile
<1>5. /\ file' = [file EXCEPT ![In(k)] = i]
      /\ content' = [content EXCEPT ![i] =
              IF \E j \in Calls : script[j].at = "tar" /\ script[j].on = i
              THEN "torn" ELSE "partial"]
  BY DEF TarStart, TarFile
<1> HIDE DEF t, torn, i
<1>6. \A j \in Calls : script'[j] =
        IF j = k THEN t
        ELSE IF script[j].at = "curl" /\ script[j].on = i THEN torn(j) ELSE script[j]
  BY <1>4
<1>7. \A j \in Calls : script'[j] \in Scripts
  BY <1>2, <1>3, <1>6 DEF FilesInv
<1>8. script' \in [Calls -> Scripts]
  BY <1>4, <1>7
<1>9. /\ script'[k].at = "tar" /\ script'[k].on = i
      /\ \A j \in Calls \ {k} :
           /\ script'[j].at = script[j].at
           /\ Holding(j) => script'[j].on = script[j].on
           /\ ~(script[j].at = "curl" /\ script[j].on = i) => script'[j] = script[j]
  BY <1>2, <1>3, <1>6
<1> QED
  BY <1>5, <1>8, <1>9 DEF i

\* A tar that creates or truncates its pod's file shares it with no other
\* pod.
LEMMA TarStartKeepsFiles ==
  ASSUME FilesInv, NEW k \in Calls, TarStart(k)
  PROVE  FilesInv'
<1> DEFINE i == TarFile(k)
<1>0. script[k].at = "start" /\ UNCHANGED call
  BY DEF TarStart
<1>1. /\ In(k) \in Pods /\ Active(k) /\ i \in Calls /\ i # 0
      /\ \A q \in Pods : file[q] = i => q = In(k)
      /\ \A j \in Calls : Holding(j) /\ script[j].on = i => In(j) = In(k) /\ j # k
  BY <1>0, TarFileFacts
<1>2. /\ script' \in [Calls -> Scripts]
      /\ script'[k].at = "tar" /\ script'[k].on = i
      /\ \A j \in Calls \ {k} : /\ script'[j].at = script[j].at
                                /\ Holding(j) => script'[j].on = script[j].on
      /\ file' = [file EXCEPT ![In(k)] = i]
      /\ DOMAIN content' = DOMAIN content
  BY TarStartFacts
<1>b. i = k \/ Begun(i)
  BY <1>1 DEF TarFile, FilesInv
<1> HIDE DEF i
<1>3. \A q \in Pods : file'[q] = IF q = In(k) THEN i ELSE file[q]
  BY <1>2 DEF FilesInv
<1>4. \A j \in Calls : In(j)' = In(j)
  BY <1>0 DEF In
<1>5. \A j \in Calls : Begun(j) \/ j = k => Begun(j)'
  BY <1>0, <1>2 DEF Begun
<1>6. file' \in [Pods -> Calls \cup {0}] /\ DOMAIN content' = Calls
  BY <1>1, <1>2 DEF FilesInv
<1>7. \A j \in Calls : call'[j].at = "off" => script'[j].at = "off"
  BY <1>0, <1>2 DEF FilesInv
<1>8. \A j \in Calls : Active(j)' => In(j)' \in Pods
  BY <1>1, <1>2, <1>4 DEF FilesInv, Active
<1>9. \A p \in Pods : file'[p] # 0 => Begun(file[p])'
  <2>1. ASSUME NEW p \in Pods, file'[p] # 0
        PROVE  Begun(file[p])'
    <3>1. file'[p] \in Calls /\ (Begun(file'[p]) \/ file'[p] = k)
      BY <1>1, <1>3, <1>b, <2>1 DEF FilesInv
    <3> QED
      BY <1>5, <3>1 DEF Begun
  <2> QED
    BY <2>1
<1>10. \A p, q \in Pods : file'[p] = file'[q] /\ file'[p] # 0 => p = q
  BY <1>1, <1>3 DEF FilesInv
<1>11. ASSUME NEW j \in Calls, Holding(j)'
       PROVE  /\ Begun(script[j].on)'
              /\ \A p \in Pods : file'[p] = script'[j].on => p = In(j)'
  <2>1. CASE j = k
    <3>1. script'[j].on = i /\ script'[i].at \notin {"off", "start"}
      BY <1>1, <1>2, <1>5, <1>b, <2>1 DEF Begun
    <3> QED
      BY <1>1, <1>3, <1>4, <2>1, <3>1 DEF Begun
  <2>2. CASE j # k
    <3>1. Holding(j) /\ script'[j].on = script[j].on
      BY <1>2, <1>11, <2>2 DEF Holding
    <3>2. script[j].on \in Calls
      BY <3>1, ScriptFields DEF Holding, FilesInv
    <3>3. Begun(script[j].on) /\ \A p \in Pods : file[p] = script[j].on => p = In(j)
      BY <3>1 DEF FilesInv
    <3>4. \A p \in Pods : file'[p] = script[j].on => p = In(j)
      BY <1>1, <1>3, <3>1, <3>3
    <3> QED
      BY <1>4, <1>5, <3>1, <3>2, <3>3, <3>4 DEF Begun
  <2> QED
    BY <2>1, <2>2
<1> QED
  BY <1>2, <1>6, <1>7, <1>8, <1>9, <1>10, <1>11 DEF FilesInv

\* A tar that starts beside another script marks both; else it is alone.
LEMMA TarStartKeepsAlone ==
  ASSUME FilesInv, AloneInv, NEW k \in Calls, TarStart(k)
  PROVE  AloneInv'
<1> DEFINE i == TarFile(k)
           there == {j \in Calls : Active(j) /\ In(j) = In(k)}
<1>0. /\ script[k].at = "start" /\ UNCHANGED call
      /\ overlapped' = IF there = {k} THEN overlapped ELSE overlapped \cup there
  BY DEF TarStart
<1>1. /\ In(k) \in Pods /\ Active(k) /\ i \in Calls /\ i # 0
      /\ \A q \in Pods : file[q] = i => q = In(k)
      /\ \A j \in Calls : Holding(j) /\ script[j].on = i => In(j) = In(k) /\ j # k
  BY <1>0, TarFileFacts
<1>2. /\ script'[k].at = "tar" /\ script'[k].on = i
      /\ \A j \in Calls \ {k} :
           /\ script'[j].at = script[j].at
           /\ Holding(j) => script'[j].on = script[j].on
           /\ ~(script[j].at = "curl" /\ script[j].on = i) => script'[j] = script[j]
      /\ file' = [file EXCEPT ![In(k)] = i]
      /\ content' = [content EXCEPT ![i] =
           IF \E j \in Calls : script[j].at = "tar" /\ script[j].on = i
           THEN "torn" ELSE "partial"]
  BY TarStartFacts
<1> HIDE DEF i
<1>3. \A q \in Pods : file'[q] = IF q = In(k) THEN i ELSE file[q]
  BY <1>2 DEF FilesInv
<1>4. \A j \in Calls : In(j)' = In(j)
  BY <1>0 DEF In
<1>5. \A j \in Calls : Active(j)' <=> Active(j)
  BY <1>1, <1>2 DEF Active
<1>6. \A j \in there : j \in Calls /\ Active(j) /\ In(j) = In(k)
  OBVIOUS
<1>7. \A j \in Calls : Active(j) /\ In(j) = In(k) => j \in there
  OBVIOUS
<1> HIDE DEF there
<1>8. ASSUME NEW j \in Calls \ overlapped', script'[j].at \in {"tar", "packed", "curl"}
      PROVE  AloneAt(j)'
  <2>0. j \notin overlapped /\ (there = {k} \/ j \notin there)
    BY <1>0, <1>8
  <2>1. CASE j = k
    <3>1. there = {k}
      BY <1>1, <1>7, <2>0, <2>1
    <3>2. \A x \in Calls \ {k} : ~(Active(x) /\ In(x) = In(k))
      BY <1>7, <3>1
    <3>3. ~\E x \in Calls : script[x].at = "tar" /\ script[x].on = i
      <4>1. \A x \in Calls : script[x].at = "tar" => Active(x) /\ Holding(x)
        BY DEF Active, Holding
      <4> QED
        BY <1>1, <3>2, <4>1
    <3>4. content'[i] = "partial"
      BY <1>1, <1>2, <3>3 DEF FilesInv
    <3>5. file'[In(k)] = i
      BY <1>1, <1>3
    <3>6. \A x \in Calls \ {k} : Active(x)' /\ In(x)' = In(k)' => script'[x].at = "start"
      BY <1>4, <1>5, <3>2
    <3> QED
      BY <1>1, <1>2, <1>4, <2>1, <3>4, <3>5, <3>6 DEF AloneAt
  <2>2. CASE j # k
    <3>1. script'[j].at = script[j].at /\ Active(j)
      BY <1>2, <1>8, <2>2 DEF Active
    <3>2. j \notin there
      BY <2>0, <2>2
    <3>3. In(j) # In(k) /\ In(j) \in Pods
      BY <1>7, <3>1, <3>2 DEF FilesInv
    <3>4. AloneAt(j)
      BY <1>8, <2>0, <3>1 DEF AloneInv
    <3>5. file'[In(j)] = file[In(j)] /\ file[In(j)] # i /\ file[In(j)] \in Calls
      BY <1>1, <1>3, <3>3, <3>4 DEF AloneAt, FilesInv
    <3>6. content'[file[In(j)]] = content[file[In(j)]]
      BY <1>2, <3>5 DEF FilesInv
    <3>7. script'[j] = script[j]
      BY <1>2, <2>2, <3>4, <3>5 DEF AloneAt
    <3>8. \A x \in Calls \ {j} : Active(x)' /\ In(x)' = In(j)' => script'[x].at = "start"
      BY <1>2, <1>4, <1>5, <3>3, <3>4 DEF AloneAt
    <3>9. In(j)' = In(j)
      BY <1>4
    <3> QED
      BY <3>4, <3>5, <3>6, <3>7, <3>8, <3>9 DEF AloneAt
  <2> QED
    BY <2>1, <2>2
<1> QED
  BY <1>8 DEF AloneInv
--------------------------------------------------------------------------------
(* The end of a pod.                                                       *)

\* A pod that goes away takes its scripts and its file with it.
LEMMA EndsKeeps ==
  ASSUME FilesInv, AloneInv, NEW p \in Pods, Ends(p), UNCHANGED <<content, call, overlapped>>
  PROVE  FilesInv' /\ AloneInv'
<1> DEFINE f == [at |-> "failed"]
<1>1. f \in Scripts /\ f.at = "failed"
  BY DEF Scripts
<1>2. script' = [k \in Calls |-> IF Active(k) /\ In(k) = p THEN f ELSE script[k]]
  BY DEF Ends
<1> HIDE DEF f
<1>3. \A k \in Calls : script'[k] = IF Active(k) /\ In(k) = p THEN f ELSE script[k]
  BY <1>2
<1>4. \A q \in Pods : file'[q] = IF q = p THEN 0 ELSE file[q]
  BY DEF Ends, FilesInv
<1>5. \A k \in Calls : In(k)' = In(k)
  BY DEF In
<1>6. \A k \in Calls : Active(k)' => Active(k) /\ In(k) # p /\ script'[k] = script[k]
  BY <1>1, <1>3 DEF Active
<1>7. \A k \in Calls : Begun(k) => script'[k].at \notin {"off", "start"}
  BY <1>1, <1>3 DEF Begun
<1>8. FilesInv'
  <2>1. script' \in [Calls -> Scripts]
    BY <1>1, <1>2, <1>3 DEF FilesInv
  <2>2. file' \in [Pods -> Calls \cup {0}] /\ DOMAIN content' = Calls
    BY DEF FilesInv, Ends
  <2>3. \A k \in Calls : call'[k].at = "off" => script'[k].at = "off"
    BY <1>3 DEF FilesInv, Active
  <2>4. \A k \in Calls : Active(k)' => In(k)' \in Pods
    BY <1>5, <1>6 DEF FilesInv
  <2>5. \A q \in Pods : file'[q] # 0 => Begun(file[q])'
    BY <1>4, <1>7 DEF FilesInv, Begun
  <2>6. \A q, r \in Pods : file'[q] = file'[r] /\ file'[q] # 0 => q = r
    BY <1>4 DEF FilesInv
  <2>7. ASSUME NEW k \in Calls, Holding(k)'
        PROVE  /\ Begun(script[k].on)'
               /\ \A q \in Pods : file'[q] = script'[k].on => q = In(k)'
    <3>1. Active(k)'
      BY <2>7 DEF Holding, Active
    <3>2. Holding(k) /\ script'[k] = script[k]
      BY <1>6, <2>7, <3>1 DEF Holding
    <3>3. script[k].on \in Calls /\ script[k].on # 0
      BY <3>2, ScriptFields DEF Holding, FilesInv, Calls
    <3>4. Begun(script[k].on) /\ \A q \in Pods : file[q] = script[k].on => q = In(k)
      BY <3>2 DEF FilesInv
    <3> QED
      BY <1>4, <1>5, <1>7, <3>2, <3>3, <3>4 DEF Begun
  <2> QED
    BY <2>1, <2>2, <2>3, <2>4, <2>5, <2>6, <2>7 DEF FilesInv
<1>9. AloneInv'
  <2>1. ASSUME NEW k \in Calls \ overlapped', script'[k].at \in {"tar", "packed", "curl"}
        PROVE  AloneAt(k)'
    <3>1. Active(k)'
      BY <2>1 DEF Active
    <3>2. Active(k) /\ In(k) # p /\ script'[k] = script[k] /\ In(k) \in Pods
      BY <1>6, <3>1 DEF FilesInv
    <3>3. AloneAt(k)
      BY <2>1, <3>2 DEF AloneInv
    <3>4. file'[In(k)] = file[In(k)]
      BY <1>4, <3>2
    <3>5. \A x \in Calls \ {k} : Active(x)' /\ In(x)' = In(k)' => script'[x].at = "start"
      BY <1>5, <1>6, <3>3 DEF AloneAt
    <3> QED
      BY <1>5, <3>2, <3>3, <3>4, <3>5 DEF AloneAt
  <2> QED
    BY <2>1 DEF AloneInv
<1> QED
  BY <1>8, <1>9
--------------------------------------------------------------------------------
(* The actions, as far as scripts and files go.                            *)

\* The end of a tar leaves a whole archive to a script that is alone.
LEMMA TarEndKeeps ==
  ASSUME FilesInv, AloneInv, NEW k \in Calls, TarEnd(k)
  PROVE  FilesInv' /\ AloneInv'
<1> DEFINE i == script[k].on
<1>0. /\ script[k].at = "tar" /\ Active(k) /\ Begun(k) /\ Holding(k)
      /\ UNCHANGED <<file, call, overlapped>>
  BY DEF TarEnd, Active, Begun, Holding
<1>1. i \in Calls
  BY <1>0, ScriptFields DEF FilesInv
<1>2. CASE /\ content' = [content EXCEPT ![i] = IF @ = "torn" THEN "torn" ELSE "whole"]
           /\ script' = [script EXCEPT ![k] = [at |-> "packed"]]
  <2> DEFINE s == [at |-> "packed"]
  <2>1. s \in Scripts /\ s.at = "packed"
    BY DEF Scripts
  <2>2. script' = [script EXCEPT ![k] = s]
    BY <1>2
  <2> HIDE DEF s, i
  <2>3. \A x \in Calls : x # i => content'[x] = content[x]
    BY <1>2 DEF FilesInv
  <2>4. MovesTo(k, s)
    BY <1>0, <1>2, <2>1, <2>2, <2>3 DEF MovesTo, FilesInv, i
  <2>5. k \notin overlapped => content'[file[In(k)]] = "whole"
    <3>1. SUFFICES ASSUME k \notin overlapped
                   PROVE  content'[file[In(k)]] = "whole"
      OBVIOUS
    <3>2. AloneAt(k)
      BY <1>0, <3>1 DEF AloneInv
    <3>3. file[In(k)] = i /\ content[i] = "partial"
      BY <1>0, <3>2 DEF AloneAt, i
    <3> QED
      BY <1>1, <1>2, <3>3 DEF FilesInv
  <2>6. file' = file
    BY <1>0
  <2> QED
    BY <1>0, <2>1, <2>4, <2>5, <2>6, MovesKeepsFiles, MovesKeepsAlone
<1>3. CASE script' = [script EXCEPT ![k] = [at |-> "failed"]] /\ UNCHANGED content
  <2> DEFINE s == [at |-> "failed"]
  <2>1. s \in Scripts /\ s.at = "failed"
    BY DEF Scripts
  <2>2. script' = [script EXCEPT ![k] = s]
    BY <1>3
  <2> HIDE DEF s
  <2>3. MovesTo(k, s)
    BY <1>0, <1>3, <2>1, <2>2 DEF MovesTo, FilesInv
  <2> QED
    BY <2>1, <2>3, MovesKeepsFiles, MovesKeepsAlone
<1> QED
  BY <1>2, <1>3 DEF TarEnd

\* A curl of a script that is alone opens the archive its tar made.
LEMMA CurlOpenKeeps ==
  ASSUME FilesInv, AloneInv, NEW k \in Calls, CurlOpen(k)
  PROVE  FilesInv' /\ AloneInv'
<1> DEFINE i == file[In(k)]
           x == IF content[i] = "whole" THEN "whole" ELSE "torn"
           s == IF i = 0 THEN [at |-> "failed"] ELSE [at |-> "curl", on |-> i, sends |-> x]
<1>0. /\ script[k].at = "packed" /\ Active(k) /\ Begun(k) /\ In(k) \in Pods
      /\ UNCHANGED <<file, content, call, overlapped>>
  BY DEF CurlOpen, Active, Begun, FilesInv
<1>1. i \in Calls \cup {0} /\ x \in {"whole", "torn"}
  BY <1>0 DEF FilesInv
<1>2. script' = [script EXCEPT ![k] = s]
  BY DEF CurlOpen
<1>3. /\ i = 0 => s.at = "failed" /\ s \in Scripts
      /\ i # 0 => s.at = "curl" /\ s.on = i /\ s.sends = x /\ s \in Scripts
  BY <1>1, ScriptKinds DEF Scripts
<1>4. k \notin overlapped => i # 0 /\ x = "whole"
  BY <1>0 DEF AloneInv, AloneAt
<1> HIDE DEF s, x
<1>5. MovesTo(k, s)
  BY <1>0, <1>1, <1>2, <1>3 DEF MovesTo, FilesInv
<1>6. FilesInv'
  BY <1>5, MovesKeepsFiles
<1>7. AloneInv'
  <2>1. file'[In(k)] = file[In(k)]
    BY <1>0
  <2> HIDE DEF i
  <2>2. s.at \in {"tar", "packed", "curl"} /\ k \notin overlapped =>
          s.at = "curl" /\ s.sends = "whole"
    BY <1>3, <1>4
  <2> QED
    BY <1>0, <1>5, <2>1, <2>2, MovesKeepsAlone
<1> QED
  BY <1>6, <1>7

\* The end of a curl changes no file.
LEMMA CurlEndKeeps ==
  ASSUME FilesInv, AloneInv, NEW k \in Calls, CurlEnd(k)
  PROVE  FilesInv' /\ AloneInv'
<1>0. /\ script[k].at = "curl" /\ Active(k) /\ Begun(k)
      /\ UNCHANGED <<file, content, call, overlapped>>
  BY DEF CurlEnd, Active, Begun
<1>1. PICK a \in {"rm", "failed"} : script' = [script EXCEPT ![k] = [at |-> a]]
  BY DEF CurlEnd
<1> DEFINE s == [at |-> a]
<1>2. s \in Scripts /\ s.at = a
  BY DEF Scripts
<1>3. script' = [script EXCEPT ![k] = s]
  BY <1>1
<1> HIDE DEF s
<1>4. MovesTo(k, s)
  BY <1>0, <1>2, <1>3 DEF MovesTo, FilesInv
<1> QED
  BY <1>2, <1>4, MovesKeepsFiles, MovesKeepsAlone

\* Removing the file takes it from nobody who is alone.
LEMMA RmKeeps ==
  ASSUME FilesInv, AloneInv, NEW k \in Calls, Rm(k)
  PROVE  FilesInv' /\ AloneInv'
<1>0. /\ script[k].at = "rm" /\ Active(k) /\ Begun(k) /\ In(k) \in Pods
      /\ UNCHANGED <<content, call, overlapped>>
  BY DEF Rm, Active, Begun, FilesInv
<1> DEFINE s == [at |-> "ok"]
<1>1. s \in Scripts /\ s.at = "ok"
  BY DEF Scripts
<1>2. script' = [script EXCEPT ![k] = s] /\ file' = [file EXCEPT ![In(k)] = 0]
  BY DEF Rm
<1> HIDE DEF s
<1>3. /\ file' \in [Pods -> Calls \cup {0}]
      /\ \A q \in Pods : file'[q] = file[q] \/ (q = In(k) /\ file'[q] = 0)
  BY <1>2 DEF FilesInv
<1>4. MovesTo(k, s)
  BY <1>0, <1>1, <1>2, <1>3 DEF MovesTo, FilesInv
<1> QED
  BY <1>1, <1>4, MovesKeepsFiles, MovesKeepsAlone

\* A call that is refused, or that starts its script, keeps the files.
LEMMA BeginKeeps ==
  ASSUME FilesInv, AloneInv, UploadInv, NEW k \in Calls, Begin(k)
  PROVE  FilesInv' /\ AloneInv'
<1>0. call[k].at = "off" /\ ~Active(k) /\ UNCHANGED <<file, content, overlapped>>
  <2>1. call[k] = Off /\ UNCHANGED <<file, content, overlapped>>
    BY DEF Begin
  <2>2. call[k].at = "off"
    BY <2>1 DEF Off
  <2>3. script[k].at = "off"
    BY <2>2 DEF FilesInv
  <2> QED
    BY <2>1, <2>2, <2>3 DEF Active
<1>1. ASSUME NEW code, Done(k, code), UNCHANGED script
      PROVE  FilesInv' /\ AloneInv'
  BY <1>0, <1>1, DoneQuiet, QuietKeeps
<1>2. ASSUME NEW p \in FindPod,
             call' = [call EXCEPT ![k] = [at |-> "exec", pod |-> p]],
             script' = [script EXCEPT ![k] = [at |-> "start"]]
      PROVE  FilesInv' /\ AloneInv'
  <2>1. p \in Pods /\ Starts(k, p)
    BY <1>0, <1>2 DEF FindPod, Starts
  <2> QED
    BY <2>1, StartsKeeps
<1> QED
  BY <1>1, <1>2 DEF Begin

\* A lost connection leaves the script where it is, in its pod.
LEMMA LoseKeeps ==
  ASSUME FilesInv, AloneInv, UploadInv, NEW k \in Calls, Lose(k)
  PROVE  FilesInv' /\ AloneInv'
<1> DEFINE x == [at |-> "lost", pod |-> call[k].pod]
<1>1. call' = [call EXCEPT ![k] = x] /\ x.at = "lost" /\ x.pod = call[k].pod
  BY DEF Lose
<1> HIDE DEF x
<1>2. \A j \in Calls : call'[j] = IF j = k THEN x ELSE call[j]
  BY <1>1 DEF UploadInv
<1>3. Quiet
  BY <1>1, <1>2 DEF Quiet, Lose
<1> QED
  BY <1>3, QuietKeeps

\* An answer leaves the scripts alone.
LEMMA AnswerKeeps ==
  ASSUME FilesInv, AloneInv, UploadInv, NEW k \in Calls, Answer(k)
  PROVE  FilesInv' /\ AloneInv'
<1>1. ~Active(k) /\ UNCHANGED <<script, file, content, overlapped>>
  BY DEF Answer, Active
<1>2. \E code : Done(k, code)
  BY DEF Answer
<1> QED
  BY <1>1, <1>2, DoneQuiet, QuietKeeps
--------------------------------------------------------------------------------
(* Uploads, answers and pods.                                              *)

\* An archive lands only at the end of a curl, a 200 only follows a script
\* that went through, and a pod crashes only over a torn archive.
Lands ==
  /\ DOMAIN object' = Calls /\ DOMAIN call' = Calls /\ DOMAIN pod' = Pods
  /\ \A p \in Pods : DOMAIN pod'[p] = {"at", "url"}
  /\ \A k \in Calls : \/ object'[k] = object[k]
                      \/ script[k].at = "curl" /\ object'[k] = script[k].sends
  /\ \A k \in Calls : script'[k].at \in {"rm", "ok"} =>
       \/ script[k].at \in {"rm", "ok"}
       \/ script[k].at = "curl" /\ object'[k] = script[k].sends
  /\ \A k \in Calls : call'[k].at = "done" /\ call'[k].code = StatusOK =>
       \/ call[k].at = "done" /\ call[k].code = StatusOK
       \/ script[k].at = "ok"
  /\ overlapped \subseteq overlapped'
  /\ \A p \in Pods : pod'[p].at = "crash" =>
       \/ pod'[p].url = -1
       \/ pod[p].at = "crash" /\ pod'[p].url = pod[p].url
       \/ pod'[p].url \in Calls /\ object[pod'[p].url] = "torn"

\* Steps of this kind keep the claims about uploads, answers and crashes.
LEMMA LandsKeeps ==
  ASSUME BackupInv, Lands
  PROVE  UploadInv' /\ TornOnlyIfOverlapped' /\ RecordedWasUploaded'
<1>1. FilesInv /\ AloneInv /\ UploadInv /\ TornOnlyIfOverlapped /\ RecordedWasUploaded
  BY DEF BackupInv
<1>2. \A k \in Calls : script[k].at = "curl" => script[k].sends \in {"whole", "torn"}
  BY <1>1, ScriptFields DEF FilesInv
<1>3. \A k \in Calls : script[k].at = "curl" /\ k \notin overlapped => script[k].sends = "whole"
  BY <1>1 DEF AloneInv, AloneAt
<1>4. \A k \in Calls : object[k] # "none" => object'[k] # "none"
  BY <1>2 DEF Lands
<1>5. UploadInv'
  <2>1. \A k \in Calls : script'[k].at \in {"rm", "ok"} => object'[k] # "none"
    BY <1>1, <1>2, <1>4 DEF Lands, UploadInv
  <2> QED
    BY <2>1 DEF Lands, UploadInv
<1>6. TornOnlyIfOverlapped'
  <2>1. \A k \in Calls : object'[k] = "torn" => k \in overlapped'
    BY <1>1, <1>3 DEF Lands, TornOnlyIfOverlapped
  <2>2. \A p \in Pods : pod'[p].at = "crash" => pod'[p].url \in overlapped' \cup {-1}
    BY <1>1 DEF Lands, TornOnlyIfOverlapped
  <2> QED
    BY <2>1, <2>2 DEF TornOnlyIfOverlapped
<1>7. RecordedWasUploaded'
  <2>1. ASSUME NEW k \in Calls, call'[k].at = "done", call'[k].code = StatusOK
        PROVE  object'[k] # "none"
    <3>1. object[k] # "none"
      BY <1>1, <2>1 DEF Lands, RecordedWasUploaded, Recorded, UploadInv
    <3> QED
      BY <1>4, <3>1
  <2> QED
    BY <2>1 DEF RecordedWasUploaded, Recorded
<1> QED
  BY <1>5, <1>6, <1>7

\* Steps that touch neither archives nor pods.
LEMMA ScriptLands ==
  ASSUME UploadInv, UNCHANGED <<object, pod, overlapped>>, DOMAIN call' = Calls,
         \A k \in Calls : script'[k].at \in {"rm", "ok"} => script[k].at \in {"rm", "ok"},
         \A k \in Calls : call'[k].at = "done" /\ call'[k].code = StatusOK =>
           \/ call[k].at = "done" /\ call[k].code = StatusOK
       \/ script[k].at = "ok"
  PROVE  Lands
BY DEF Lands, UploadInv

\* An answer lands nothing, and is a 200 only after a script that went
\* through.
LEMMA DoneLands ==
  ASSUME UploadInv, NEW k \in Calls, NEW code, code = StatusOK => script[k].at = "ok",
         Done(k, code), UNCHANGED <<script, object, pod, overlapped>>
  PROVE  Lands
<1> DEFINE x == [at |-> "done", code |-> code]
<1>1. call' = [call EXCEPT ![k] = x] /\ x.at = "done" /\ x.code = code
  BY DEF Done
<1> HIDE DEF x
<1>2. DOMAIN call' = Calls /\ \A j \in Calls : call'[j] = IF j = k THEN x ELSE call[j]
  BY <1>1 DEF UploadInv
<1> QED
  BY <1>1, <1>2, ScriptLands

\* The codes handleRunFunction refuses a call or reports a failure with differ
\* from 200.
LEMMA Refusals ==
  StatusOK \notin {StatusBadRequest, StatusNotFound, StatusConflict, StatusInternalServerError}
BY SMT DEF StatusOK, StatusBadRequest, StatusNotFound, StatusConflict, StatusInternalServerError

\* A call that is refused gets no 200.
LEMMA BeginLands ==
  ASSUME UploadInv, FilesInv, NEW k \in Calls, Begin(k)
  PROVE  Lands
<1>0. UNCHANGED <<object, pod, overlapped>>
  BY DEF Begin
<1>1. ASSUME NEW code \in {StatusBadRequest, StatusNotFound, StatusConflict,
                         StatusInternalServerError},
             Done(k, code), UNCHANGED script
      PROVE  Lands
  <2>1. code # StatusOK
    BY Refusals
  <2> QED
    BY <1>0, <1>1, <2>1, DoneLands
<1>2. ASSUME NEW p \in FindPod,
             call' = [call EXCEPT ![k] = [at |-> "exec", pod |-> p]],
             script' = [script EXCEPT ![k] = [at |-> "start"]]
      PROVE  Lands
  <2> DEFINE x == [at |-> "exec", pod |-> p]
             y == [at |-> "start"]
  <2>1. x.at = "exec" /\ y.at = "start"
    OBVIOUS
  <2>2. call' = [call EXCEPT ![k] = x] /\ script' = [script EXCEPT ![k] = y]
    BY <1>2
  <2> HIDE DEF x, y
  <2>3. DOMAIN call' = Calls /\ \A j \in Calls : /\ call'[j] = IF j = k THEN x ELSE call[j]
                                                 /\ script'[j] = IF j = k THEN y ELSE script[j]
    BY <2>2 DEF UploadInv, FilesInv
  <2> QED
    BY <1>0, <2>1, <2>3, ScriptLands
<1>3. \/ Done(k, StatusBadRequest) /\ UNCHANGED script
      \/ Done(k, StatusNotFound) /\ UNCHANGED script
      \/ Done(k, StatusConflict) /\ UNCHANGED script
      \/ Done(k, StatusInternalServerError) /\ UNCHANGED script
      \/ \E p \in FindPod : /\ call' = [call EXCEPT ![k] = [at |-> "exec", pod |-> p]]
                            /\ script' = [script EXCEPT ![k] = [at |-> "start"]]
  BY DEF Begin
<1> QED
  BY <1>1, <1>2, <1>3

\* An answer passes on the exit status; a lost connection answers nothing.
LEMMA CallLands ==
  ASSUME UploadInv, NEW k \in Calls, Answer(k) \/ Lose(k)
  PROVE  Lands
<1>1. CASE Answer(k)
  <2>1. \E code : Done(k, code) /\ (code = StatusOK => script[k].at = "ok")
    BY <1>1, Refusals DEF Answer
  <2>2. UNCHANGED <<script, object, pod, overlapped>>
    BY <1>1 DEF Answer
  <2> QED
    BY <2>1, <2>2, DoneLands
<1>2. CASE Lose(k)
  <2> DEFINE x == [at |-> "lost", pod |-> call[k].pod]
  <2>1. call' = [call EXCEPT ![k] = x] /\ x.at = "lost"
    BY <1>2 DEF Lose
  <2> HIDE DEF x
  <2>2. DOMAIN call' = Calls /\ \A j \in Calls : call'[j] = IF j = k THEN x ELSE call[j]
    BY <2>1 DEF UploadInv
  <2>3. UNCHANGED <<script, object, pod, overlapped>>
    BY <1>2 DEF Lose
  <2> QED
    BY <2>1, <2>2, <2>3, ScriptLands
<1> QED
  BY <1>1, <1>2

\* Of the script's steps, only the end of a curl uploads, and only then comes
\* rm.
LEMMA StepLands ==
  ASSUME UploadInv, FilesInv, NEW k \in Calls, Script(k)
  PROVE  Lands
<1>1. CASE TarStart(k)
  <2>1. \A j \in Calls : script'[j].at \in {"rm", "ok"} => script[j].at \in {"rm", "ok"}
    BY <1>1, TarStartFacts
  <2>2. UNCHANGED <<object, pod, call>> /\ overlapped \subseteq overlapped'
    BY <1>1 DEF TarStart
  <2> QED
    BY <2>1, <2>2 DEF Lands, UploadInv
<1>2. ASSUME NEW s, script' = [script EXCEPT ![k] = s], s.at \notin {"rm", "ok"},
             UNCHANGED <<object, pod, call, overlapped>>
      PROVE  Lands
  <2>1. \A j \in Calls : script'[j] = IF j = k THEN s ELSE script[j]
    BY <1>2 DEF FilesInv
  <2> QED
    BY <1>2, <2>1 DEF Lands, UploadInv
<1>3. CASE TarEnd(k)
  <2>1. PICK a \in {"packed", "failed"} : script' = [script EXCEPT ![k] = [at |-> a]]
    BY <1>3 DEF TarEnd
  <2> DEFINE s == [at |-> a]
  <2>2. s.at = a /\ script' = [script EXCEPT ![k] = s]
    BY <2>1
  <2> HIDE DEF s
  <2>3. UNCHANGED <<object, pod, call, overlapped>>
    BY <1>3 DEF TarEnd
  <2> QED
    BY <1>2, <2>2, <2>3
<1>4. CASE CurlOpen(k)
  <2> DEFINE i == file[In(k)]
             s == IF i = 0 THEN [at |-> "failed"]
                  ELSE [at |-> "curl", on |-> i,
                        sends |-> IF content[i] = "whole" THEN "whole" ELSE "torn"]
  <2>1. s.at \in {"failed", "curl"} /\ script' = [script EXCEPT ![k] = s]
    BY <1>4 DEF CurlOpen
  <2> HIDE DEF s
  <2>2. UNCHANGED <<object, pod, call, overlapped>>
    BY <1>4 DEF CurlOpen
  <2> QED
    BY <1>2, <2>1, <2>2
<1>5. CASE CurlEnd(k)
  <2>0. script[k].at = "curl" /\ UNCHANGED <<pod, call, overlapped>>
    BY <1>5 DEF CurlEnd
  <2> DEFINE landed == [object EXCEPT ![k] = script[k].sends]
  <2>1. PICK a \in {"rm", "failed"} : /\ script' = [script EXCEPT ![k] = [at |-> a]]
                                      /\ object' \in {object, landed}
                                      /\ a = "rm" => object' = landed
    BY <1>5 DEF CurlEnd
  <2> DEFINE s == [at |-> a]
  <2>2. s.at = a /\ script' = [script EXCEPT ![k] = s]
    BY <2>1
  <2> HIDE DEF s
  <2>3. \A j \in Calls : /\ script'[j] = IF j = k THEN s ELSE script[j]
                         /\ landed[j] = IF j = k THEN script[k].sends ELSE object[j]
    BY <2>2 DEF FilesInv, UploadInv
  <2>4. DOMAIN landed = Calls
    BY DEF UploadInv
  <2> HIDE DEF landed
  <2> QED
    BY <2>0, <2>1, <2>2, <2>3, <2>4 DEF Lands, UploadInv
<1>6. CASE Rm(k)
  <2> DEFINE s == [at |-> "ok"]
  <2>1. script' = [script EXCEPT ![k] = s] /\ script[k].at = "rm"
    BY <1>6 DEF Rm
  <2>2. UNCHANGED <<object, pod, call, overlapped>>
    BY <1>6 DEF Rm
  <2> HIDE DEF s
  <2>3. \A j \in Calls : script'[j] = IF j = k THEN s ELSE script[j]
    BY <2>1 DEF FilesInv
  <2> QED
    BY <2>1, <2>2, <2>3, ScriptLands DEF UploadInv
<1> QED
  BY <1>1, <1>3, <1>4, <1>5, <1>6 DEF Script

\* A pod starts, crashes, expires or goes.
LEMMA PodEdits ==
  ASSUME UploadInv, NEW p \in Pods, NEW x, DOMAIN x = {"at", "url"},
         pod' = [pod EXCEPT ![p] = x],
         x.at = "crash" =>
           \/ x.url = -1
           \/ pod[p].at = "crash" /\ x.url = pod[p].url
           \/ x.url \in Calls /\ object[x.url] = "torn",
         \A k \in Calls : script'[k].at \in {"rm", "ok"} => script[k].at \in {"rm", "ok"},
         UNCHANGED <<object, call, overlapped>>
  PROVE  Lands
<1>1. DOMAIN pod' = Pods /\ \A q \in Pods : pod'[q] = IF q = p THEN x ELSE pod[q]
  BY DEF UploadInv
<1> QED
  BY <1>1 DEF Lands, UploadInv

\* Moving a pod, or letting its URL expire, leaves its other field alone.
LEMMA PodFields ==
  ASSUME NEW r, DOMAIN r = {"at", "url"}, NEW v
  PROVE  /\ DOMAIN [r EXCEPT !.at = v] = {"at", "url"}
         /\ [r EXCEPT !.at = v].at = v /\ [r EXCEPT !.at = v].url = r.url
         /\ DOMAIN [r EXCEPT !.url = v] = {"at", "url"}
         /\ [r EXCEPT !.url = v].at = r.at /\ [r EXCEPT !.url = v].url = v
         /\ \A a : /\ DOMAIN [at |-> a, url |-> v] = {"at", "url"}
                   /\ [at |-> a, url |-> v].at = a
OBVIOUS

\* What ends with a pod has not finished.
LEMMA EndsScripts ==
  ASSUME NEW p, Ends(p)
  PROVE  \A k \in Calls : script'[k].at \in {"rm", "ok"} => script[k].at \in {"rm", "ok"}
<1> DEFINE f == [at |-> "failed"]
<1>1. script' = [k \in Calls |-> IF Active(k) /\ In(k) = p THEN f ELSE script[k]]
  BY DEF Ends
<1>2. f.at = "failed"
  OBVIOUS
<1> HIDE DEF f
<1> QED
  BY <1>1, <1>2

\* What happens to pods keeps the files, and crashes a pod only over a torn
\* archive.
LEMMA PodKeeps ==
  ASSUME FilesInv, AloneInv, UploadInv, NEW p \in Pods,
         Deploy(p) \/ InitContainer(p) \/ Expire(p) \/ Replace(p) \/ Evict(p)
  PROVE  FilesInv' /\ AloneInv' /\ Lands
<1>0. DOMAIN pod[p] = {"at", "url"}
  BY DEF UploadInv
<1>1. CASE Deploy(p) \/ InitContainer(p) \/ Expire(p)
  <2>0. UNCHANGED <<file, content, call, script, object, overlapped>>
    BY <1>1 DEF Deploy, InitContainer, Expire
  <2>1. Quiet
    BY <2>0 DEF Quiet
  <2>2. CASE Deploy(p)
    <3>1. PICK b \in Recorded \cup {0} : pod' = [pod EXCEPT ![p] = [at |-> "init", url |-> b]]
      BY <2>2 DEF Deploy
    <3> DEFINE x == [at |-> "init", url |-> b]
    <3>2. DOMAIN x = {"at", "url"} /\ x.at = "init" /\ pod' = [pod EXCEPT ![p] = x]
      BY <3>1, PodFields
    <3> HIDE DEF x
    <3> QED
      BY <2>0, <2>1, <3>2, QuietKeeps, PodEdits
  <2>3. CASE InitContainer(p)
    <3>1. PICK a \in {"crash", "running"} :
            /\ pod' = [pod EXCEPT ![p] = [pod[p] EXCEPT !.at = a]]
            /\ a = "crash" => pod[p].url \in Calls /\ object[pod[p].url] = "torn"
      BY <2>3 DEF InitContainer
    <3> DEFINE x == [pod[p] EXCEPT !.at = a]
    <3>2. /\ DOMAIN x = {"at", "url"} /\ x.at = a /\ x.url = pod[p].url
          /\ pod' = [pod EXCEPT ![p] = x]
      BY <1>0, <3>1, PodFields
    <3> HIDE DEF x
    <3> QED
      BY <2>0, <2>1, <3>1, <3>2, QuietKeeps, PodEdits
  <2>4. CASE Expire(p)
    <3> DEFINE x == [pod[p] EXCEPT !.url = -1]
    <3>1. DOMAIN x = {"at", "url"} /\ x.url = -1 /\ pod' = [pod EXCEPT ![p] = x]
      BY <1>0, <2>4, PodFields DEF Expire
    <3> HIDE DEF x
    <3> QED
      BY <2>0, <2>1, <3>1, QuietKeeps, PodEdits
  <2> QED
    BY <1>1, <2>2, <2>3, <2>4
<1>2. CASE Replace(p) \/ Evict(p)
  <2>0. Ends(p) /\ UNCHANGED <<content, call, object, overlapped>>
    BY <1>2 DEF Replace, Evict
  <2>1. FilesInv' /\ AloneInv'
    BY <2>0, EndsKeeps
  <2>2. CASE Replace(p)
    <3> DEFINE x == [at |-> "gone", url |-> 0]
    <3>1. DOMAIN x = {"at", "url"} /\ x.at = "gone" /\ pod' = [pod EXCEPT ![p] = x]
      BY <2>2, PodFields DEF Replace
    <3> HIDE DEF x
    <3> QED
      BY <2>0, <2>1, <3>1, EndsScripts, PodEdits
  <2>3. CASE Evict(p)
    <3> DEFINE x == [pod[p] EXCEPT !.at = "init"]
    <3>1. DOMAIN x = {"at", "url"} /\ x.at = "init" /\ pod' = [pod EXCEPT ![p] = x]
      BY <1>0, <2>3, PodFields DEF Evict
    <3> HIDE DEF x
    <3> QED
      BY <2>0, <2>1, <3>1, EndsScripts, PodEdits
  <2> QED
    BY <1>2, <2>2, <2>3
<1> QED
  BY <1>1, <1>2
--------------------------------------------------------------------------------
(* The theorems.                                                           *)

\* The invariant holds before the first call.
LEMMA InitBackup == Init => BackupInv
<1> SUFFICES ASSUME Init PROVE BackupInv
  OBVIOUS
<1>1. \A k \in Calls : /\ script[k] = Off /\ call[k] = Off /\ script[k].at = "off"
                       /\ call[k].at = "off" /\ object[k] = "none"
  BY DEF Init, Off
<1>2. Off \in Scripts
  BY DEF Off, Scripts
<1>3. FilesInv
  <2>1. script \in [Calls -> Scripts]
    BY <1>2 DEF Init
  <2>2. /\ file \in [Pods -> Calls \cup {0}] /\ DOMAIN content = Calls
        /\ \A p \in Pods : file[p] = 0
    BY DEF Init
  <2> QED
    BY <1>1, <2>1, <2>2 DEF FilesInv, Active, Holding
<1>4. AloneInv
  BY <1>1 DEF AloneInv
<1>5. \A p \in Pods : DOMAIN pod[p] = {"at", "url"} /\ pod[p].at \in {"init", "none"}
  <2>1. \A p \in Pods : pod[p] = [at |-> "init", url |-> 0] \/ pod[p] = [at |-> "none", url |-> 0]
    BY DEF Init
  <2> QED
    BY <2>1
<1>6. UploadInv
  BY <1>1, <1>5 DEF Init, UploadInv
<1>7. TornOnlyIfOverlapped /\ RecordedWasUploaded
  BY <1>1, <1>5 DEF TornOnlyIfOverlapped, RecordedWasUploaded, Recorded
<1> QED
  BY <1>3, <1>4, <1>6, <1>7 DEF BackupInv

\* Every step keeps the invariant.
LEMMA NextBackup == BackupInv /\ [Next]_vars => BackupInv'
<1> SUFFICES ASSUME BackupInv, [Next]_vars PROVE BackupInv'
  OBVIOUS
<1>0. FilesInv /\ AloneInv /\ UploadInv
  BY DEF BackupInv
<1>1. ASSUME FilesInv', AloneInv', Lands
      PROVE  BackupInv'
  BY <1>1, LandsKeeps DEF BackupInv
<1>2. ASSUME NEW k \in Calls, Begin(k)
      PROVE  BackupInv'
  BY <1>0, <1>1, <1>2, BeginKeeps, BeginLands
<1>3. ASSUME NEW k \in Calls, Answer(k) \/ Lose(k)
      PROVE  BackupInv'
  BY <1>0, <1>1, <1>3, AnswerKeeps, LoseKeeps, CallLands
<1>4. ASSUME NEW k \in Calls, Script(k)
      PROVE  BackupInv'
  <2>1. FilesInv' /\ AloneInv'
    BY <1>0, <1>4, TarStartKeepsFiles, TarStartKeepsAlone, TarEndKeeps, CurlOpenKeeps,
       CurlEndKeeps, RmKeeps DEF Script
  <2> QED
    BY <1>0, <1>1, <1>4, <2>1, StepLands
<1>5. ASSUME NEW p \in Pods,
             Deploy(p) \/ InitContainer(p) \/ Expire(p) \/ Replace(p) \/ Evict(p)
      PROVE  BackupInv'
  BY <1>0, <1>1, <1>5, PodKeeps
<1>6. CASE UNCHANGED vars
  <2>1. UNCHANGED <<pod, file, content, call, script, object, overlapped>>
    BY <1>6 DEF vars
  <2>2. Quiet
    BY <2>1 DEF Quiet
  <2>3. Lands
    BY <1>0, <2>1 DEF Lands, UploadInv
  <2> QED
    BY <1>0, <1>1, <2>2, <2>3, QuietKeeps
<1> QED
  BY <1>2, <1>3, <1>4, <1>5, <1>6 DEF Next

\* In every reachable state no two pods share a file, and a script that met
\* no other finds its archive as it left it.
THEOREM BackupInvariant == Spec => []BackupInv
BY InitBackup, NextBackup, PTL DEF Spec

\* Only calls whose scripts overlapped in a pod upload a torn archive of
\* backup_state, and only such an archive keeps a restored pod from starting.
THEOREM TornNeedsOverlap == Spec => []TornOnlyIfOverlapped
<1>1. BackupInv => TornOnlyIfOverlapped
  BY DEF BackupInv
<1> QED
  BY <1>1, BackupInvariant, PTL

\* A call that handleRunFunction answers with 200 has uploaded its archive.
THEOREM RecordedAlwaysUploaded == Spec => []RecordedWasUploaded
<1>1. BackupInv => RecordedWasUploaded
  BY DEF BackupInv
<1> QED
  BY <1>1, BackupInvariant, PTL
--------------------------------------------------------------------------------
(* Types.                                                                  *)

\* Every step lands what Lands allows.
LEMMA NextLands ==
  ASSUME BackupInv, [Next]_vars
  PROVE  Lands
<1>0. FilesInv /\ AloneInv /\ UploadInv
  BY DEF BackupInv
<1>1. ASSUME NEW k \in Calls, Begin(k) \/ Answer(k) \/ Lose(k) \/ Script(k)
      PROVE  Lands
  BY <1>0, <1>1, BeginLands, CallLands, StepLands
<1>2. ASSUME NEW p \in Pods,
             Deploy(p) \/ InitContainer(p) \/ Expire(p) \/ Replace(p) \/ Evict(p)
      PROVE  Lands
  BY <1>0, <1>2, PodKeeps
<1>3. CASE UNCHANGED vars
  BY <1>0, <1>3 DEF vars, Lands, UploadInv
<1> QED
  BY <1>1, <1>2, <1>3 DEF Next

\* A file that gets a name has content, and no content is lost.
ArchivesMove ==
  /\ \A p \in Pods : \/ file'[p] = file[p]
                     \/ file'[p] = 0
                     \/ content'[file'[p]] # "none"
  /\ \A i \in Calls : content'[i] = content[i] \/ content'[i] \in {"partial", "whole", "torn"}

\* Only tar and rm touch the file, and the end of a pod.
LEMMA NextArchives ==
  ASSUME FilesInv, [Next]_vars
  PROVE  ArchivesMove
<1>1. CASE UNCHANGED <<file, content>>
  BY <1>1 DEF ArchivesMove
<1>2. ASSUME NEW p, file' = [file EXCEPT ![p] = 0], UNCHANGED content
      PROVE  ArchivesMove
  <2>1. \A q \in Pods : file'[q] = IF q = p THEN 0 ELSE file[q]
    BY <1>2 DEF FilesInv
  <2> QED
    BY <1>2, <2>1 DEF ArchivesMove
<1>3. ASSUME NEW k \in Calls, TarStart(k)
      PROVE  ArchivesMove
  <2> DEFINE i == TarFile(k)
             x == IF \E j \in Calls : script[j].at = "tar" /\ script[j].on = i
                  THEN "torn" ELSE "partial"
  <2>1. i \in Calls
    BY <1>3, TarFileFacts DEF TarStart
  <2>2. file' = [file EXCEPT ![In(k)] = i] /\ content' = [content EXCEPT ![i] = x]
    BY <1>3, TarStartFacts
  <2>3. x \in {"torn", "partial"}
    OBVIOUS
  <2> HIDE DEF i, x
  <2>4. /\ \A q \in Pods : file'[q] = file[q] \/ file'[q] = i
        /\ \A j \in Calls : content'[j] = IF j = i THEN x ELSE content[j]
    BY <2>2 DEF FilesInv
  <2> QED
    BY <2>1, <2>3, <2>4 DEF ArchivesMove
<1>4. ASSUME NEW k \in Calls, TarEnd(k)
      PROVE  ArchivesMove
  <2> DEFINE i == script[k].on
             x == IF content[i] = "torn" THEN "torn" ELSE "whole"
  <2>1. UNCHANGED file /\ (UNCHANGED content \/ content' = [content EXCEPT ![i] = x])
    BY <1>4 DEF TarEnd
  <2>2. x \in {"torn", "whole"}
    OBVIOUS
  <2> HIDE DEF i, x
  <2>3. \A j \in Calls : content'[j] = content[j] \/ content'[j] = x
    BY <2>1 DEF FilesInv
  <2> QED
    BY <2>1, <2>2, <2>3 DEF ArchivesMove
<1>5. ASSUME NEW k \in Calls, Begin(k) \/ Answer(k) \/ Lose(k) \/ Script(k)
      PROVE  ArchivesMove
  <2>1. CASE Begin(k) \/ Answer(k) \/ Lose(k)
    BY <1>1, <2>1 DEF Begin, Answer, Lose
  <2>2. CASE CurlOpen(k) \/ CurlEnd(k)
    BY <1>1, <2>2 DEF CurlOpen, CurlEnd
  <2>3. CASE Rm(k)
    BY <1>2, <2>3 DEF Rm
  <2> QED
    BY <1>3, <1>4, <1>5, <2>1, <2>2, <2>3 DEF Script
<1>6. ASSUME NEW p \in Pods,
             Deploy(p) \/ InitContainer(p) \/ Expire(p) \/ Replace(p) \/ Evict(p)
      PROVE  ArchivesMove
  <2>1. CASE Deploy(p) \/ InitContainer(p) \/ Expire(p)
    BY <1>1, <2>1 DEF Deploy, InitContainer, Expire
  <2>2. CASE Replace(p) \/ Evict(p)
    BY <1>2, <2>2 DEF Replace, Evict, Ends
  <2> QED
    BY <1>6, <2>1, <2>2
<1>7. CASE UNCHANGED vars
  BY <1>1, <1>7 DEF vars
<1> QED
  BY <1>5, <1>6, <1>7 DEF Next

\* A script runs on in its pod, or is started in one that runs; an answer
\* stands.
Goes(k) ==
  /\ Active(k)' =>
       \/ /\ Active(k) /\ In(k)' = In(k)
          /\ call'[k].at = call[k].at \/ call'[k].at = "lost"
          /\ pod[In(k)].at = "running" => pod'[In(k)].at = "running"
       \/ call'[k].at = "exec" /\ pod'[call'[k].pod].at = "running"
  /\ call'[k].at = "done" =>
       \/ call[k].at = "done" /\ call'[k].code = call[k].code
       \/ call'[k].code \in Codes

\* What does not move goes on.
LEMMA GoesStill ==
  ASSUME NEW k, (Active(k)' => Active(k)), call'[k] = call[k],
         Active(k) /\ pod[In(k)].at = "running" => pod'[In(k)].at = "running"
  PROVE  Goes(k)
BY DEF Goes, In

\* What becomes of call k at its beginning.
LEMMA BeginCases ==
  ASSUME NEW k \in Calls, Begin(k)
  PROVE  \/ UNCHANGED script /\ \E code \in Codes : Done(k, code)
         \/ \E p \in FindPod : /\ call' = [call EXCEPT ![k] = [at |-> "exec", pod |-> p]]
                               /\ script' = [script EXCEPT ![k] = [at |-> "start"]]
<1>1. \/ Done(k, StatusBadRequest) /\ UNCHANGED script
      \/ Done(k, StatusNotFound) /\ UNCHANGED script
      \/ Done(k, StatusConflict) /\ UNCHANGED script
      \/ Done(k, StatusInternalServerError) /\ UNCHANGED script
      \/ \E p \in FindPod : /\ call' = [call EXCEPT ![k] = [at |-> "exec", pod |-> p]]
                            /\ script' = [script EXCEPT ![k] = [at |-> "start"]]
  BY DEF Begin
<1>2. /\ StatusBadRequest \in Codes /\ StatusNotFound \in Codes /\ StatusConflict \in Codes
      /\ StatusInternalServerError \in Codes
  BY DEF Codes
<1> QED
  BY <1>1, <1>2, SMT

\* An answer goes to a call whose script does not run.
LEMMA DoneGoes ==
  ASSUME UploadInv, NEW k \in Calls, ~Active(k), NEW code \in Codes, Done(k, code),
         UNCHANGED <<script, pod>>, NEW j \in Calls
  PROVE  Goes(j)
<1> DEFINE x == [at |-> "done", code |-> code]
<1>1. call' = [call EXCEPT ![k] = x] /\ x.at = "done" /\ x.code = code
  BY DEF Done
<1> HIDE DEF x
<1>2. call'[j] = IF j = k THEN x ELSE call[j]
  BY <1>1 DEF UploadInv
<1>3. Active(j)' <=> Active(j)
  BY DEF Active
<1>4. CASE j = k
  BY <1>1, <1>2, <1>3, <1>4 DEF Goes
<1>5. CASE j # k
  BY <1>2, <1>3, <1>5, GoesStill
<1> QED
  BY <1>4, <1>5

\* The steps of a call.
LEMMA CallGoes ==
  ASSUME FilesInv, UploadInv, NEW k \in Calls, Begin(k) \/ Answer(k) \/ Lose(k), NEW j \in Calls
  PROVE  Goes(j)
<1>0. UNCHANGED pod
  BY DEF Begin, Answer, Lose
<1>1. CASE Begin(k)
  <2>1. ~Active(k)
    <3>0. call[k] = Off
      BY <1>1 DEF Begin
    <3>1. call[k].at = "off"
      BY <3>0 DEF Off
    <3>2. script[k].at = "off"
      BY <3>1 DEF FilesInv
    <3> QED
      BY <3>2 DEF Active
  <2>2. ASSUME UNCHANGED script, NEW code \in Codes, Done(k, code)
        PROVE  Goes(j)
    BY <1>0, <2>1, <2>2, DoneGoes
  <2>3. ASSUME NEW p \in FindPod,
               call' = [call EXCEPT ![k] = [at |-> "exec", pod |-> p]],
               script' = [script EXCEPT ![k] = [at |-> "start"]]
        PROVE  Goes(j)
    <3> DEFINE x == [at |-> "exec", pod |-> p]
               y == [at |-> "start"]
    <3>1. call' = [call EXCEPT ![k] = x] /\ script' = [script EXCEPT ![k] = y]
      BY <2>3
    <3>2. x.at = "exec" /\ x.pod = p /\ pod[p].at = "running"
      BY DEF FindPod
    <3> HIDE DEF x, y
    <3>3. /\ call'[j] = IF j = k THEN x ELSE call[j]
          /\ script'[j] = IF j = k THEN y ELSE script[j]
      BY <3>1 DEF UploadInv, FilesInv
    <3>4. CASE j = k
      <4>1. call'[j].at = "exec" /\ pod'[call'[j].pod].at = "running"
        BY <1>0, <3>2, <3>3, <3>4
      <4> QED
        BY <4>1 DEF Goes
    <3>5. CASE j # k
      <4>1. call'[j] = call[j] /\ (Active(j)' => Active(j))
        BY <3>3, <3>5 DEF Active
      <4> QED
        BY <1>0, <4>1, GoesStill
    <3> QED
      BY <3>4, <3>5
  <2> QED
    BY <1>1, <2>2, <2>3, BeginCases
<1>2. CASE Answer(k)
  <2> DEFINE code == IF script[k].at = "ok" THEN StatusOK ELSE StatusInternalServerError
  <2>1. ~Active(k) /\ UNCHANGED script /\ Done(k, code)
    BY <1>2 DEF Answer, Active
  <2>2. code \in Codes
    BY DEF Codes
  <2> HIDE DEF code
  <2> QED
    BY <1>0, <2>1, <2>2, DoneGoes
<1>3. CASE Lose(k)
  <2> DEFINE x == [at |-> "lost", pod |-> call[k].pod]
  <2>1. call' = [call EXCEPT ![k] = x] /\ x.at = "lost" /\ x.pod = call[k].pod
    BY <1>3 DEF Lose
  <2>2. UNCHANGED script
    BY <1>3 DEF Lose
  <2> HIDE DEF x
  <2>3. call'[j] = IF j = k THEN x ELSE call[j]
    BY <2>1 DEF UploadInv
  <2>4. (Active(j)' <=> Active(j)) /\ In(j)' = In(j)
    BY <2>1, <2>2, <2>3 DEF Active, In
  <2> QED
    BY <1>0, <2>1, <2>3, <2>4 DEF Goes
<1> QED
  BY <1>1, <1>2, <1>3

\* The steps of a script start none.
LEMMA ScriptGoes ==
  ASSUME FilesInv, NEW k \in Calls, Script(k), NEW j \in Calls
  PROVE  Goes(j)
<1>0. UNCHANGED <<call, pod>>
  BY DEF Script, TarStart, TarEnd, CurlOpen, CurlEnd, Rm
<1>1. Active(k)
  BY DEF Script, TarStart, TarEnd, CurlOpen, CurlEnd, Rm, Active
<1>2. j # k => script'[j].at = script[j].at
  <2>1. CASE TarStart(k)
    BY <2>1, TarStartFacts
  <2>2. CASE \E s : script' = [script EXCEPT ![k] = s]
    BY <2>2 DEF FilesInv
  <2> QED
    BY <2>1, <2>2 DEF Script, TarEnd, CurlOpen, CurlEnd, Rm
<1>3. Active(j)' => Active(j)
  BY <1>1, <1>2 DEF Active
<1> QED
  BY <1>0, <1>3, GoesStill

\* A pod's record as TypeOK has it.
PodOK(r) ==
  r.at \in {"none", "init", "crash", "running", "gone"} /\ r.url \in -1 .. MaxCalls

\* A step that replaces the record of one pod.
LEMMA PodSteps ==
  ASSUME FilesInv, UploadInv, \A q \in Pods : PodOK(pod[q]), NEW p \in Pods, NEW x,
         pod' = [pod EXCEPT ![p] = x], PodOK(x),
         \A k \in Calls : Active(k)' => Active(k),
         x.at = "running" \/ pod[p].at # "running" \/ \A k \in Calls : Active(k)' => In(k) # p,
         UNCHANGED call
  PROVE  (\A q \in Pods : PodOK(pod'[q])) /\ \A k \in Calls : Goes(k)
<1>1. \A q \in Pods : pod'[q] = IF q = p THEN x ELSE pod[q]
  BY DEF UploadInv
<1>2. ASSUME NEW k \in Calls
      PROVE  Goes(k)
  <2>0. Active(k)' => Active(k) /\ In(k) \in Pods
    BY DEF FilesInv
  <2>1. Active(k)' /\ pod[In(k)].at = "running" => pod'[In(k)].at = "running"
    BY <1>1, <2>0
  <2>2. call'[k] = call[k] /\ In(k)' = In(k)
    BY DEF In
  <2> QED
    BY <2>0, <2>1, <2>2 DEF Goes
<1> QED
  BY <1>1, <1>2

\* The steps of a pod.
LEMMA PodGoes ==
  ASSUME FilesInv, UploadInv, \A q \in Pods : PodOK(pod[q]), NEW p \in Pods,
         Deploy(p) \/ InitContainer(p) \/ Expire(p) \/ Replace(p) \/ Evict(p)
  PROVE  (\A q \in Pods : PodOK(pod'[q])) /\ \A k \in Calls : Goes(k)
<1>0. DOMAIN pod[p] = {"at", "url"} /\ PodOK(pod[p]) /\ UNCHANGED call
  BY DEF UploadInv, Deploy, InitContainer, Expire, Replace, Evict
<1>b. MaxCalls \in Nat
  BY BackupBounds
<1>1. CASE Deploy(p) \/ InitContainer(p) \/ Expire(p)
  <2>0. \A k \in Calls : Active(k)' => Active(k)
    BY <1>1 DEF Deploy, InitContainer, Expire, Active
  <2>1. CASE Deploy(p)
    <3>1. PICK b \in Recorded \cup {0} : pod' = [pod EXCEPT ![p] = [at |-> "init", url |-> b]]
      BY <2>1 DEF Deploy
    <3> DEFINE x == [at |-> "init", url |-> b]
    <3>2. x.at = "init" /\ x.url = b /\ pod' = [pod EXCEPT ![p] = x]
      BY <3>1
    <3>3. b \in -1 .. MaxCalls /\ pod[p].at # "running"
      BY <1>b, <2>1 DEF Recorded, Calls, Deploy
    <3> HIDE DEF x
    <3>4. PodOK(x)
      BY <3>2, <3>3 DEF PodOK
    <3> QED
      BY <1>0, <2>0, <3>2, <3>3, <3>4, PodSteps
  <2>2. CASE InitContainer(p)
    <3>1. PICK a \in {"crash", "running"} : pod' = [pod EXCEPT ![p] = [pod[p] EXCEPT !.at = a]]
      BY <2>2 DEF InitContainer
    <3> DEFINE x == [pod[p] EXCEPT !.at = a]
    <3>2. x.at = a /\ x.url = pod[p].url /\ pod' = [pod EXCEPT ![p] = x]
      BY <1>0, <3>1, PodFields
    <3>3. pod[p].at # "running"
      BY <2>2 DEF InitContainer
    <3> HIDE DEF x
    <3>4. PodOK(x)
      BY <1>0, <3>2 DEF PodOK
    <3> QED
      BY <1>0, <2>0, <3>2, <3>3, <3>4, PodSteps
  <2>3. CASE Expire(p)
    <3> DEFINE x == [pod[p] EXCEPT !.url = -1]
    <3>1. x.url = -1 /\ x.at = pod[p].at /\ pod' = [pod EXCEPT ![p] = x]
      BY <1>0, <2>3, PodFields DEF Expire
    <3> HIDE DEF x
    <3>2. PodOK(x)
      BY <1>0, <1>b, <3>1 DEF PodOK
    <3> QED
      BY <1>0, <2>0, <3>1, <3>2, PodSteps
  <2> QED
    BY <1>1, <2>1, <2>2, <2>3
<1>2. CASE Replace(p) \/ Evict(p)
  <2>0. \A k \in Calls : Active(k)' => Active(k) /\ In(k) # p
    <3> DEFINE f == [at |-> "failed"]
    <3>1. script' = [k \in Calls |-> IF Active(k) /\ In(k) = p THEN f ELSE script[k]]
      BY <1>2 DEF Replace, Evict, Ends
    <3>2. f.at = "failed"
      OBVIOUS
    <3> HIDE DEF f
    <3> QED
      BY <3>1, <3>2 DEF Active
  <2>1. CASE Replace(p)
    <3> DEFINE x == [at |-> "gone", url |-> 0]
    <3>1. x.at = "gone" /\ x.url = 0 /\ pod' = [pod EXCEPT ![p] = x]
      BY <2>1 DEF Replace
    <3> HIDE DEF x
    <3>2. PodOK(x)
      BY <1>b, <3>1 DEF PodOK
    <3> QED
      BY <1>0, <2>0, <3>1, <3>2, PodSteps
  <2>2. CASE Evict(p)
    <3> DEFINE x == [pod[p] EXCEPT !.at = "init"]
    <3>1. x.at = "init" /\ x.url = pod[p].url /\ pod' = [pod EXCEPT ![p] = x]
      BY <1>0, <2>2, PodFields DEF Evict
    <3> HIDE DEF x
    <3>2. PodOK(x)
      BY <1>0, <3>1 DEF PodOK
    <3> QED
      BY <1>0, <2>0, <3>1, <3>2, PodSteps
  <2> QED
    BY <1>2, <2>1, <2>2
<1> QED
  BY <1>1, <1>2

\* Every step keeps the pods' records and lets scripts run where they are.
LEMMA NextGoes ==
  ASSUME FilesInv, UploadInv, \A q \in Pods : PodOK(pod[q]), [Next]_vars
  PROVE  (\A q \in Pods : PodOK(pod'[q])) /\ \A k \in Calls : Goes(k)
<1>1. ASSUME NEW k \in Calls, Begin(k) \/ Answer(k) \/ Lose(k) \/ Script(k)
      PROVE  pod' = pod /\ \A j \in Calls : Goes(j)
  <2>1. pod' = pod
    BY <1>1 DEF Begin, Answer, Lose, Script, TarStart, TarEnd, CurlOpen, CurlEnd, Rm
  <2> QED
    BY <1>1, <2>1, CallGoes, ScriptGoes
<1>2. ASSUME NEW p \in Pods,
             Deploy(p) \/ InitContainer(p) \/ Expire(p) \/ Replace(p) \/ Evict(p)
      PROVE  (\A q \in Pods : PodOK(pod'[q])) /\ \A k \in Calls : Goes(k)
  BY <1>2, PodGoes
<1>3. CASE UNCHANGED vars
  <2>1. pod' = pod /\ call' = call /\ script' = script
    BY <1>3 DEF vars
  <2>2. \A k \in Calls : Goes(k)
    BY <2>1, GoesStill DEF Active
  <2> QED
    BY <2>1, <2>2
<1> QED
  BY <1>1, <1>2, <1>3 DEF Next

\* Only TarStart marks calls, and a step uses up one fault at most.
LEMMA NextCounts ==
  ASSUME [Next]_vars, overlapped \subseteq Calls, faults \in 0..MaxFaults
  PROVE  overlapped' \subseteq Calls /\ faults' \in 0..MaxFaults
<1>1. ASSUME NEW k \in Calls, Begin(k) \/ Answer(k) \/ Lose(k) \/ Script(k)
      PROVE  overlapped' \subseteq Calls /\ (NoFault \/ Fault)
  <2>1. CASE Begin(k) \/ Answer(k)
    BY <2>1 DEF Begin, Answer, NoFault
  <2>2. CASE Lose(k) \/ TarEnd(k) \/ CurlEnd(k)
    BY <2>2, Zenon DEF Lose, TarEnd, CurlEnd
  <2>3. CASE TarStart(k) \/ CurlOpen(k) \/ Rm(k)
    BY <2>3 DEF TarStart, CurlOpen, Rm, NoFault
  <2> QED
    BY <1>1, <2>1, <2>2, <2>3 DEF Script
<1>2. ASSUME NEW p \in Pods,
             Deploy(p) \/ InitContainer(p) \/ Expire(p) \/ Replace(p) \/ Evict(p)
      PROVE  overlapped' \subseteq Calls /\ (NoFault \/ Fault)
  BY <1>2 DEF Deploy, InitContainer, Expire, Replace, Evict, NoFault
<1>3. CASE UNCHANGED vars
  BY <1>3 DEF vars
<1>4. NoFault \/ Fault => faults' \in 0..MaxFaults
  BY BackupBounds DEF NoFault, Fault
<1> QED
  BY <1>1, <1>2, <1>3, <1>4 DEF Next

\* Every step keeps the types.
LEMMA NextTypes == BackupInv /\ BackupInv' /\ TypeOK /\ [Next]_vars => TypeOK'
<1> SUFFICES ASSUME BackupInv, BackupInv', TypeOK, [Next]_vars PROVE TypeOK'
  OBVIOUS
<1>0. FilesInv /\ UploadInv /\ FilesInv' /\ \A q \in Pods : PodOK(pod[q])
  <2>1. FilesInv /\ UploadInv /\ FilesInv'
    BY DEF BackupInv
  <2>2. \A q \in Pods : /\ pod[q].at \in {"none", "init", "crash", "running", "gone"}
                        /\ pod[q].url \in -1 .. MaxCalls
    BY DEF TypeOK
  <2> QED
    BY <2>1, <2>2 DEF PodOK
<1>1. (\A q \in Pods : PodOK(pod'[q])) /\ \A k \in Calls : Goes(k)
  BY <1>0, NextGoes
<1>2. Lands /\ ArchivesMove
  BY <1>0, NextLands, NextArchives
<1>3. ASSUME NEW k \in Calls
      PROVE  /\ content'[k] \in {"none", "partial", "whole", "torn"}
             /\ object'[k] \in {"none", "whole", "torn"}
             /\ content[k] # "none" => content'[k] # "none"
  <2>1. script[k].at = "curl" => script[k].sends \in {"whole", "torn"}
    BY <1>0, ScriptFields DEF FilesInv
  <2>2. /\ content[k] \in {"none", "partial", "whole", "torn"}
        /\ object[k] \in {"none", "whole", "torn"}
    BY DEF TypeOK
  <2>3. content'[k] = content[k] \/ content'[k] \in {"partial", "whole", "torn"}
    BY <1>2 DEF ArchivesMove
  <2>4. object'[k] = object[k] \/ (script[k].at = "curl" /\ object'[k] = script[k].sends)
    BY <1>2 DEF Lands
  <2> QED
    BY <2>1, <2>2, <2>3, <2>4
<1>4. ASSUME NEW p \in Pods, file'[p] # 0
      PROVE  content'[file'[p]] # "none"
  <2>1. CASE file'[p] = file[p]
    <3>0. file[p] # 0 => content[file[p]] # "none"
      BY DEF TypeOK
    <3>1. file[p] \in Calls /\ content[file[p]] # "none"
      BY <1>0, <1>4, <2>1, <3>0 DEF FilesInv
    <3> QED
      BY <1>3, <2>1, <3>1
  <2>2. CASE file'[p] # file[p]
    BY <1>2, <1>4, <2>2 DEF ArchivesMove
  <2> QED
    BY <2>1, <2>2
<1>5. ASSUME NEW k \in Calls
      PROVE  /\ Active(k)' => call'[k].at \in {"exec", "lost"} /\ pod'[In(k)'].at = "running"
             /\ call'[k].at = "done" => call'[k].code \in Codes
  <2>1. Active(k) => call[k].at \in {"exec", "lost"} /\ pod[In(k)].at = "running"
    BY DEF TypeOK
  <2>2. call[k].at = "done" => call[k].code \in Codes
    BY DEF TypeOK
  <2>3. In(k)' = call'[k].pod
    BY DEF In
  <2> QED
    BY <1>1, <2>1, <2>2, <2>3 DEF Goes
<1>6. overlapped' \subseteq Calls /\ faults' \in 0..MaxFaults
  BY NextCounts DEF TypeOK
<1> QED
  BY <1>1, <1>3, <1>4, <1>5, <1>6 DEF TypeOK, PodOK

\* The types hold before the first call.
LEMMA InitTypes == Init => TypeOK
<1> SUFFICES ASSUME Init PROVE TypeOK
  OBVIOUS
<1>1. ASSUME NEW p \in Pods
      PROVE  PodOK(pod[p]) /\ file[p] = 0
  <2>1. pod[p] = [at |-> "init", url |-> 0] \/ pod[p] = [at |-> "none", url |-> 0]
    BY DEF Init
  <2>2. pod[p].at \in {"init", "none"} /\ pod[p].url = 0
    BY <2>1
  <2> QED
    BY <2>2, BackupBounds DEF PodOK, Init
<1>2. ASSUME NEW k \in Calls
      PROVE  ~Active(k) /\ call[k].at = "off" /\ content[k] = "none" /\ object[k] = "none"
  BY DEF Init, Off, Active
<1>3. overlapped = {} /\ faults \in 0..MaxFaults
  BY BackupBounds DEF Init
<1> QED
  BY <1>1, <1>2, <1>3 DEF TypeOK, PodOK

\* A script runs only for a call that holds it or lost it, and in a pod that
\* runs; a name in a pod stands for a file with content.
THEOREM BackupTypes == Spec => []TypeOK
BY InitTypes, NextTypes, BackupInvariant, PTL DEF Spec
--------------------------------------------------------------------------------
(* A caller that waits for its calls, as far as its connections hold.      *)

NoneLost == \A k \in Calls : call[k].at # "lost"

\* A caller that waits has one call under way, and its scripts meet only after
\* it has lost a connection.
WaitingInv ==
  OneAtATime =>
    /\ \A j, k \in Calls : call[j].at = "exec" /\ call[k].at = "exec" => j = k
    /\ NoneLost => overlapped = {}

\* A call that was lost stays so: no step answers it or begins it again.
\* Only a call that begins gets under way.
LEMMA CallMoves ==
  ASSUME UploadInv, NEW k \in Calls, Begin(k) \/ Answer(k) \/ Lose(k), NEW j \in Calls
  PROVE  /\ call[j].at = "lost" => call'[j].at = "lost"
         /\ call'[j].at = "exec" =>
              \/ call[j].at = "exec"
              \/ j = k /\ (OneAtATime => \A i \in Calls : call[i].at # "exec")
         /\ j # k => call'[j] = call[j]
<1>1. PICK x : call' = [call EXCEPT ![k] = x] /\ (x.at = "exec" => Begin(k))
  <2>1. CASE Begin(k)
    BY <2>1, BeginCases DEF Done
  <2>2. CASE Answer(k)
    <3> DEFINE y == [at |-> "done",
                       code |-> IF script[k].at = "ok" THEN StatusOK
                                ELSE StatusInternalServerError]
    <3>1. call' = [call EXCEPT ![k] = y]
      BY <2>2 DEF Answer, Done
    <3>2. y.at # "exec"
      OBVIOUS
    <3> HIDE DEF y
    <3> QED
      BY <3>1, <3>2
  <2>3. CASE Lose(k)
    <3> DEFINE y == [at |-> "lost", pod |-> call[k].pod]
    <3>1. call' = [call EXCEPT ![k] = y]
      BY <2>3 DEF Lose
    <3>2. y.at # "exec"
      OBVIOUS
    <3> HIDE DEF y
    <3> QED
      BY <3>1, <3>2
  <2> QED
    BY <2>1, <2>2, <2>3
<1>2. call'[j] = IF j = k THEN x ELSE call[j]
  BY <1>1 DEF UploadInv
<1>3. call[k].at # "lost"
  <2>1. Begin(k) => call[k] = Off
    BY DEF Begin
  <2>2. Answer(k) \/ Lose(k) => call[k].at = "exec"
    BY DEF Answer, Lose
  <2>3. Off.at = "off"
    BY DEF Off
  <2> QED
    BY <2>1, <2>2, <2>3
<1>4. Begin(k) => (OneAtATime => \A i \in Calls : call[i].at # "exec")
  BY DEF Begin
<1> QED
  BY <1>1, <1>2, <1>3, <1>4

\* A tar that starts while no other call is under way meets no other script.
LEMMA TarStartsAlone ==
  ASSUME TypeOK, NEW k \in Calls, TarStart(k), NoneLost,
         \A i, j \in Calls : call[i].at = "exec" /\ call[j].at = "exec" => i = j
  PROVE  UNCHANGED overlapped
<1> DEFINE there == {j \in Calls : Active(j) /\ In(j) = In(k)}
<1>1. \A j \in Calls : Active(j) => call[j].at = "exec"
  BY DEF TypeOK, NoneLost
<1>2. Active(k)
  BY DEF TarStart, Active
<1>3. there = {k}
  BY <1>1, <1>2
<1>4. overlapped' = IF there = {k} THEN overlapped ELSE overlapped \cup there
  BY DEF TarStart
<1> QED
  BY <1>3, <1>4

\* Each step keeps the invariant.
LEMMA NextWaiting ==
  ASSUME UploadInv, TypeOK, WaitingInv, [Next]_vars
  PROVE  WaitingInv'
<1> SUFFICES ASSUME OneAtATime
             PROVE  /\ \A i, j \in Calls : call'[i].at = "exec" /\ call'[j].at = "exec" => i = j
                    /\ NoneLost' => overlapped' = {}
  BY DEF WaitingInv
<1>0. /\ \A i, j \in Calls : call[i].at = "exec" /\ call[j].at = "exec" => i = j
      /\ NoneLost => overlapped = {}
  BY DEF WaitingInv
<1>1. ASSUME UNCHANGED call, UNCHANGED overlapped
      PROVE  /\ \A i, j \in Calls : call'[i].at = "exec" /\ call'[j].at = "exec" => i = j
             /\ NoneLost' => overlapped' = {}
  BY <1>0, <1>1 DEF NoneLost
<1>2. ASSUME NEW k \in Calls, Begin(k) \/ Answer(k) \/ Lose(k)
      PROVE  /\ \A i, j \in Calls : call'[i].at = "exec" /\ call'[j].at = "exec" => i = j
             /\ NoneLost' => overlapped' = {}
  <2>1. \A j \in Calls :
          /\ call[j].at = "lost" => call'[j].at = "lost"
          /\ call'[j].at = "exec" =>
               \/ call[j].at = "exec"
               \/ j = k /\ \A i \in Calls : call[i].at # "exec"
          /\ j # k => call'[j] = call[j]
    BY <1>2, CallMoves
  <2>2. NoneLost' => NoneLost
    BY <2>1 DEF NoneLost
  <2>3. UNCHANGED overlapped
    BY <1>2 DEF Begin, Answer, Lose
  <2> QED
    BY <1>0, <2>1, <2>2, <2>3
<1>3. ASSUME NEW k \in Calls, Script(k)
      PROVE  /\ \A i, j \in Calls : call'[i].at = "exec" /\ call'[j].at = "exec" => i = j
             /\ NoneLost' => overlapped' = {}
  <2>1. CASE TarStart(k)
    <3>1. UNCHANGED call
      BY <2>1 DEF TarStart
    <3>2. NoneLost' <=> NoneLost
      BY <3>1 DEF NoneLost
    <3>3. NoneLost => UNCHANGED overlapped
      BY <1>0, <2>1, TarStartsAlone
    <3> QED
      BY <1>0, <3>1, <3>2, <3>3
  <2>2. CASE TarEnd(k) \/ CurlOpen(k) \/ CurlEnd(k) \/ Rm(k)
    <3>1. UNCHANGED call /\ UNCHANGED overlapped
      BY <2>2 DEF TarEnd, CurlOpen, CurlEnd, Rm
    <3> QED
      BY <1>1, <3>1
  <2> QED
    BY <1>3, <2>1, <2>2 DEF Script
<1>4. ASSUME NEW p \in Pods,
             Deploy(p) \/ InitContainer(p) \/ Expire(p) \/ Replace(p) \/ Evict(p)
      PROVE  UNCHANGED call /\ UNCHANGED overlapped
  BY <1>4 DEF Deploy, InitContainer, Expire, Replace, Evict
<1>5. CASE UNCHANGED vars
  BY <1>1, <1>5 DEF vars
<1> QED
  BY <1>1, <1>2, <1>3, <1>4, <1>5 DEF Next

\* For a caller that waits for the answer of each backup_state before it asks
\* for another, a lost connection is all that can spoil a recorded backup:
\* while none was lost, each backup that handleRunFunction answered with 200
\* can be restored, through failed transfers, evictions and redeployments.
THEOREM WaitingCallersRestore == Spec => [](OneAtATime /\ NoneLost => RecordedRestores)
<1>1. Init => WaitingInv
  <2> SUFFICES ASSUME Init PROVE WaitingInv
    OBVIOUS
  <2>1. \A k \in Calls : call[k] = Off
    BY DEF Init
  <2>2. Off.at # "exec"
    BY DEF Off
  <2>3. overlapped = {}
    BY DEF Init
  <2> QED
    BY <2>1, <2>2, <2>3 DEF WaitingInv
<1>2. BackupInv /\ TypeOK /\ WaitingInv /\ [Next]_vars => WaitingInv'
  BY NextWaiting DEF BackupInv
<1>3. BackupInv /\ TypeOK /\ WaitingInv => (OneAtATime /\ NoneLost => RecordedRestores)
  <2> SUFFICES ASSUME BackupInv, TypeOK, WaitingInv, OneAtATime, NoneLost, NEW k \in Recorded
               PROVE  object[k] = "whole"
    BY DEF RecordedRestores
  <2>1. k \in Calls
    BY DEF Recorded
  <2>2. object[k] # "none"
    BY DEF BackupInv, RecordedWasUploaded
  <2>3. object[k] # "torn"
    BY <2>1 DEF WaitingInv, BackupInv, TornOnlyIfOverlapped
  <2>4. object[k] \in {"none", "whole", "torn"}
    BY <2>1 DEF TypeOK
  <2> QED
    BY <2>2, <2>3, <2>4
<1> QED
  BY <1>1, <1>2, <1>3, BackupInvariant, BackupTypes, PTL DEF Spec
================================================================================
