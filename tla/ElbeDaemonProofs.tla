-------------------------- MODULE ElbeDaemonProofs --------------------------
(***************************************************************************)
(* Proofs about ElbeDaemon for any number of projects, any job classes and *)
(* any queue bound.                                                        *)
(***************************************************************************)
EXTENDS ElbeDaemon, TLAPS

USE DEF Stable, Statuses, Dirs, Rpcs, Active

-----------------------------------------------------------------------------
(* Facts about records and sequences the steps rely on.                    *)

\* None is not a job, and a job is a record of its project and its kind.
LEMMA JobFacts ==
    /\ StopItem \notin Jobs
    /\ StopItem.prj = NoProject /\ StopItem.kind = "stop"
    /\ \A j \in Jobs : j.prj \in Projects /\ j.kind \in Kinds /\ j.prj # NoProject
    /\ \A j \in Jobs : j \in [prj : Projects \cup {NoProject}, kind : Rpcs]
    /\ NoJob \in [prj : Projects \cup {NoProject}, kind : Rpcs]
BY NoProjectAssumption, KindsAssumption DEF StopItem, Jobs, NoJob

\* What TypeOK says once a step is known to leave the other variables alone.
LEMMA TypeInit == Init => TypeOK
BY JobFacts DEF Init, TypeOK, NoJob

\* A process that ends keeps the types of what is stored.
LEMMA TypeLoseMemory ==
    ASSUME TypeOK, LoseMemory, status' = status, upload' = upload,
           dir' \in [Projects -> Dirs],
           xml' \in [Projects -> {"none", "valid", "broken"}]
    PROVE  TypeOK'
<1>1. level' \in [Projects -> {"ok", "error"}]
  BY DEF LoseMemory
<1>2. req' \in [prj : Projects \cup {NoProject}, kind : Rpcs]
  BY JobFacts DEF LoseMemory
<1>3. queue' \in Seq(Jobs \cup {StopItem})
  BY DEF LoseMemory
<1>4. /\ up' \in BOOLEAN
      /\ soap' = "idle" /\ worker' = "idle" /\ job' = NoJob
      /\ outcome' = "none" /\ verdict' = "none"
  BY DEF LoseMemory
<1>5. status' \in [Projects -> Statuses] /\ upload' \in [Projects -> {"none", "recipe", "package"}]
  BY DEF TypeOK
<1>6. QED
  BY <1>1, <1>2, <1>3, <1>4, <1>5 DEF TypeOK

\* The requests of the SOAP thread keep the types.
LEMMA TypeRequest ==
    ASSUME TypeOK, NEW p \in Projects, Request(p)
    PROVE  TypeOK'
<1>1. ASSUME NEW k \in {"new_project", "create_project"}, CreateDir(p, k)
      PROVE  TypeOK'
  BY <1>1 DEF TypeOK, CreateDir, workVars
<1>2. ASSUME NEW k \in Kinds, RequestJob(p, k) PROVE TypeOK'
  BY <1>2, JobFacts DEF TypeOK, RequestJob, stored, workVars, Jobs
<1>3. CASE FinishCdrom(p)
  <2>1. status[p] \in Statuses /\ AfterSetXml(status[p]) \in Statuses
    BY DEF TypeOK, AfterSetXml
  <2>2. status' = [status EXCEPT ![p] = AfterSetXml(status[p])]
    BY <1>3 DEF FinishCdrom
  <2>3. status' \in [Projects -> Statuses]
    BY <2>1, <2>2 DEF TypeOK
  <2> QED BY <1>3, <2>3 DEF TypeOK, FinishCdrom, soapVars, workVars
<1>4. ASSUME NEW f \in {"recipe", "package"}, UploadStart(p, f) PROVE TypeOK'
  BY <1>4, SMTT(30) DEF TypeOK, UploadStart, soapVars, workVars
<1>5. ASSUME NEW content \in {"valid", "broken"}, UploadFinish(p, content)
      PROVE  TypeOK'
  BY <1>5 DEF TypeOK, UploadFinish, soapVars, workVars
<1>6. CASE UploadAbandon(p)
  BY <1>6 DEF TypeOK, UploadAbandon, stored, soapVars, workVars
<1>7. CASE EmptyUpload(p)
  BY <1>7 DEF TypeOK, EmptyUpload, soapVars, workVars
<1>8. CASE ResetProject(p)
  BY <1>8 DEF TypeOK, ResetProject, soapVars, workVars
<1>9. CASE DelStart(p)
  BY <1>9 DEF TypeOK, DelStart, workVars
<1>10. QED
  BY <1>1, <1>2, <1>3, <1>4, <1>5, <1>6, <1>7, <1>8, <1>9 DEF Request

\* So does the rest of a request that was begun.
LEMMA TypeSoapStep ==
    ASSUME TypeOK, SoapStep
    PROVE  TypeOK'
<1>1. CASE CreateCommit
  BY <1>1, JobFacts DEF TypeOK, CreateCommit, workVars, NoJob
<1>2. CASE CreateFail
  BY <1>2, JobFacts DEF TypeOK, CreateFail, workVars, NoJob
<1>3. CASE CreateSetXml
  BY <1>3, JobFacts DEF TypeOK, CreateSetXml, AfterSetXml, workVars, NoJob
<1>4. CASE CreateSetXmlFail
  BY <1>4 DEF TypeOK, CreateSetXmlFail, workVars
<1>5. CASE Enqueue
  BY <1>5, JobFacts DEF TypeOK, Enqueue, stored, workVars, NoJob
<1>6. CASE DelCommit
  BY <1>6, JobFacts DEF TypeOK, DelCommit, workVars, NoJob
<1>7. CASE DelFail
  BY <1>7, JobFacts DEF TypeOK, DelFail, stored, workVars, NoJob
<1>8. CASE StopDone
  BY <1>8, TypeLoseMemory DEF TypeOK, StopDone, stored
<1>9. CASE AssertNotBusy
  BY <1>9, JobFacts DEF TypeOK, AssertNotBusy, stored, workVars, NoJob
<1>10. CASE SetBusy
  <2>1. status' \in [Projects -> Statuses]
    BY <1>10, JobFacts DEF TypeOK, SetBusy
  <2> QED BY <1>10, <2>1, JobFacts DEF TypeOK, SetBusy, workVars, NoJob
<1>11. QED
  BY <1>1, <1>2, <1>3, <1>4, <1>5, <1>6, <1>7, <1>8, <1>9, <1>10 DEF SoapStep

\* And the worker.
LEMMA TypeWorkerStep ==
    ASSUME TypeOK, WorkerStep
    PROVE  TypeOK'
<1>1. CASE GetStop
  BY <1>1 DEF TypeOK, GetStop, stored, soapVars
<1>2. CASE GetJob
  BY <1>2, JobFacts DEF TypeOK, GetJob, Die, stored, soapVars
<1>3. ASSUME NEW o \in {"ok", "error", "exception", "exit"}, RunJob(o)
      PROVE  TypeOK'
  BY <1>3, JobFacts DEF TypeOK, RunJob, stored, soapVars
<1>4. CASE Judge
  BY <1>4 DEF TypeOK, Judge, Success, stored, soapVars
<1>5. CASE UpdateFiles
  BY <1>5 DEF TypeOK, UpdateFiles, stored, soapVars
<1>6. CASE UpdateFilesFail
  BY <1>6 DEF TypeOK, UpdateFilesFail, Die, stored, soapVars
<1>7. CASE ReleaseRead
  BY <1>7 DEF TypeOK, ReleaseRead, Die, stored, soapVars
<1>8. CASE ReleaseCommit
  BY <1>8, JobFacts DEF TypeOK, ReleaseCommit, Die, soapVars
<1>9. CASE ReleaseFail
  BY <1>9 DEF TypeOK, ReleaseFail, Die, stored, soapVars
<1>10. QED
  BY <1>1, <1>2, <1>3, <1>4, <1>5, <1>6, <1>7, <1>8, <1>9 DEF WorkerStep

\* Every step of the daemon keeps the types.
LEMMA TypeNext ==
    ASSUME TypeOK, [Next]_vars
    PROVE  TypeOK'
<1>1. ASSUME NEW p \in Projects, Request(p) PROVE TypeOK'
  BY <1>1, TypeRequest
<1>2. ASSUME NEW p \in Projects, Rmtree(p) PROVE TypeOK'
  BY <1>2 DEF TypeOK, Rmtree, soapVars, workVars
<1>3. CASE SoapStep
  BY <1>3, TypeSoapStep
<1>4. CASE WorkerStep
  BY <1>4, TypeWorkerStep
<1>5. CASE Stop
  BY <1>5, JobFacts DEF TypeOK, Stop, stored, workVars, NoJob
<1>6. ASSUME NEW lost \in SUBSET Projects, Crash(lost) PROVE TypeOK'
  <2>1. /\ dir' \in [Projects -> Dirs]
        /\ xml' \in [Projects -> {"none", "valid", "broken"}]
    BY <1>6 DEF TypeOK, Crash
  <2>2. status' = status /\ upload' = upload /\ LoseMemory
    BY <1>6 DEF Crash
  <2>3. QED
    BY <2>1, <2>2, TypeLoseMemory
<1>7. CASE Start
  BY <1>7 DEF TypeOK, Start, stored, soapVars, workVars
<1>8. CASE UNCHANGED vars
  BY <1>8 DEF TypeOK, vars
<1>9. QED
  BY <1>1, <1>2, <1>3, <1>4, <1>5, <1>6, <1>7, <1>8 DEF Next

\* Type correctness: no path of the daemon, whatever fails, takes a variable
\* out of its values; in particular a job that is about to call reset_busy
\* always has a final status to write (`success' is set on every path through
\* the execute methods).
THEOREM TypeCorrect == Spec => []TypeOK
BY TypeInit, TypeNext, PTL DEF Spec

-----------------------------------------------------------------------------
(* The busy flag excludes.  The argument: whoever starts to work on a      *)
(* project found it not busy, so by OwnedIsBusy nobody else was at work on *)
(* it; and the status of a project leaves 'busy' only by the reset_busy of *)
(* its owner.  reset_project on a project at work and the upload of an     *)
(* empty file break the second half, so they are assumed away.             *)

NoForeignRelease == "reset_live" \notin Faults /\ "empty_upload" \notin Faults

\* queue.put adds at the end and moves nothing.
LEMMA AppendFacts ==
    ASSUME NEW S, NEW q \in Seq(S), NEW e \in S
    PROVE  /\ Append(q, e) \in Seq(S)
           /\ Len(q) \in Nat
           /\ Len(Append(q, e)) = Len(q) + 1
           /\ \A i \in 1..Len(q) : Append(q, e)[i] = q[i]
           /\ Append(q, e)[Len(q) + 1] = e
OBVIOUS

\* queue.get takes the first and moves the others up by one.
LEMMA TailFacts ==
    ASSUME NEW S, NEW q \in Seq(S), q # <<>>
    PROVE  /\ Tail(q) \in Seq(S)
           /\ Len(q) \in Nat /\ Len(q) > 0
           /\ Len(Tail(q)) = Len(q) - 1
           /\ \A i \in 1..Len(Tail(q)) : Tail(q)[i] = q[i + 1]
           /\ Head(q) = q[1] /\ q[1] \in S
OBVIOUS

\* A step that makes nobody an owner keeps owners apart.
LEMMA NoNewOwner ==
    ASSUME TypeOK, OneOwner, queue' = queue,
           \A p \in Projects : AtWorker(p)' => AtWorker(p),
           \A p \in Projects : AtSoap(p)' => AtSoap(p),
           \A p \in Projects : upload'[p] # "none" => upload[p] # "none"
    PROVE  /\ OneOwner'
           /\ \A p \in Projects : Owned(p)' => Owned(p)
<1>1. \A p \in Projects : InQueue(p)' <=> InQueue(p)
  BY DEF InQueue
<1>2. \A p \in Projects : JobPending(p)' => JobPending(p)
  BY <1>1 DEF JobPending
<1>3. \A p \in Projects : Owned(p)' => Owned(p)
  BY <1>2 DEF Owned
<1>4. OneOwner'
  BY <1>1, <1>2 DEF OneOwner
<1>5. QED
  BY <1>3, <1>4

\* What a project nobody is at work on looks like.
LEMMA NotBusyNotOwned ==
    ASSUME OwnedIsBusy, NEW p \in Projects, status[p] # "busy"
    PROVE  /\ ~Owned(p) /\ ~JobPending(p) /\ ~InQueue(p) /\ ~AtWorker(p)
           /\ ~AtSoap(p) /\ upload[p] = "none"
BY DEF OwnedIsBusy, Owned, JobPending

\* The worker's project is busy and in nobody else's hands.
LEMMA WorkerOwns ==
    ASSUME IInv, worker \in Active
    PROVE  /\ job.prj \in Projects /\ status[job.prj] = "busy"
           /\ AtWorker(job.prj)
           /\ ~InQueue(job.prj) /\ ~AtSoap(job.prj) /\ upload[job.prj] = "none"
<1>1. job.prj \in Projects /\ AtWorker(job.prj)
  BY JobFacts DEF IInv, TypeOK, AtWorker
<1>2. QED
  BY <1>1 DEF IInv, OneOwner, OwnedIsBusy, Owned, JobPending

\* Requests that take the flag or leave it with its owner.
LEMMA IInvRequest ==
    ASSUME IInv, TypeOK', NoForeignRelease, NEW p \in Projects, Request(p)
    PROVE  IInv'
<1> USE DEF IInv
<1>1. ASSUME NEW k \in {"new_project", "create_project"}, CreateDir(p, k)
      PROVE  IInv'
  <2>1. OneOwner' /\ \A q \in Projects : Owned(q)' => Owned(q)
    BY <1>1, NoNewOwner DEF CreateDir, AtWorker, AtSoap, workVars
  <2>2. OwnedIsBusy'
    BY <1>1, <2>1 DEF CreateDir, OwnedIsBusy
  <2>3. InOrder'
    BY <1>1 DEF CreateDir, InOrder, TypeOK
  <2>4. QED
    BY <2>1, <2>2, <2>3
<1>2. ASSUME NEW k \in Kinds, RequestJob(p, k) PROVE IInv'
  <2>1. OneOwner' /\ \A q \in Projects : Owned(q)' => Owned(q)
    BY <1>2, NoNewOwner DEF RequestJob, AtWorker, AtSoap, stored, workVars
  <2>2. OwnedIsBusy' /\ InOrder'
    BY <1>2, <2>1 DEF RequestJob, OwnedIsBusy, InOrder, stored
  <2>3. QED
    BY <2>1, <2>2
<1>3. CASE FinishCdrom(p)
  <2>1. OneOwner' /\ \A q \in Projects : Owned(q)' => Owned(q)
    BY <1>3, NoNewOwner DEF FinishCdrom, AtWorker, AtSoap, soapVars, workVars
  <2>2. ~Owned(p)
    BY <1>3, NotBusyNotOwned DEF FinishCdrom, Openable
  <2>3. OwnedIsBusy'
    BY <1>3, <2>1, <2>2 DEF FinishCdrom, OwnedIsBusy, TypeOK
  <2>4. InOrder'
    BY <1>3 DEF FinishCdrom, Openable, Loadable, InOrder, TypeOK, soapVars
  <2>5. QED
    BY <2>1, <2>3, <2>4
<1>4. ASSUME NEW f \in {"recipe", "package"}, UploadStart(p, f) PROVE IInv'
  <2>1. ~Owned(p) /\ ~JobPending(p) /\ ~InQueue(p) /\ ~AtWorker(p)
        /\ ~AtSoap(p) /\ upload[p] = "none"
    BY <1>4, NotBusyNotOwned DEF UploadStart
  <2>2. /\ queue' = queue /\ status'[p] = "busy"
        /\ \A q \in Projects : /\ AtWorker(q)' = AtWorker(q)
                               /\ InQueue(q)' = InQueue(q)
                               /\ AtSoap(q)' = AtSoap(q)
                               /\ q # p => /\ status'[q] = status[q]
                                           /\ upload'[q] = upload[q]
    BY <1>4 DEF UploadStart, AtWorker, AtSoap, InQueue, soapVars, workVars, TypeOK
  <2>3. OneOwner'
    BY <2>1, <2>2 DEF OneOwner, JobPending
  <2>4. OwnedIsBusy'
    BY <2>2 DEF OwnedIsBusy, Owned, JobPending
  <2>5. InOrder'
    BY <1>4, <2>2 DEF UploadStart, InOrder, TypeOK, soapVars
  <2>6. QED
    BY <2>3, <2>4, <2>5
<1>5. ASSUME NEW content \in {"valid", "broken"}, UploadFinish(p, content)
      PROVE  IInv'
  <2>1. OneOwner' /\ \A q \in Projects : Owned(q)' => Owned(q)
    <3>1. \A q \in Projects : upload'[q] # "none" => upload[q] # "none"
      BY <1>5 DEF UploadFinish, TypeOK
    <3>2. QED
      BY <1>5, <3>1, NoNewOwner DEF UploadFinish, AtWorker, AtSoap, soapVars, workVars
  <2>2. ~Owned(p)'
    BY <1>5 DEF UploadFinish, OneOwner, Owned, JobPending, InQueue, AtWorker,
                AtSoap, soapVars, workVars, TypeOK
  <2>3. OwnedIsBusy'
    BY <1>5, <2>1, <2>2 DEF UploadFinish, OwnedIsBusy, TypeOK
  <2>4. InOrder'
    BY <1>5 DEF UploadFinish, InOrder, TypeOK, soapVars
  <2>5. QED
    BY <2>1, <2>3, <2>4
<1>6. CASE UploadAbandon(p)
  <2>1. \A q \in Projects : upload'[q] # "none" => upload[q] # "none"
    BY <1>6 DEF UploadAbandon, TypeOK
  <2>2. OneOwner' /\ \A q \in Projects : Owned(q)' => Owned(q)
    BY <1>6, <2>1, NoNewOwner
       DEF UploadAbandon, AtWorker, AtSoap, soapVars, workVars
  <2>3. OwnedIsBusy' /\ InOrder'
    BY <1>6, <2>2 DEF UploadAbandon, OwnedIsBusy, InOrder, stored, soapVars
  <2>4. QED
    BY <2>2, <2>3
<1>7. CASE EmptyUpload(p)
  BY <1>7 DEF EmptyUpload, NoForeignRelease
<1>8. CASE ResetProject(p)
  <2>1. ~Owned(p)
    BY <1>8 DEF ResetProject, NoForeignRelease
  <2>2. OneOwner' /\ \A q \in Projects : Owned(q)' => Owned(q)
    BY <1>8, NoNewOwner DEF ResetProject, AtWorker, AtSoap, soapVars, workVars
  <2>3. OwnedIsBusy'
    BY <1>8, <2>1, <2>2 DEF ResetProject, OwnedIsBusy, TypeOK
  <2>4. InOrder'
    BY <1>8 DEF ResetProject, InOrder, TypeOK, soapVars
  <2>5. QED
    BY <2>2, <2>3, <2>4
<1>9. CASE DelStart(p)
  <2>1. OneOwner' /\ \A q \in Projects : Owned(q)' => Owned(q)
    BY <1>9, NoNewOwner DEF DelStart, AtWorker, AtSoap, workVars
  <2>2. OwnedIsBusy'
    BY <1>9, <2>1 DEF DelStart, OwnedIsBusy
  <2>3. InOrder'
    BY <1>9 DEF DelStart, InOrder, TypeOK
  <2>4. QED
    BY <2>1, <2>2, <2>3
<1>10. QED
  BY <1>1, <1>2, <1>3, <1>4, <1>5, <1>6, <1>7, <1>8, <1>9 DEF Request

\* A daemon that is gone works on nothing; uploads and the database stay.
LEMMA IInvLoseMemory ==
    ASSUME IInv, TypeOK', LoseMemory, status' = status, upload' = upload,
           \A p \in Projects : dir'[p] = "unused" <=> dir[p] = "unused"
    PROVE  IInv'
<1> USE DEF IInv
<1>1. \A p \in Projects : /\ ~InQueue(p)' /\ ~AtWorker(p)' /\ ~AtSoap(p)'
                          /\ ~JobPending(p)'
  BY DEF LoseMemory, InQueue, AtWorker, AtSoap, JobPending
<1>2. OneOwner'
  BY <1>1 DEF OneOwner, LoseMemory
<1>3. OwnedIsBusy'
  BY <1>1 DEF OwnedIsBusy, Owned
<1>4. InOrder'
  BY DEF InOrder, LoseMemory
<1>5. QED
  BY <1>2, <1>3, <1>4

\* The rest of a request: SetBusy takes the flag of a project nobody has, Enqueue
\* hands it over to the queue, every other step works on a project not busy.
LEMMA IInvSoapStep ==
    ASSUME IInv, TypeOK', SoapStep
    PROVE  IInv'
<1> USE DEF IInv
<1>1. CASE CreateCommit
  <2>1. OneOwner' /\ \A q \in Projects : Owned(q)' => Owned(q)
    BY <1>1, NoNewOwner DEF CreateCommit, AtWorker, AtSoap, workVars
  <2>2. req.prj \in Projects /\ ~Owned(req.prj)
    BY <1>1, NotBusyNotOwned DEF CreateCommit, InOrder, TypeOK
  <2>3. OwnedIsBusy'
    BY <1>1, <2>1, <2>2 DEF CreateCommit, OwnedIsBusy, TypeOK
  <2>4. InOrder'
    BY <1>1, <2>2 DEF CreateCommit, InOrder, TypeOK
  <2>5. QED
    BY <2>1, <2>3, <2>4
<1>2. CASE CreateFail
  <2>1. OneOwner' /\ \A q \in Projects : Owned(q)' => Owned(q)
    BY <1>2, NoNewOwner DEF CreateFail, AtWorker, AtSoap, workVars
  <2>2. OwnedIsBusy' /\ InOrder'
    BY <1>2, <2>1 DEF CreateFail, OwnedIsBusy, InOrder, TypeOK
  <2>3. QED
    BY <2>1, <2>2
<1>3. CASE CreateSetXml
  <2>1. OneOwner' /\ \A q \in Projects : Owned(q)' => Owned(q)
    BY <1>3, NoNewOwner DEF CreateSetXml, AtWorker, AtSoap, workVars
  <2>2. req.prj \in Projects /\ ~Owned(req.prj) /\ dir[req.prj] # "unused"
    BY <1>3, NotBusyNotOwned DEF CreateSetXml, InOrder, TypeOK
  <2>3. OwnedIsBusy'
    BY <1>3, <2>1, <2>2 DEF CreateSetXml, OwnedIsBusy, TypeOK
  <2>4. InOrder'
    BY <1>3, <2>2 DEF CreateSetXml, InOrder, TypeOK
  <2>5. QED
    BY <2>1, <2>3, <2>4
<1>4. CASE CreateSetXmlFail
  <2>1. OneOwner' /\ \A q \in Projects : Owned(q)' => Owned(q)
    BY <1>4, NoNewOwner DEF CreateSetXmlFail, AtWorker, AtSoap, workVars
  <2>2. OwnedIsBusy' /\ InOrder'
    BY <1>4, <2>1 DEF CreateSetXmlFail, OwnedIsBusy, InOrder, TypeOK
  <2>3. QED
    BY <2>1, <2>2
<1>5. CASE Enqueue
  <2>1. /\ req \in Jobs /\ req.prj \in Projects /\ AtSoap(req.prj)
        /\ Owned(req.prj) /\ ~JobPending(req.prj)
        /\ ~InQueue(req.prj) /\ ~AtWorker(req.prj) /\ upload[req.prj] = "none"
    BY <1>5, JobFacts
       DEF Enqueue, TypeOK, AtSoap, Owned, OneOwner, JobPending
  <2>2. queue' = Append(queue, req) /\ queue \in Seq(Jobs \cup {StopItem})
    BY <1>5 DEF Enqueue, TypeOK
  <2>3. /\ Len(queue) \in Nat /\ Len(queue') = Len(queue) + 1
        /\ \A i \in 1..Len(queue) : queue'[i] = queue[i]
        /\ queue'[Len(queue) + 1] = req
    BY <2>1, <2>2, AppendFacts
  <2>4. \A q \in Projects : /\ InQueue(q)' <=> InQueue(q) \/ q = req.prj
                            /\ AtWorker(q)' <=> AtWorker(q)
                            /\ ~AtSoap(q)'
                            /\ upload'[q] = upload[q] /\ status'[q] = status[q]
    BY <1>5, <2>3 DEF Enqueue, InQueue, AtWorker, AtSoap, stored, workVars
  <2>5. OneOwner'
    <3>1. \A i, j \in 1..Len(queue') : i # j => queue'[i].prj # queue'[j].prj
      BY <2>1, <2>3 DEF OneOwner, InQueue
    <3>2. QED
      BY <2>1, <2>4, <3>1 DEF OneOwner, JobPending
  <2>6. OwnedIsBusy'
    BY <2>1, <2>4 DEF OwnedIsBusy, Owned, JobPending
  <2>7. InOrder'
    BY <1>5, <2>1, <2>3, JobFacts DEF Enqueue, InOrder, stored
  <2>8. QED
    BY <2>5, <2>6, <2>7
<1>6. CASE DelCommit
  <2>1. OneOwner' /\ \A q \in Projects : Owned(q)' => Owned(q)
    BY <1>6, NoNewOwner DEF DelCommit, AtWorker, AtSoap, workVars
  <2>2. req.prj \in Projects /\ ~Owned(req.prj)
    BY <1>6, NotBusyNotOwned DEF DelCommit, InOrder, TypeOK
  <2>3. OwnedIsBusy'
    BY <1>6, <2>1, <2>2 DEF DelCommit, OwnedIsBusy, TypeOK
  <2>4. InOrder'
    BY <1>6 DEF DelCommit, InOrder, TypeOK
  <2>5. QED
    BY <2>1, <2>3, <2>4
<1>7. CASE DelFail
  <2>1. OneOwner' /\ \A q \in Projects : Owned(q)' => Owned(q)
    BY <1>7, NoNewOwner DEF DelFail, AtWorker, AtSoap, workVars
  <2>2. OwnedIsBusy' /\ InOrder'
    BY <1>7, <2>1 DEF DelFail, OwnedIsBusy, InOrder, stored
  <2>3. QED
    BY <2>1, <2>2
<1>8. CASE StopDone
  BY <1>8, IInvLoseMemory DEF StopDone, stored
<1>9. ASSUME AssertNotBusy \/ (SetBusy /\ status[req.prj] \notin Stable)
      PROVE  IInv'
  <2>1. /\ soap' \in {"idle", "take"}
        /\ UNCHANGED <<stored, upload, up, queue, level, workVars>>
    BY <1>9 DEF AssertNotBusy, SetBusy, stored
  <2>2. OneOwner' /\ \A q \in Projects : Owned(q)' => Owned(q)
    BY <2>1, NoNewOwner DEF AtWorker, AtSoap, workVars
  <2>3. OwnedIsBusy'
    BY <2>1, <2>2 DEF OwnedIsBusy, stored
  <2>4. InOrder'
    BY <1>9, <2>1 DEF InOrder, stored, AssertNotBusy, SetBusy
  <2>5. QED
    BY <2>2, <2>3, <2>4
<1>10. CASE SetBusy /\ status[req.prj] \in Stable
  <2>1. /\ soap = "take" /\ req \in Jobs /\ req.prj \in Projects
        /\ status[req.prj] \in Stable
    BY <1>10, JobFacts DEF SetBusy, TypeOK
  <2>2. ~Owned(req.prj) /\ ~JobPending(req.prj) /\ ~InQueue(req.prj)
        /\ ~AtWorker(req.prj) /\ upload[req.prj] = "none"
    BY <2>1, NotBusyNotOwned
  <2>3. /\ soap' = "put" /\ req' = req
        /\ status' = [status EXCEPT ![req.prj] = "busy"]
        /\ UNCHANGED <<dir, upload, queue, workVars>>
    BY <1>10 DEF SetBusy
  <2>4. /\ status'[req.prj] = "busy"
        /\ \A q \in Projects : /\ AtWorker(q)' = AtWorker(q)
                               /\ InQueue(q)' = InQueue(q)
                               /\ AtSoap(q)' => q = req.prj
                               /\ ~AtSoap(q)
                               /\ q # req.prj => status'[q] = status[q]
    BY <2>1, <2>3 DEF AtWorker, AtSoap, InQueue, workVars, TypeOK
  <2>5. OneOwner'
    BY <2>2, <2>3, <2>4 DEF OneOwner, JobPending
  <2>6. OwnedIsBusy'
    BY <2>3, <2>4 DEF OwnedIsBusy, Owned, JobPending
  <2>7. InOrder'
    BY <2>1, <2>3, <2>4 DEF InOrder, TypeOK
  <2>8. QED
    BY <2>5, <2>6, <2>7
<1>11. QED
  BY <1>1, <1>2, <1>3, <1>4, <1>5, <1>6, <1>7, <1>8, <1>9, <1>10 DEF SoapStep

\* A worker step that neither takes from the queue nor writes a status.
LEMMA IInvWorkerInternal ==
    ASSUME IInv, TypeOK', queue' = queue, UNCHANGED <<stored, upload, soapVars>>,
           worker \in Active, worker' \in Active => job' = job
    PROVE  IInv'
<1> USE DEF IInv
<1>1. OneOwner' /\ \A q \in Projects : Owned(q)' => Owned(q)
  BY NoNewOwner DEF AtWorker, AtSoap, soapVars
<1>2. OwnedIsBusy' /\ InOrder'
  BY <1>1 DEF OwnedIsBusy, InOrder, stored, soapVars
<1>3. QED
  BY <1>1, <1>2

\* The worker: GetJob hands the flag over from the queue to the worker, and
\* ReleaseCommit gives it back.
LEMMA IInvWorkerStep ==
    ASSUME IInv, TypeOK', WorkerStep
    PROVE  IInv'
<1> USE DEF IInv
<1>1. CASE GetStop \/ GetJob
  <2>1. /\ queue \in Seq(Jobs \cup {StopItem}) /\ queue # <<>>
        /\ queue' = Tail(queue) /\ ~(worker \in Active)
        /\ UNCHANGED <<stored, upload, soapVars>>
    BY <1>1 DEF GetStop, GetJob, TypeOK
  <2>2. /\ Len(queue) \in Nat /\ Len(queue) > 0
        /\ Len(queue') = Len(queue) - 1
        /\ \A i \in 1..Len(queue') : queue'[i] = queue[i + 1]
        /\ Head(queue) = queue[1]
    BY <2>1, TailFacts
  <2>3. worker' \in Active => job' = queue[1]
    BY <1>1, <2>2 DEF GetStop, GetJob, Die
  <2>4. \A q \in Projects : /\ InQueue(q)' => InQueue(q)
                            /\ AtWorker(q)' => queue[1].prj = q
                            /\ AtWorker(q)' => InQueue(q)
                            /\ AtSoap(q)' <=> AtSoap(q)
                            /\ upload'[q] = upload[q] /\ status'[q] = status[q]
    BY <2>1, <2>2, <2>3 DEF InQueue, AtWorker, AtSoap, stored, soapVars
  <2>5. \A q \in Projects : queue[1].prj = q => ~InQueue(q)'
    BY <2>2 DEF InQueue, OneOwner
  <2>6. OneOwner'
    <3>1. \A i, j \in 1..Len(queue') : i # j => queue'[i].prj # queue'[j].prj
      BY <2>2 DEF OneOwner
    <3>2. QED
      BY <2>4, <2>5, <3>1 DEF OneOwner, JobPending
  <2>7. OwnedIsBusy'
    BY <2>4 DEF OwnedIsBusy, Owned, JobPending
  <2>8. InOrder'
    BY <2>1, <2>2 DEF InOrder, stored, soapVars
  <2>9. QED
    BY <2>6, <2>7, <2>8
<1>2. ASSUME NEW o \in {"ok", "error", "exception", "exit"}, RunJob(o)
      PROVE  IInv'
  BY <1>2, IInvWorkerInternal DEF RunJob
<1>3. CASE Judge
  BY <1>3, IInvWorkerInternal DEF Judge
<1>4. CASE UpdateFiles
  BY <1>4, IInvWorkerInternal DEF UpdateFiles
<1>5. CASE UpdateFilesFail
  BY <1>5, IInvWorkerInternal DEF UpdateFilesFail, Die
<1>6. CASE ReleaseRead
  BY <1>6, IInvWorkerInternal DEF ReleaseRead, Die
<1>7. CASE ReleaseFail
  BY <1>7, IInvWorkerInternal DEF ReleaseFail, Die
<1>8. CASE ReleaseCommit
  <2>1. /\ job.prj \in Projects /\ status[job.prj] = "busy"
        /\ ~InQueue(job.prj) /\ ~AtSoap(job.prj) /\ upload[job.prj] = "none"
    BY <1>8, WorkerOwns DEF ReleaseCommit
  <2>2. /\ queue' = queue /\ upload' = upload /\ dir' = dir
        /\ UNCHANGED soapVars /\ ~(worker' \in Active)
        /\ status' = [status EXCEPT ![job.prj] = verdict]
    BY <1>8, <2>1 DEF ReleaseCommit, Die
  <2>3. OneOwner' /\ \A q \in Projects : Owned(q)' => Owned(q)
    BY <2>2, NoNewOwner DEF AtWorker, AtSoap, soapVars
  <2>5. OwnedIsBusy'
    <3>1. \A q \in Projects : q # job.prj => status'[q] = status[q]
      BY <2>2 DEF TypeOK
    <3>2. \A q \in Projects : Owned(q)' => q # job.prj
      <4>1. SUFFICES ASSUME NEW q \in Projects, q = job.prj PROVE ~Owned(q)'
        OBVIOUS
      <4>2. QED
        BY <2>1, <2>2, <4>1
           DEF Owned, JobPending, InQueue, AtWorker, AtSoap, soapVars
    <3>3. QED
      BY <2>3, <3>1, <3>2 DEF OwnedIsBusy
  <2>6. InOrder'
    BY <1>8, <2>1, <2>2 DEF ReleaseCommit, InOrder, TypeOK, soapVars
  <2>7. QED
    BY <2>3, <2>5, <2>6
<1>9. QED
  BY <1>1, <1>2, <1>3, <1>4, <1>5, <1>6, <1>7, <1>8 DEF WorkerStep

\* Nobody is at work at the start.
LEMMA IInvInit == Init => IInv
<1> SUFFICES ASSUME Init PROVE IInv
  OBVIOUS
<1>1. TypeOK
  BY TypeInit
<1>2. \A p \in Projects : ~Owned(p) /\ ~JobPending(p) /\ ~AtSoap(p)
                          /\ ~InQueue(p) /\ ~AtWorker(p)
  BY DEF Init, Owned, JobPending, InQueue, AtWorker, AtSoap
<1>3. QED
  BY <1>1, <1>2 DEF Init, IInv, OneOwner, OwnedIsBusy, InOrder

\* Every step of the daemon keeps the inductive invariant.
LEMMA IInvNext ==
    ASSUME IInv, [Next]_vars, NoForeignRelease
    PROVE  IInv'
<1> USE DEF IInv
<1>0. TypeOK'
  BY TypeNext
<1>1. ASSUME NEW p \in Projects, Request(p) PROVE IInv'
  BY <1>0, <1>1, IInvRequest
<1>2. ASSUME NEW p \in Projects, Rmtree(p) PROVE IInv'
  <2>1. OneOwner' /\ \A q \in Projects : Owned(q)' => Owned(q)
    BY <1>2, NoNewOwner DEF Rmtree, AtWorker, AtSoap, soapVars, workVars
  <2>2. OwnedIsBusy' /\ InOrder'
    BY <1>2, <2>1 DEF Rmtree, OwnedIsBusy, InOrder, TypeOK, soapVars
  <2>3. QED
    BY <1>0, <2>1, <2>2
<1>3. CASE SoapStep
  BY <1>0, <1>3, IInvSoapStep
<1>4. CASE WorkerStep
  BY <1>0, <1>4, IInvWorkerStep
<1>5. CASE Stop
  <2>1. /\ queue \in Seq(Jobs \cup {StopItem})
        /\ queue' = Append(queue, StopItem)
        /\ UNCHANGED <<stored, upload, workVars>>
        /\ soap' = "stop" /\ soap # "stop"
    BY <1>5 DEF Stop, TypeOK
  <2>2. /\ Len(queue) \in Nat /\ Len(queue') = Len(queue) + 1
        /\ \A i \in 1..Len(queue) : queue'[i] = queue[i]
        /\ queue'[Len(queue) + 1] = StopItem
    BY <2>1, AppendFacts
  <2>3. \A i \in 1..Len(queue) : queue[i].prj # NoProject
    <3>1. \A i \in 1..Len(queue) : queue[i] \in Jobs
      BY <2>1, <2>2 DEF InOrder
    <3>2. QED
      BY <3>1, JobFacts
  <2>4. \A q \in Projects : /\ InQueue(q)' => InQueue(q)
                            /\ AtWorker(q)' <=> AtWorker(q)
                            /\ ~AtSoap(q)'
                            /\ upload'[q] = upload[q] /\ status'[q] = status[q]
    BY <2>1, <2>2, JobFacts, NoProjectAssumption
       DEF InQueue, AtWorker, AtSoap, stored, workVars
  <2>5. OneOwner'
    <3>1. \A i, j \in 1..Len(queue') : i # j => queue'[i].prj # queue'[j].prj
      BY <2>2, <2>3, JobFacts DEF OneOwner
    <3>2. QED
      BY <2>4, <3>1 DEF OneOwner, JobPending
  <2>6. OwnedIsBusy'
    BY <2>4 DEF OwnedIsBusy, Owned, JobPending
  <2>7. InOrder'
    BY <2>1 DEF InOrder, stored
  <2>8. QED
    BY <1>0, <2>5, <2>6, <2>7
<1>6. ASSUME NEW lost \in SUBSET Projects, Crash(lost) PROVE IInv'
  <2>1. \A p \in Projects : dir'[p] = "unused" <=> dir[p] = "unused"
    BY <1>6 DEF Crash, TypeOK
  <2>2. LoseMemory /\ status' = status /\ upload' = upload
    BY <1>6 DEF Crash
  <2>3. QED
    BY <1>0, <2>1, <2>2, IInvLoseMemory
<1>7. CASE Start
  <2>1. OneOwner' /\ \A q \in Projects : Owned(q)' => Owned(q)
    BY <1>7, NoNewOwner DEF Start, AtWorker, AtSoap, stored, soapVars, workVars
  <2>2. OwnedIsBusy' /\ InOrder'
    BY <1>7, <2>1 DEF Start, OwnedIsBusy, InOrder, stored, soapVars
  <2>3. QED
    BY <1>0, <2>1, <2>2
<1>8. CASE UNCHANGED vars
  <2>1. OneOwner' /\ \A q \in Projects : Owned(q)' => Owned(q)
    BY <1>8, NoNewOwner DEF vars, AtWorker, AtSoap
  <2>2. OwnedIsBusy' /\ InOrder'
    BY <1>8, <2>1 DEF vars, OwnedIsBusy, InOrder
  <2>3. QED
    BY <1>0, <2>1, <2>2
<1>9. QED
  BY <1>1, <1>2, <1>3, <1>4, <1>5, <1>6, <1>7, <1>8 DEF Next

\* With any number of projects and jobs, through crashes, abandoned uploads,
\* failing commits and dying workers: two activities never work on the same
\* project (the busy flag taken by set_busy keeps build jobs, uploads and
\* requests apart).
THEOREM OneOwnerHolds ==
    ASSUME NoForeignRelease
    PROVE  Spec => []OneOwner
<1>1. IInv => OneOwner
  BY DEF IInv
<1>2. IInv /\ [Next]_vars => IInv'
  BY IInvNext
<1>3. QED
  BY <1>1, <1>2, IInvInit, PTL DEF Spec

\* Under the same assumptions the database says busy for every project that
\* somebody works on: a request that finds a project not busy has it to itself.
THEOREM OwnedIsBusyHolds ==
    ASSUME NoForeignRelease
    PROVE  Spec => []OwnedIsBusy
<1>1. IInv => OwnedIsBusy
  BY DEF IInv
<1>2. IInv /\ [Next]_vars => IInv'
  BY IInvNext
<1>3. QED
  BY <1>1, <1>2, IInvInit, PTL DEF Spec

-----------------------------------------------------------------------------
(* A verdict tells about its own job.                                      *)

\* A request does not touch the queue, the levels or the worker; the rest of one
\* touches them only in Enqueue and StopDone.
LEMMA RequestFrame ==
    ASSUME NEW p \in Projects, Request(p) \/ Rmtree(p)
    PROVE  UNCHANGED <<queue, level, worker, job, outcome, verdict>>
<1>1. CASE Rmtree(p)
  BY <1>1 DEF Rmtree, workVars
<1>2. CASE Request(p)
  BY <1>2 DEF Request, CreateDir, RequestJob, FinishCdrom, UploadStart, UploadFinish,
              UploadAbandon, EmptyUpload, ResetProject, DelStart, stored, workVars
<1> QED BY <1>1, <1>2

\* Nothing is queued and no job runs at the start, and after a restart.
LEMMA LevelsInit == Init => LevelsOwn /\ VerdictOwn
BY DEF Init, LevelsOwn, VerdictOwn

\* Only the job at the worker raises a level, and by OneOwner its project has no
\* other job whose level it could spoil.
LEMMA LevelsNext ==
    ASSUME IInv, LevelsOwn, VerdictOwn, [Next]_vars
    PROVE  LevelsOwn' /\ VerdictOwn'
<1>q. queue \in Seq(Jobs \cup {StopItem}) /\ level \in [Projects -> {"ok", "error"}]
  BY DEF IInv, TypeOK
<1>1. ASSUME UNCHANGED <<queue, level, worker, job, outcome, verdict>>
      PROVE  LevelsOwn' /\ VerdictOwn'
  BY <1>1 DEF LevelsOwn, VerdictOwn
<1>2. ASSUME LoseMemory PROVE LevelsOwn' /\ VerdictOwn'
  BY <1>2 DEF LoseMemory, LevelsOwn, VerdictOwn
<1>3. CASE Enqueue
  <2>1. /\ req \in Jobs /\ req.prj \in Projects
        /\ level' = [level EXCEPT ![req.prj] = "ok"]
        /\ queue' = Append(queue, req)
        /\ UNCHANGED <<worker, job, outcome, verdict>>
    BY <1>3, JobFacts DEF Enqueue, IInv, TypeOK, workVars
  <2>2. /\ Len(queue) \in Nat /\ Len(queue') = Len(queue) + 1
        /\ \A i \in 1..Len(queue) : queue'[i] = queue[i]
        /\ queue'[Len(queue) + 1] = req
    BY <1>q, <2>1, AppendFacts
  <2>3. \A p \in Projects : level[p] = "ok" => level'[p] = "ok"
    BY <1>q, <2>1
  <2>4. \A i \in 1..Len(queue') : queue'[i] # StopItem => level'[queue'[i].prj] = "ok"
    <3> SUFFICES ASSUME NEW i \in 1..Len(queue'), queue'[i] # StopItem
                 PROVE  level'[queue'[i].prj] = "ok"
      OBVIOUS
    <3>1. CASE i = Len(queue) + 1
      BY <1>q, <2>1, <2>2, <3>1
    <3>2. CASE i \in 1..Len(queue)
      <4>1. queue[i] \in Jobs /\ queue'[i] = queue[i]
        BY <1>q, <2>2, <3>2
      <4>2. queue[i].prj \in Projects /\ level[queue[i].prj] = "ok"
        BY <3>2, <4>1, JobFacts DEF LevelsOwn
      <4> QED BY <2>3, <4>1, <4>2
    <3> QED BY <2>2, <3>1, <3>2
  <2>5. worker = "run" => level'[job.prj] = "ok"
    BY <2>3, WorkerOwns DEF LevelsOwn
  <2>6. worker = "judge" => level'[job.prj] = level[job.prj]
    <3>1. worker = "judge" => job.prj \in Projects /\ ~AtSoap(job.prj)
      BY WorkerOwns
    <3> QED BY <1>3, <1>q, <2>1, <3>1 DEF AtSoap, Enqueue
  <2> QED BY <2>1, <2>4, <2>5, <2>6 DEF LevelsOwn, VerdictOwn
<1>4. CASE GetStop \/ GetJob
  <2>1. queue # <<>> /\ queue' = Tail(queue) /\ level' = level
    BY <1>4 DEF GetStop, GetJob
  <2>2. /\ Len(queue) \in Nat /\ Len(queue) > 0 /\ Len(queue') = Len(queue) - 1
        /\ \A i \in 1..Len(queue') : queue'[i] = queue[i + 1]
        /\ Head(queue) = queue[1]
    BY <1>q, <2>1, TailFacts
  <2>3. \A i \in 1..Len(queue') : queue'[i] # StopItem => level'[queue'[i].prj] = "ok"
    <3> SUFFICES ASSUME NEW i \in 1..Len(queue'), queue'[i] # StopItem
                 PROVE  level'[queue'[i].prj] = "ok"
      OBVIOUS
    <3>1. i + 1 \in 1..Len(queue) /\ queue'[i] = queue[i + 1]
      BY <2>2
    <3> QED BY <2>1, <3>1 DEF LevelsOwn
  <2>4. /\ worker' \notin {"judge", "files", "release", "commit"}
        /\ worker' = "run" => job' = queue[1] /\ queue[1] # StopItem
    BY <1>4, <2>2 DEF GetStop, GetJob, Die
  <2>5. worker' = "run" => level'[job'.prj] = "ok"
    BY <2>1, <2>2, <2>4 DEF LevelsOwn
  <2> QED BY <2>3, <2>4, <2>5 DEF LevelsOwn, VerdictOwn
<1>5. ASSUME NEW o \in {"ok", "error", "exception", "exit"}, RunJob(o)
      PROVE  LevelsOwn' /\ VerdictOwn'
  <2>1. /\ worker = "run" /\ worker' = "judge" /\ outcome' = o
        /\ queue' = queue /\ job' = job
        /\ level' = IF o = "ok" THEN level ELSE [level EXCEPT ![job.prj] = "error"]
    BY <1>5 DEF RunJob
  <2>2. job.prj \in Projects /\ ~InQueue(job.prj) /\ level[job.prj] = "ok"
    BY <2>1, WorkerOwns DEF LevelsOwn
  <2>3. \A i \in 1..Len(queue) : queue[i] # StopItem => level'[queue[i].prj] = "ok"
    <3> SUFFICES ASSUME NEW i \in 1..Len(queue), queue[i] # StopItem
                 PROVE  level'[queue[i].prj] = "ok"
      OBVIOUS
    <3>1. queue[i].prj # job.prj
      BY <2>2 DEF InQueue
    <3>2. level[queue[i].prj] = "ok"
      BY DEF LevelsOwn
    <3> QED BY <1>q, <2>1, <3>1, <3>2
  <2>4. level'[job.prj] = "ok" <=> o = "ok"
    BY <1>q, <2>1, <2>2
  <2> QED BY <2>1, <2>3, <2>4 DEF LevelsOwn, VerdictOwn
<1>6. CASE Judge
  <2>1. /\ worker = "judge" /\ worker' \in {"files", "release"}
        /\ verdict' = Success(job.kind, outcome, level[job.prj])
        /\ UNCHANGED <<queue, level, job, outcome>>
    BY <1>6 DEF Judge
  <2>2. LevelsOwn'
    BY <2>1 DEF LevelsOwn
  <2>3. VerdictOwn'
    BY <2>1 DEF VerdictOwn, Success, LevelJudged, LevelsOwn
  <2> QED BY <2>2, <2>3
<1>7. CASE UpdateFiles \/ UpdateFilesFail \/ ReleaseRead \/ ReleaseCommit \/ ReleaseFail
  <2>1. /\ UNCHANGED <<queue, level>>
        /\ worker' \notin {"run", "judge"}
    BY <1>7 DEF UpdateFiles, UpdateFilesFail, ReleaseRead, ReleaseCommit, ReleaseFail, Die
  <2>2. \/ worker' \in {"dead", "idle"}
        \/ /\ worker \in {"files", "release", "commit"}
           /\ UNCHANGED <<job, verdict>>
           /\ outcome' = outcome \/ job.kind = "update_pbuilder"
    BY <1>7 DEF UpdateFiles, UpdateFilesFail, ReleaseRead, ReleaseCommit, ReleaseFail, Die
  <2>3. LevelsOwn'
    BY <2>1 DEF LevelsOwn
  <2>4. VerdictOwn'
    BY <2>2 DEF VerdictOwn, LevelJudged
  <2> QED BY <2>3, <2>4
<1>8. CASE Stop
  <2>1. /\ queue' = Append(queue, StopItem)
        /\ UNCHANGED <<level, worker, job, outcome, verdict>>
    BY <1>8 DEF Stop, workVars
  <2>2. /\ Len(queue) \in Nat /\ Len(queue') = Len(queue) + 1
        /\ \A i \in 1..Len(queue) : queue'[i] = queue[i]
        /\ queue'[Len(queue) + 1] = StopItem
    BY <1>q, <2>1, AppendFacts
  <2>3. \A i \in 1..Len(queue') : queue'[i] # StopItem
                                     => i \in 1..Len(queue) /\ queue'[i] = queue[i]
    BY <2>2
  <2> QED BY <2>1, <2>3 DEF LevelsOwn, VerdictOwn
<1>9. CASE SoapStep
  <2>1. \/ Enqueue \/ LoseMemory
        \/ UNCHANGED <<queue, level, worker, job, outcome, verdict>>
    BY <1>9 DEF SoapStep, CreateCommit, CreateFail, CreateSetXml, CreateSetXmlFail,
                AssertNotBusy, SetBusy, DelCommit, DelFail, StopDone, workVars
  <2> QED BY <1>1, <1>2, <1>3, <2>1
<1>10. CASE WorkerStep
  BY <1>4, <1>5, <1>6, <1>7, <1>10 DEF WorkerStep
<1>11. CASE \E p \in Projects : Request(p) \/ Rmtree(p)
  BY <1>1, <1>11, RequestFrame
<1>12. CASE \E lost \in SUBSET Projects : Crash(lost)
  BY <1>2, <1>12 DEF Crash
<1>13. CASE Start \/ UNCHANGED vars
  BY <1>1, <1>13 DEF Start, vars, workVars
<1> QED BY <1>8, <1>9, <1>10, <1>11, <1>12, <1>13 DEF Next

\* Whatever fails, but for resets of projects at work: the status a job leaves
\* behind is that of its own work, with the error level of no other job.
THEOREM VerdictOwnHolds ==
    ASSUME NoForeignRelease
    PROVE  Spec => []VerdictOwn
<1>1. IInv /\ LevelsOwn /\ VerdictOwn /\ [Next]_vars => IInv' /\ LevelsOwn' /\ VerdictOwn'
  BY IInvNext, LevelsNext
<1> QED BY <1>1, IInvInit, LevelsInit, PTL DEF Spec

-----------------------------------------------------------------------------
(* The project of a job stays, and so does the worker.  As long as no      *)
(* commit fails a directory goes only together with its row; the project   *)
(* of a job is busy, hence not being deleted, hence there.                 *)

NoFailedCommit == "dbfail" \notin Faults

\* A job is pending only if it was, or if its request puts it into the queue.
LEMMA PendingNext ==
    ASSUME TypeOK, [Next]_vars, NEW p \in Projects
    PROVE  JobPending(p)' => JobPending(p) \/ (Enqueue /\ AtSoap(p))
<1>q. queue \in Seq(Jobs \cup {StopItem})
  BY DEF TypeOK
<1>1. ASSUME queue' = queue, worker' \in Active => worker \in Active /\ job' = job
      PROVE  JobPending(p)' => JobPending(p)
  BY <1>1 DEF JobPending, InQueue, AtWorker
<1>2. ASSUME LoseMemory PROVE ~JobPending(p)'
  BY <1>2 DEF LoseMemory, JobPending, InQueue, AtWorker
<1>3. CASE Enqueue
  <2>1. req \in Jobs /\ queue' = Append(queue, req) /\ UNCHANGED workVars
    BY <1>3 DEF Enqueue, TypeOK
  <2>2. /\ Len(queue) \in Nat /\ Len(queue') = Len(queue) + 1
        /\ \A i \in 1..Len(queue) : queue'[i] = queue[i]
        /\ queue'[Len(queue) + 1] = req
    BY <1>q, <2>1, AppendFacts
  <2>3. InQueue(p)' => InQueue(p) \/ req.prj = p
    BY <2>2 DEF InQueue
  <2> QED BY <1>3, <2>1, <2>3 DEF JobPending, AtWorker, AtSoap, Enqueue, workVars
<1>4. CASE GetStop \/ GetJob
  <2>1. queue # <<>> /\ queue' = Tail(queue)
    BY <1>4 DEF GetStop, GetJob
  <2>2. /\ Len(queue) \in Nat /\ Len(queue) > 0 /\ Len(queue') = Len(queue) - 1
        /\ \A i \in 1..Len(queue') : queue'[i] = queue[i + 1]
        /\ Head(queue) = queue[1]
    BY <1>q, <2>1, TailFacts
  <2>3. InQueue(p)' => InQueue(p)
    BY <2>2 DEF InQueue
  <2>4. worker' \in Active => job' = queue[1]
    BY <1>4, <2>2 DEF GetStop, GetJob, Die
  <2>5. AtWorker(p)' => InQueue(p)
    BY <2>2, <2>4 DEF AtWorker, InQueue
  <2> QED BY <2>3, <2>5 DEF JobPending
<1>5. CASE Stop
  <2>1. queue' = Append(queue, StopItem) /\ UNCHANGED workVars
    BY <1>5 DEF Stop
  <2>2. /\ Len(queue) \in Nat /\ Len(queue') = Len(queue) + 1
        /\ \A i \in 1..Len(queue) : queue'[i] = queue[i]
        /\ queue'[Len(queue) + 1] = StopItem
    BY <1>q, <2>1, AppendFacts
  <2>3. InQueue(p)' => InQueue(p)
    BY <2>2, JobFacts, NoProjectAssumption DEF InQueue
  <2> QED BY <2>1, <2>3 DEF JobPending, AtWorker, workVars
<1>6. CASE SoapStep
  <2>1. \/ Enqueue \/ LoseMemory
        \/ queue' = queue /\ worker' = worker /\ job' = job
    BY <1>6 DEF SoapStep, CreateCommit, CreateFail, CreateSetXml, CreateSetXmlFail,
                AssertNotBusy, SetBusy, DelCommit, DelFail, StopDone, workVars
  <2> QED BY <1>1, <1>2, <1>3, <2>1
<1>7. CASE WorkerStep
  <2>1. \/ GetStop \/ GetJob
        \/ queue' = queue /\ (worker' \in Active => worker \in Active /\ job' = job)
    BY <1>7 DEF WorkerStep, RunJob, Judge, UpdateFiles, UpdateFilesFail, ReleaseRead,
                ReleaseCommit, ReleaseFail, Die
  <2> QED BY <1>1, <1>4, <2>1
<1>8. CASE \E q \in Projects : Request(q) \/ Rmtree(q)
  BY <1>1, <1>8, RequestFrame
<1>9. CASE \E lost \in SUBSET Projects : Crash(lost)
  BY <1>2, <1>9 DEF Crash
<1>10. CASE Start \/ UNCHANGED vars
  BY <1>1, <1>10 DEF Start, vars, workVars
<1> QED BY <1>5, <1>6, <1>7, <1>8, <1>9, <1>10 DEF Next

\* A row appears only when a project is created.
LEMMA RowNext ==
    ASSUME TypeOK, [Next]_vars, NEW p \in Projects, status'[p] # "none"
    PROVE  status[p] # "none" \/ (CreateCommit /\ req.prj = p)
<1>1. status \in [Projects -> Statuses]
  BY DEF TypeOK
<1>2. CASE \E q \in Projects : Request(q) \/ Rmtree(q)
  <2>1. PICK q \in Projects : Request(q) \/ Rmtree(q)
    BY <1>2
  <2>2. CASE FinishCdrom(q)
    BY <1>1, <2>2 DEF FinishCdrom, Openable, Loadable
  <2>3. CASE ~FinishCdrom(q)
    BY <1>1, <2>1, <2>3
       DEF Request, Rmtree, CreateDir, RequestJob, UploadStart, UploadFinish,
           UploadAbandon, EmptyUpload, ResetProject, DelStart, stored
  <2> QED BY <2>2, <2>3
<1>3. CASE SoapStep
  <2>1. CASE CreateSetXml
    <3>1. status' = [status EXCEPT ![req.prj] = AfterSetXml(status[req.prj])]
      BY <2>1 DEF CreateSetXml
    <3>2. status[p] = "none" => AfterSetXml(status[p]) = "none"
      BY DEF AfterSetXml
    <3> QED BY <1>1, <3>1, <3>2
  <2> QED BY <1>1, <1>3, <2>1
       DEF SoapStep, CreateCommit, CreateFail, CreateSetXmlFail, AssertNotBusy,
           SetBusy, Enqueue, DelCommit, DelFail, StopDone, stored
<1>4. CASE WorkerStep
  BY <1>1, <1>4
     DEF WorkerStep, GetStop, GetJob, RunJob, Judge, UpdateFiles, UpdateFilesFail,
         ReleaseRead, ReleaseCommit, ReleaseFail, stored
<1>5. CASE Stop \/ Start \/ UNCHANGED vars \/ \E lost \in SUBSET Projects : Crash(lost)
  BY <1>5 DEF Stop, Start, Crash, vars, stored
<1> QED BY <1>2, <1>3, <1>4, <1>5 DEF Next

\* What DirsKept says of projects somebody works on.
LEMMA HeldDir ==
    ASSUME IInv, NEW p \in Projects, JobPending(p) \/ AtSoap(p)
    PROVE  status[p] = "busy" /\ upload[p] = "none" /\ ~(soap \in {"create", "xml", "del"} /\ req.prj = p)
<1>1. status[p] = "busy" /\ upload[p] = "none"
  BY DEF IInv, OneOwner, OwnedIsBusy, Owned
<1> QED BY <1>1 DEF IInv, InOrder

\* There is no project at the start.
LEMMA DirsInit == Init => DirsKept
BY DEF Init, DirsKept, JobPending, InQueue, AtWorker, AtSoap

\* Every step keeps the directories that are needed.
LEMMA DirsNext ==
    ASSUME IInv, DirsKept, [Next]_vars, NoFailedCommit
    PROVE  DirsKept'
<1>t. dir \in [Projects -> Dirs] /\ status \in [Projects -> Statuses]
  BY DEF IInv, TypeOK
<1>p. \A p \in Projects : JobPending(p)' => JobPending(p) \/ (Enqueue /\ AtSoap(p))
  BY PendingNext DEF IInv
<1>r. \A p \in Projects : status'[p] # "none" => status[p] # "none" \/ (CreateCommit /\ req.prj = p)
  BY RowNext DEF IInv
<1>1. ASSUME UNCHANGED <<dir, soap, req>>, ~CreateCommit PROVE DirsKept'
  <2>1. \A p \in Projects : AtSoap(p)' => AtSoap(p)
    BY <1>1 DEF AtSoap
  <2> QED BY <1>1, <1>p, <1>r, <2>1 DEF DirsKept
\* Such a step begins a request: none was under way, and no row is being deleted.
<1>2. ASSUME NEW p \in Projects, NEW k \in Kinds, RequestJob(p, k) PROVE DirsKept'
  <2>1. /\ soap = "idle" /\ soap' = "open" /\ req'.prj = p
        /\ Exists(p) /\ status[p] # "none" /\ UNCHANGED <<dir, status>>
    BY <1>2 DEF RequestJob, Loadable, stored
  <2>2. \A q \in Projects : status[q] # "none" => dir[q] # "removing"
    BY <2>1 DEF DirsKept
  <2>3. dir[p] \in {"present", "partial"}
    BY <2>1, <2>2 DEF Exists
  <2>4. ~Enqueue
    BY <2>1 DEF Enqueue
  <2> QED BY <1>p, <2>1, <2>2, <2>3, <2>4 DEF DirsKept, AtSoap
<1>3. ASSUME LoseMemory, \A p \in Projects : dir'[p] # "removing" PROVE DirsKept'
  BY <1>3 DEF LoseMemory, DirsKept, JobPending, InQueue, AtWorker, AtSoap
<1>4. ASSUME NEW p \in Projects, Request(p) PROVE DirsKept'
  <2>1. ASSUME NEW k \in {"new_project", "create_project"}, CreateDir(p, k) PROVE DirsKept'
    <3>1. /\ soap = "idle" /\ soap' = "create" /\ req'.prj = p /\ status' = status
          /\ dir' = [dir EXCEPT ![p] = "present"]
      BY <2>1 DEF CreateDir
    <3>2. ~Enqueue /\ ~CreateCommit
      BY <3>1 DEF Enqueue, CreateCommit
    <3> QED BY <1>t, <1>p, <3>1, <3>2 DEF DirsKept, AtSoap
  <2>2. ASSUME NEW k \in Kinds, RequestJob(p, k) PROVE DirsKept'
    BY <1>2, <2>2
  <2>3. CASE DelStart(p)
    <3>1. /\ soap = "idle" /\ soap' = "del" /\ req'.prj = p /\ status' = status
          /\ status[p] # "busy" /\ \A q \in Projects \ {p} : dir'[q] = dir[q]
      BY <1>t, <2>3 DEF DelStart
    <3>2. ~JobPending(p)
      BY <3>1, HeldDir
    <3>3. ~Enqueue
      BY <3>1 DEF Enqueue
    <3> QED BY <1>p, <3>1, <3>2, <3>3 DEF DirsKept, AtSoap
  <2>4. CASE UploadAbandon(p)
    <3>1. UNCHANGED <<dir, soap, req, status>>
      BY <2>4 DEF UploadAbandon, stored, soapVars
    <3>2. \A q \in Projects : AtSoap(q)' => AtSoap(q)
      BY <3>1 DEF AtSoap
    <3>3. ~Enqueue
      <4>1. Enqueue => queue' # queue
        BY AppendFacts DEF Enqueue, IInv, TypeOK
      <4> QED BY <2>4, <4>1 DEF UploadAbandon
    <3> QED BY <1>p, <3>1, <3>2, <3>3 DEF DirsKept
  <2>5. ASSUME \/ FinishCdrom(p) \/ EmptyUpload(p) \/ ResetProject(p)
               \/ \E f \in {"recipe", "package"} : UploadStart(p, f)
               \/ \E content \in {"valid", "broken"} : UploadFinish(p, content)
        PROVE  DirsKept'
    <3>1. UNCHANGED <<dir, soap, req>> /\ soap = "idle"
      BY <2>5 DEF FinishCdrom, EmptyUpload, ResetProject, UploadStart, UploadFinish, soapVars
    <3> QED BY <1>1, <3>1 DEF CreateCommit
  <2> QED BY <1>4, <2>1, <2>2, <2>3, <2>4, <2>5 DEF Request
<1>5. ASSUME NEW p \in Projects, Rmtree(p) PROVE DirsKept'
  <2>1. /\ dir[p] = "removing" /\ dir' = [dir EXCEPT ![p] = "gone"]
        /\ UNCHANGED <<status, soap, req, queue, worker, job>>
    BY <1>5 DEF Rmtree, soapVars, workVars
  <2>2. ~JobPending(p) /\ ~AtSoap(p)
    BY <2>1 DEF DirsKept
  <2>3. \A q \in Projects : (JobPending(q)' <=> JobPending(q)) /\ (AtSoap(q)' <=> AtSoap(q))
    BY <2>1 DEF JobPending, InQueue, AtWorker, AtSoap
  <2>4. soap \in {"create", "xml", "open", "take"} => req.prj # p
    BY <2>1 DEF DirsKept
  <2>5. soap \in {"create", "xml", "open", "take"} => req.prj \in Projects
    BY JobFacts DEF IInv, TypeOK
  <2> QED BY <1>t, <2>1, <2>2, <2>3, <2>4, <2>5 DEF DirsKept
<1>6. CASE SoapStep
  <2>0. soap \in {"create", "xml", "del"} => req.prj \in Projects
    BY DEF IInv, TypeOK
  <2>1. CASE CreateCommit
    <3>1. /\ soap = "create" /\ soap' \in {"xml", "idle"} /\ (soap' = "xml" => req' = req)
          /\ dir' = dir /\ \A q \in Projects \ {req.prj} : status'[q] = status[q]
      BY <1>t, <2>1 DEF CreateCommit
    <3>2. dir[req.prj] = "present"
      BY <3>1 DEF DirsKept
    <3>3. ~Enqueue
      BY <3>1 DEF Enqueue
    <3> QED BY <1>p, <3>1, <3>2, <3>3 DEF DirsKept, AtSoap
  <2>2. CASE CreateFail \/ DelFail
    BY <2>2 DEF CreateFail, DelFail, NoFailedCommit
  <2>3. CASE CreateSetXml
    <3>1. soap = "xml" /\ soap' = "idle" /\ dir' = dir
      BY <2>3 DEF CreateSetXml
    <3>2. ~Enqueue /\ ~CreateCommit
      BY <3>1 DEF Enqueue, CreateCommit
    <3> QED BY <1>p, <1>r, <3>1, <3>2 DEF DirsKept, AtSoap
  <2>4. CASE CreateSetXmlFail
    <3>1. /\ soap = "xml" /\ soap' = "del" /\ req' = req /\ status' = status
          /\ dir' = [dir EXCEPT ![req.prj] = "removing"]
      BY <2>4 DEF CreateSetXmlFail
    <3>2. ~JobPending(req.prj) /\ ~Enqueue
      BY <2>0, <3>1, HeldDir DEF Enqueue
    <3> QED BY <1>t, <1>p, <2>0, <3>1, <3>2 DEF DirsKept, AtSoap
  <2>5. CASE Enqueue
    <3>1. soap = "put" /\ soap' = "idle" /\ UNCHANGED <<dir, status>>
      BY <2>5 DEF Enqueue, stored
    <3> QED BY <1>p, <3>1 DEF DirsKept, AtSoap
  <2>6. CASE DelCommit
    <3>1. /\ soap = "del" /\ soap' = "idle" /\ dir' = dir
          /\ status' = [status EXCEPT ![req.prj] = "none"]
      BY <2>6 DEF DelCommit
    <3>2. ~Enqueue
      BY <3>1 DEF Enqueue
    <3> QED BY <1>t, <1>p, <2>0, <3>1, <3>2 DEF DirsKept, AtSoap
  <2>7. CASE StopDone
    BY <1>3, <2>7 DEF StopDone, stored
\* What the status check lets through has its directory, what set_busy takes too.
  <2>8. CASE AssertNotBusy \/ SetBusy
    <3>1. /\ soap \in {"open", "take"} /\ soap' \in {"take", "put", "idle"}
          /\ soap' # "idle" => req' = req
          /\ dir' = dir
          /\ \A q \in Projects : status'[q] # "none" => status[q] # "none"
      BY <1>t, <2>8 DEF AssertNotBusy, SetBusy, stored
    <3>2. dir[req.prj] \in {"present", "partial"}
      BY <3>1 DEF DirsKept
    <3>3. ~Enqueue
      BY <3>1 DEF Enqueue
    <3>4. \A q \in Projects : AtSoap(q)' => q = req.prj
      BY <3>1 DEF AtSoap
    <3> QED BY <1>p, <3>1, <3>2, <3>3, <3>4 DEF DirsKept
  <2> QED BY <1>6, <2>1, <2>2, <2>3, <2>4, <2>5, <2>6, <2>7, <2>8 DEF SoapStep
<1>7. CASE WorkerStep
  <2>1. UNCHANGED <<dir, soap, req>>
    BY <1>7 DEF WorkerStep, GetStop, GetJob, RunJob, Judge, UpdateFiles, UpdateFilesFail,
                ReleaseRead, ReleaseCommit, ReleaseFail, stored, soapVars
  <2>2. \A p \in Projects : status'[p] # "none" => status[p] # "none"
    BY <1>t, <1>7 DEF WorkerStep, GetStop, GetJob, RunJob, Judge, UpdateFiles,
         UpdateFilesFail, ReleaseRead, ReleaseCommit, ReleaseFail, stored
  <2>3. ~Enqueue
    BY <2>1 DEF Enqueue
  <2>4. \A p \in Projects : AtSoap(p)' => AtSoap(p)
    BY <2>1 DEF AtSoap
  <2> QED BY <1>p, <2>1, <2>2, <2>3, <2>4 DEF DirsKept
<1>8. CASE Stop
  <2>1. /\ soap \in {"idle", "open", "take", "put"} /\ soap' = "stop"
        /\ UNCHANGED <<dir, status>>
    BY <1>8 DEF Stop, stored
  <2>2. ~Enqueue
    BY <2>1 DEF Enqueue
  <2> QED BY <1>p, <2>1, <2>2 DEF DirsKept, AtSoap
<1>9. ASSUME NEW lost \in SUBSET Projects, Crash(lost) PROVE DirsKept'
  <2>1. \A p \in Projects : dir'[p] # "removing"
    BY <1>9 DEF Crash
  <2> QED BY <1>3, <1>9, <2>1 DEF Crash
<1>10. CASE Start \/ UNCHANGED vars
  <2>1. UNCHANGED <<dir, soap, req, status, queue, worker, job>>
    BY <1>10 DEF Start, vars, stored, soapVars, workVars
  <2> QED BY <2>1 DEF DirsKept, JobPending, InQueue, AtWorker, AtSoap
<1> QED BY <1>4, <1>5, <1>6, <1>7, <1>8, <1>9, <1>10 DEF Next

\* What a step does to the project of a pending job.
LEMMA PendingStep ==
    ASSUME IInv, DirsKept, [Next]_vars, NoForeignRelease, NoFailedCommit,
           NEW p \in Projects, JobPending(p)
    PROVE  /\ dir'[p] = dir[p] /\ xml'[p] = xml[p]
           /\ status'[p] # status[p] => worker = "commit" /\ job.prj = p
<1>t. /\ dir \in [Projects -> Dirs] /\ status \in [Projects -> Statuses]
      /\ xml \in [Projects -> {"none", "valid", "broken"}]
      /\ soap \in {"create", "xml", "del"} => req.prj \in Projects
  BY DEF IInv, TypeOK
<1>1. /\ status[p] = "busy" /\ upload[p] = "none" /\ Owned(p)
      /\ soap \in {"create", "xml", "del"} => req.prj # p
      /\ dir[p] \in {"present", "partial"}
  BY HeldDir DEF DirsKept, Owned
<1>2. ASSUME NEW q \in Projects, Request(q)
      PROVE  dir'[p] = dir[p] /\ xml'[p] = xml[p] /\ status'[p] = status[p]
  <2>1. CASE FinishCdrom(q)
    BY <1>t, <1>1, <2>1 DEF FinishCdrom, Openable
  <2>2. ASSUME NEW content, UploadFinish(q, content)
        PROVE  dir'[p] = dir[p] /\ xml'[p] = xml[p] /\ status'[p] = status[p]
    BY <1>t, <1>1, <2>2 DEF UploadFinish
  <2>3. ASSUME \/ \E k \in {"new_project", "create_project"} : CreateDir(q, k)
               \/ \E k \in Kinds : RequestJob(q, k)
               \/ \E f \in {"recipe", "package"} : UploadStart(q, f)
               \/ UploadAbandon(q) \/ EmptyUpload(q) \/ ResetProject(q) \/ DelStart(q)
        PROVE  dir'[p] = dir[p] /\ xml'[p] = xml[p] /\ status'[p] = status[p]
    BY <1>t, <1>1, <2>3
       DEF CreateDir, RequestJob, UploadStart, UploadAbandon, EmptyUpload,
           ResetProject, DelStart, stored, NoForeignRelease
  <2> QED BY <1>2, <2>1, <2>2, <2>3 DEF Request
<1>3. ASSUME NEW q \in Projects, Rmtree(q)
      PROVE  dir'[p] = dir[p] /\ xml'[p] = xml[p] /\ status'[p] = status[p]
  BY <1>t, <1>1, <1>3 DEF Rmtree
<1>4. CASE SoapStep
  BY <1>t, <1>1, <1>4
     DEF SoapStep, CreateCommit, CreateFail, CreateSetXml, CreateSetXmlFail, AssertNotBusy,
         SetBusy, Enqueue, DelCommit, DelFail, StopDone, stored, NoFailedCommit
<1>5. CASE WorkerStep
  <2>1. CASE ReleaseCommit
    BY <1>t, <2>1 DEF ReleaseCommit
  <2>2. CASE ~ReleaseCommit
    BY <1>5, <2>2
       DEF WorkerStep, GetStop, GetJob, RunJob, Judge, UpdateFiles, UpdateFilesFail,
           ReleaseRead, ReleaseFail, stored
  <2> QED BY <2>1, <2>2
<1>6. CASE Stop \/ Start \/ UNCHANGED vars
  BY <1>6 DEF Stop, Start, vars, stored
<1>7. ASSUME NEW lost \in SUBSET Projects, Crash(lost)
      PROVE  dir'[p] = dir[p] /\ xml'[p] = xml[p] /\ status'[p] = status[p]
  BY <1>1, <1>7 DEF Crash
<1> QED BY <1>2, <1>3, <1>4, <1>5, <1>6, <1>7 DEF Next

\* Through kills, interrupts, abandoned uploads and sys.exit: a project with a
\* pending job keeps its directory, its recipe and its status up to the job's own
\* reset_busy.  A commit that fails while a project is deleted would break it, as
\* would a reset of a project at work.
THEOREM PendingUntouchedHolds ==
    ASSUME NoForeignRelease, NoFailedCommit
    PROVE  Spec => PendingUntouched
<1> DEFINE Untouched == \A p \in Projects : JobPending(p) =>
                            /\ dir'[p] = dir[p] /\ xml'[p] = xml[p]
                            /\ status'[p] # status[p] => worker = "commit" /\ job.prj = p
<1>1. IInv /\ DirsKept /\ [Next]_vars => IInv' /\ DirsKept'
  BY IInvNext, DirsNext
<1>2. IInv /\ DirsKept /\ [Next]_vars => Untouched
  BY PendingStep
<1>3. Untouched => [Untouched]_vars
  OBVIOUS
<1> HIDE DEF Untouched
<1>4. Spec => [][Untouched]_vars
  BY <1>1, <1>2, <1>3, IInvInit, DirsInit, PTL DEF Spec
<1> QED BY <1>4 DEF PendingUntouched, Untouched

\* No job leaves through sys.exit.
NoExit == worker # "dead" /\ outcome # "exit"

\* What the worker asks of the project of its job is the case.
LEMMA WorkerNext ==
    ASSUME IInv, DirsKept, NoExit, [Next]_vars, NoFailedCommit, "exit" \notin Faults
    PROVE  NoExit'
<1>1. CASE GetJob
  <2>1. /\ queue \in Seq(Jobs \cup {StopItem}) /\ queue # <<>> /\ Head(queue) # StopItem
        /\ Exists(Head(queue).prj) => worker' = "run" /\ outcome' = outcome
    BY <1>1 DEF GetJob, IInv, TypeOK
  <2>2. /\ Len(queue) \in Nat /\ Len(queue) > 0 /\ Head(queue) = queue[1]
        /\ queue[1] \in Jobs
    BY <2>1, TailFacts
  <2>3. queue[1].prj \in Projects /\ InQueue(queue[1].prj)
    BY <2>2, JobFacts DEF InQueue
  <2>4. Exists(queue[1].prj)
    BY <2>3 DEF DirsKept, JobPending, Exists
  <2> QED BY <2>1, <2>2, <2>4 DEF NoExit
<1>2. CASE UpdateFilesFail \/ ReleaseFail
  <2>1. worker = "files" /\ status[job.prj] = "none"
    BY <1>2 DEF UpdateFilesFail, ReleaseFail, NoFailedCommit
  <2> QED BY <2>1, WorkerOwns
<1>3. CASE ReleaseRead \/ ReleaseCommit
  <2>1. status[job.prj] = "busy"
    BY <1>3, WorkerOwns DEF ReleaseRead, ReleaseCommit
  <2> QED BY <1>3, <2>1 DEF ReleaseRead, ReleaseCommit, Die, NoExit
<1>4. CASE SoapStep
  BY <1>4 DEF SoapStep, CreateCommit, CreateFail, CreateSetXml, CreateSetXmlFail,
              AssertNotBusy, SetBusy, Enqueue, DelCommit, DelFail, StopDone, LoseMemory,
              workVars, NoExit
<1>5. CASE WorkerStep
  BY <1>1, <1>2, <1>3, <1>5
     DEF WorkerStep, GetStop, RunJob, Judge, UpdateFiles, NoExit
<1>6. CASE \E p \in Projects : Request(p) \/ Rmtree(p)
  BY <1>6, RequestFrame DEF NoExit
<1>7. CASE \E lost \in SUBSET Projects : Crash(lost)
  BY <1>7 DEF Crash, LoseMemory, NoExit
<1>8. CASE Stop \/ Start \/ UNCHANGED vars
  BY <1>8 DEF Stop, Start, vars, workVars, NoExit
<1> QED BY <1>4, <1>5, <1>6, <1>7, <1>8 DEF Next

\* Without sys.exit and failing commits the worker thread never ends before it is
\* told to, also when the daemon was killed and started again, uploads were
\* abandoned and projects deleted meanwhile.
THEOREM WorkerSurvivesHolds ==
    ASSUME NoForeignRelease, NoFailedCommit, "exit" \notin Faults
    PROVE  Spec => []WorkerSurvives
<1>1. IInv /\ DirsKept /\ NoExit /\ [Next]_vars => IInv' /\ DirsKept' /\ NoExit'
  BY IInvNext, DirsNext, WorkerNext
<1>2. Init => NoExit
  BY DEF Init, NoExit
<1>3. NoExit => WorkerSurvives
  BY DEF NoExit, WorkerSurvives
<1> QED BY <1>1, <1>2, <1>3, IInvInit, DirsInit, PTL DEF Spec

-----------------------------------------------------------------------------
(* Rows and directories, and no leaked flag.  These hold also when the     *)
(* status of projects at work is reset, but not through kills and failing  *)
(* commits.  They do not rest on OneOwner: a project may have two owners   *)
(* then, and still one of them gives the flag back.                        *)

NoKill == "crash" \notin Faults

RowInv == TypeOK /\ RequestKnows /\ RowsMatchDirs

\* Between two requests a row means a directory.
LEMMA IdleRows ==
    ASSUME RowInv, soap = "idle", NEW p \in Projects
    PROVE  /\ status[p] # "none" => dir[p] = "present" /\ Exists(p)
           /\ status[p] = "none" => dir[p] # "present"
           /\ dir[p] = "removing" => status[p] = "none"
BY DEF RowInv, RowsMatchDirs, Exists

\* A step that keeps the directories and the rows, whatever their status.
LEMMA RowFrame ==
    ASSUME RowInv, TypeOK', UNCHANGED <<dir, up, soap, req>>,
           \A p \in Projects : status'[p] = "none" <=> status[p] = "none",
           \A p \in Projects : status'[p] = "busy" => status[p] = "busy" \/ soap = "idle"
    PROVE  RowInv'
<1>1. RequestKnows'
  BY DEF RowInv, RequestKnows, TypeOK
<1>2. RowsMatchDirs'
  BY DEF RowInv, RowsMatchDirs
<1> QED BY <1>1, <1>2 DEF RowInv

\* There is neither at the start.
LEMMA RowInit == Init => RowInv
BY TypeInit DEF Init, RowInv, RequestKnows, RowsMatchDirs

\* Every step keeps rows and directories together.
LEMMA RowInvNext ==
    ASSUME RowInv, [Next]_vars, NoKill, NoFailedCommit
    PROVE  RowInv'
<1>t. /\ dir \in [Projects -> Dirs] /\ status \in [Projects -> Statuses]
      /\ soap \in {"create", "xml", "del"} => req.prj \in Projects
      /\ TypeOK'
  BY TypeNext DEF RowInv, TypeOK
<1>1. ASSUME NEW p \in Projects, Request(p) PROVE RowInv'
  <2>1. ASSUME NEW k \in {"new_project", "create_project"}, CreateDir(p, k) PROVE RowInv'
    <3>1. /\ soap = "idle" /\ up /\ up' = up /\ soap' = "create" /\ req'.prj = p
          /\ status' = status /\ dir[p] = "unused" /\ dir' = [dir EXCEPT ![p] = "present"]
      BY <2>1 DEF CreateDir
    <3>2. status[p] = "none"
      BY <3>1, IdleRows
    <3>3. RequestKnows'
      BY <1>t, <3>1, <3>2 DEF RequestKnows
    <3>4. RowsMatchDirs'
      BY <1>t, <3>1 DEF RowInv, RowsMatchDirs
    <3> QED BY <1>t, <3>3, <3>4 DEF RowInv
  <2>2. ASSUME NEW k \in Kinds, RequestJob(p, k) PROVE RowInv'
    <3>1. /\ soap = "idle" /\ up /\ up' = up /\ soap' = "open"
          /\ UNCHANGED <<dir, status>>
      BY <2>2 DEF RequestJob, stored
    <3>2. RowsMatchDirs'
      BY <1>t, <3>1 DEF RowInv, RowsMatchDirs
    <3> QED BY <1>t, <3>1, <3>2 DEF RowInv, RequestKnows
  <2>3. CASE DelStart(p)
    <3>1. /\ soap = "idle" /\ up /\ up' = up /\ soap' = "del" /\ req'.prj = p
          /\ status' = status /\ status[p] \notin {"busy", "none"}
          /\ dir' = [dir EXCEPT ![p] = IF Exists(p) THEN "removing" ELSE @]
      BY <2>3 DEF DelStart
    <3>2. Exists(p)
      BY <3>1, IdleRows
    <3>3. RequestKnows'
      BY <1>t, <3>1, <3>2 DEF RequestKnows
    <3>4. RowsMatchDirs'
      BY <1>t, <3>1 DEF RowInv, RowsMatchDirs
    <3> QED BY <1>t, <3>3, <3>4 DEF RowInv
  <2>4. CASE UploadAbandon(p)
    BY <1>t, <2>4, RowFrame DEF UploadAbandon, stored, soapVars
  <2>5. CASE FinishCdrom(p)
    <3>1. /\ soap = "idle" /\ UNCHANGED <<dir, up, soap, req>>
          /\ status[p] # "none" /\ status' = [status EXCEPT ![p] = AfterSetXml(status[p])]
      BY <2>5 DEF FinishCdrom, Openable, Loadable, soapVars
    <3>2. AfterSetXml(status[p]) # "none"
      BY <3>1 DEF AfterSetXml
    <3> QED BY <1>t, <3>1, <3>2, RowFrame
  <2>6. ASSUME \/ EmptyUpload(p) \/ ResetProject(p)
               \/ \E f \in {"recipe", "package"} : UploadStart(p, f)
               \/ \E content \in {"valid", "broken"} : UploadFinish(p, content)
        PROVE  RowInv'
    <3>1. /\ soap = "idle" /\ UNCHANGED <<dir, up, soap, req>>
          /\ \A q \in Projects : status'[q] = "none" <=> status[q] = "none"
      BY <1>t, <2>6 DEF EmptyUpload, ResetProject, UploadStart, UploadFinish, soapVars
    <3> QED BY <1>t, <3>1, RowFrame
  <2> QED BY <1>1, <2>1, <2>2, <2>3, <2>4, <2>5, <2>6 DEF Request
<1>2. ASSUME NEW p \in Projects, Rmtree(p) PROVE RowInv'
  <2>1. /\ dir[p] = "removing" /\ dir' = [dir EXCEPT ![p] = "gone"]
        /\ UNCHANGED <<status, up, soap, req>>
    BY <1>2 DEF Rmtree, soapVars
  <2>2. RequestKnows'
    BY <1>t, <2>1 DEF RowInv, RequestKnows
  <2>3. RowsMatchDirs'
    BY <1>t, <2>1 DEF RowInv, RowsMatchDirs
  <2> QED BY <1>t, <2>2, <2>3 DEF RowInv
<1>3. CASE SoapStep
  <2>1. CASE CreateCommit
    <3>1. /\ soap = "create" /\ UNCHANGED <<dir, up>> /\ soap' \in {"xml", "idle"}
          /\ soap' = "xml" => req' = req
          /\ status' = [status EXCEPT ![req.prj] = "empty_project"]
      BY <2>1 DEF CreateCommit
    <3>2. dir[req.prj] = "present" /\ up
      BY <1>t, <3>1 DEF RowInv, RequestKnows, TypeOK
    <3>3. RequestKnows'
      BY <1>t, <3>1, <3>2 DEF RequestKnows
    <3>4. RowsMatchDirs'
      BY <1>t, <3>1, <3>2 DEF RowInv, RowsMatchDirs
    <3> QED BY <1>t, <3>3, <3>4 DEF RowInv
  <2>2. CASE CreateFail \/ DelFail
    BY <2>2 DEF CreateFail, DelFail, NoFailedCommit
  <2>3. CASE CreateSetXml
    <3>1. /\ soap = "xml" /\ UNCHANGED <<dir, up>> /\ soap' = "idle"
          /\ status' = [status EXCEPT ![req.prj] = AfterSetXml(status[req.prj])]
      BY <2>3 DEF CreateSetXml
    <3>2. status[req.prj] # "none" /\ dir[req.prj] = "present"
      BY <3>1 DEF RowInv, RequestKnows
    <3>3. AfterSetXml(status[req.prj]) # "none"
      BY <3>2 DEF AfterSetXml
    <3>4. RowsMatchDirs'
      BY <1>t, <3>1, <3>2, <3>3 DEF RowInv, RowsMatchDirs
    <3> QED BY <1>t, <3>1, <3>4 DEF RowInv, RequestKnows
  <2>4. CASE CreateSetXmlFail
    <3>1. /\ soap = "xml" /\ soap' = "del" /\ UNCHANGED <<up, req, status>>
          /\ dir' = [dir EXCEPT ![req.prj] = "removing"]
      BY <2>4 DEF CreateSetXmlFail
    <3>2. RequestKnows'
      BY <1>t, <3>1 DEF RowInv, RequestKnows
    <3>3. RowsMatchDirs'
      BY <1>t, <3>1 DEF RowInv, RowsMatchDirs
    <3> QED BY <1>t, <3>2, <3>3 DEF RowInv
  <2>5. CASE Enqueue
    <3>1. soap = "put" /\ soap' = "idle" /\ UNCHANGED <<dir, status>>
      BY <2>5 DEF Enqueue, stored
    <3>2. RowsMatchDirs' /\ RequestKnows'
      BY <3>1 DEF RowInv, RowsMatchDirs, RequestKnows
    <3> QED BY <1>t, <3>2 DEF RowInv
  <2>6. CASE DelCommit
    <3>1. /\ soap = "del" /\ soap' = "idle" /\ dir' = dir
          /\ status' = [status EXCEPT ![req.prj] = "none"]
      BY <2>6 DEF DelCommit
    <3>2. dir[req.prj] \in {"removing", "gone"}
      BY <3>1 DEF RowInv, RequestKnows
    <3>3. RowsMatchDirs' /\ RequestKnows'
      BY <1>t, <3>1, <3>2 DEF RowInv, RowsMatchDirs, RequestKnows
    <3> QED BY <1>t, <3>3 DEF RowInv
  <2>7. CASE StopDone
    <3>1. soap = "stop" /\ soap' = "idle" /\ UNCHANGED <<dir, status>>
      BY <2>7 DEF StopDone, LoseMemory, stored
    <3>2. RowsMatchDirs' /\ RequestKnows'
      BY <3>1 DEF RowInv, RowsMatchDirs, RequestKnows
    <3> QED BY <1>t, <3>2 DEF RowInv
  <2>8. CASE AssertNotBusy \/ SetBusy
    <3>1. /\ soap \in {"open", "take"} /\ soap' \in {"idle", "take", "put"}
          /\ UNCHANGED <<dir, up>>
          /\ \A q \in Projects : status'[q] = "none" <=> status[q] = "none"
      BY <1>t, <2>8 DEF AssertNotBusy, SetBusy, stored
    <3>2. RowsMatchDirs' /\ RequestKnows'
      BY <3>1 DEF RowInv, RowsMatchDirs, RequestKnows
    <3> QED BY <1>t, <3>2 DEF RowInv
  <2> QED BY <1>3, <2>1, <2>2, <2>3, <2>4, <2>5, <2>6, <2>7, <2>8 DEF SoapStep
<1>4. CASE WorkerStep
  <2>1. CASE ReleaseCommit
    <3>1. verdict \in {"build_done", "build_failed"} /\ job.prj \in Projects
      BY <2>1, JobFacts DEF ReleaseCommit, RowInv, TypeOK
    <3>2. /\ UNCHANGED <<dir, up, soap, req>>
          /\ status' = IF status[job.prj] = "none" THEN status
                       ELSE [status EXCEPT ![job.prj] = verdict]
      BY <2>1 DEF ReleaseCommit, soapVars
    <3> QED BY <1>t, <3>1, <3>2, RowFrame
  <2>2. CASE ~ReleaseCommit
    <3>1. UNCHANGED <<dir, up, soap, req, status>>
      BY <1>4, <2>2
         DEF WorkerStep, GetStop, GetJob, RunJob, Judge, UpdateFiles, UpdateFilesFail,
             ReleaseRead, ReleaseFail, stored, soapVars
    <3> QED BY <1>t, <3>1, RowFrame
  <2> QED BY <2>1, <2>2
<1>5. CASE Stop
  <2>1. /\ up /\ up' = up /\ soap' = "stop" /\ soap \in {"idle", "open", "take", "put"}
        /\ UNCHANGED <<dir, status>>
    BY <1>5 DEF Stop, stored
  <2>2. RowsMatchDirs' /\ RequestKnows'
    BY <2>1 DEF RowInv, RowsMatchDirs, RequestKnows
  <2> QED BY <1>t, <2>2 DEF RowInv
<1>6. CASE \E lost \in SUBSET Projects : Crash(lost)
  BY <1>6 DEF Crash, NoKill
<1>7. CASE Start \/ UNCHANGED vars
  <2>1. UNCHANGED <<dir, status, soap, req>> /\ (up' = up \/ up')
    BY <1>7 DEF Start, vars, stored, soapVars
  <2>2. RowsMatchDirs' /\ RequestKnows'
    BY <2>1 DEF RowInv, RowsMatchDirs, RequestKnows
  <2> QED BY <1>t, <2>2 DEF RowInv
<1> QED BY <1>1, <1>2, <1>3, <1>4, <1>5, <1>6, <1>7 DEF Next

\* Without kills and failing commits no project row is left without its directory
\* and no directory without a row, whatever is reset, abandoned or interrupted.
THEOREM RowsMatchDirsHolds ==
    ASSUME NoKill, NoFailedCommit
    PROVE  Spec => []RowsMatchDirs
<1>1. RowInv /\ [Next]_vars => RowInv'
  BY RowInvNext
<1>2. RowInv => RowsMatchDirs
  BY DEF RowInv
<1> QED BY <1>1, <1>2, RowInit, PTL DEF Spec

\* Nobody who took a flag goes away: neither kills, SIGINT in the middle of a
\* request, clients that give up nor failing commits.
NoLostOwner == NoKill /\ NoFailedCommit /\ {"interrupt", "abandon"} \intersect Faults = {}

\* A step that makes no project busy and takes nobody's project away.
LEMMA BusyFrame ==
    ASSUME BusyIsOwned, UNCHANGED <<queue, soap, req>>,
           worker' \in Active <=> worker \in Active, job' = job,
           \A p \in Projects : status'[p] = "busy" =>
               /\ status[p] = "busy"
               /\ upload[p] # "none" => upload'[p] # "none"
    PROVE  BusyIsOwned'
BY DEF BusyIsOwned, Owned, JobPending, InQueue, AtWorker, AtSoap

\* Whoever takes the flag owns the project, and gives the flag back when it stops
\* owning it.
LEMMA BusyNext ==
    ASSUME RowInv, BusyIsOwned, [Next]_vars, NoLostOwner
    PROVE  BusyIsOwned'
<1>t. /\ status \in [Projects -> Statuses] /\ queue \in Seq(Jobs \cup {StopItem})
      /\ upload \in [Projects -> {"none", "recipe", "package"}]
      /\ soap \in {"create", "xml", "del"} => req.prj \in Projects
  BY DEF RowInv, TypeOK
<1>1. ASSUME NEW p \in Projects, Request(p) PROVE BusyIsOwned'
  <2>0. \A q \in Projects : InQueue(q)' = InQueue(q) /\ AtWorker(q)' = AtWorker(q)
    BY <1>1, RequestFrame DEF InQueue, AtWorker
  <2>1. ASSUME NEW k \in {"new_project", "create_project"}, CreateDir(p, k) PROVE BusyIsOwned'
    BY <2>0, <2>1 DEF CreateDir, BusyIsOwned, Owned, JobPending, AtSoap
  <2>2. ASSUME NEW k \in Kinds, RequestJob(p, k) PROVE BusyIsOwned'
    BY <2>0, <2>2 DEF RequestJob, stored, BusyIsOwned, Owned, JobPending, AtSoap
  <2>3. CASE DelStart(p)
    BY <2>0, <2>3 DEF DelStart, BusyIsOwned, Owned, JobPending, AtSoap
  <2>4. ASSUME NEW f \in {"recipe", "package"}, UploadStart(p, f) PROVE BusyIsOwned'
    <3>1. soap = "idle" /\ status[p] # "none" /\ UNCHANGED <<soap, req>>
      BY <2>4 DEF UploadStart, soapVars
    <3>2. Exists(p)
      BY <3>1, IdleRows
    <3>3. /\ status' = [status EXCEPT ![p] = "busy"]
          /\ upload' = [upload EXCEPT ![p] = f]
      BY <2>4, <3>2 DEF UploadStart
    <3> QED BY <1>t, <2>0, <3>1, <3>3 DEF BusyIsOwned, Owned, JobPending, AtSoap
  <2>5. ASSUME NEW content \in {"valid", "broken"}, UploadFinish(p, content)
        PROVE  BusyIsOwned'
    <3>1. /\ soap = "idle" /\ UNCHANGED <<soap, req>>
          /\ upload' = [upload EXCEPT ![p] = "none"]
          /\ status' = IF status[p] = "busy" /\ Exists(p)
                       THEN [status EXCEPT ![p] = "has_changes"] ELSE status
      BY <2>5 DEF UploadFinish, soapVars
    <3>2. status[p] = "busy" => Exists(p)
      BY <3>1, IdleRows
    <3>3. \A q \in Projects : status'[q] = "busy" => status[q] = "busy" /\ upload'[q] = upload[q]
      BY <1>t, <3>1, <3>2
    <3> QED BY <2>0, <3>1, <3>3 DEF BusyIsOwned, Owned, JobPending, AtSoap
  <2>6. CASE UploadAbandon(p)
    BY <2>6 DEF UploadAbandon, NoLostOwner
  <2>7. CASE FinishCdrom(p)
    <3>1. status[p] # "busy" /\ status' = [status EXCEPT ![p] = AfterSetXml(status[p])]
      BY <2>7 DEF FinishCdrom, Openable
    <3>2. AfterSetXml(status[p]) # "busy"
      BY <3>1 DEF AfterSetXml
    <3>3. \A q \in Projects : status'[q] = "busy" => status[q] = "busy"
      BY <1>t, <3>1, <3>2
    <3> QED BY <2>7, <3>3, BusyFrame DEF FinishCdrom, soapVars, workVars
  <2>8. CASE EmptyUpload(p) \/ ResetProject(p)
    <3>1. \A q \in Projects : status'[q] = "busy" => status[q] = "busy"
      BY <1>t, <2>8 DEF EmptyUpload, ResetProject
    <3> QED BY <2>8, <3>1, BusyFrame DEF EmptyUpload, ResetProject, soapVars, workVars
  <2> QED BY <1>1, <2>1, <2>2, <2>3, <2>4, <2>5, <2>6, <2>7, <2>8 DEF Request
<1>2. ASSUME NEW p \in Projects, Rmtree(p) PROVE BusyIsOwned'
  BY <1>2, BusyFrame DEF Rmtree, soapVars, workVars
<1>3. CASE SoapStep
  <2>1. ASSUME soap # "put", UNCHANGED <<upload, queue, workVars>>,
               \A p \in Projects : status'[p] = "busy" => status[p] = "busy"
        PROVE  BusyIsOwned'
    BY <2>1 DEF BusyIsOwned, Owned, JobPending, InQueue, AtWorker, AtSoap, workVars
  <2>2. CASE CreateCommit \/ CreateSetXmlFail \/ DelCommit
    BY <1>t, <2>1, <2>2 DEF CreateCommit, CreateSetXmlFail, DelCommit
  <2>3. CASE CreateSetXml
    <3>1. /\ soap = "xml"
          /\ status' = [status EXCEPT ![req.prj] = AfterSetXml(status[req.prj])]
      BY <2>3 DEF CreateSetXml
    <3>2. status[req.prj] # "busy" => AfterSetXml(status[req.prj]) # "busy"
      BY DEF AfterSetXml
    <3>3. \A p \in Projects : status'[p] = "busy" => status[p] = "busy"
      BY <1>t, <3>1, <3>2
    <3> QED BY <2>1, <2>3, <3>3 DEF CreateSetXml
  <2>4. CASE CreateFail \/ DelFail
    BY <2>4 DEF CreateFail, DelFail, NoLostOwner, NoFailedCommit
  <2>5. CASE Enqueue
    <3>1. /\ soap = "put" /\ req \in Jobs /\ queue' = Append(queue, req)
          /\ UNCHANGED <<status, upload, workVars>>
      BY <2>5 DEF Enqueue, stored, RowInv, TypeOK
    <3>2. /\ Len(queue) \in Nat /\ Len(queue') = Len(queue) + 1
          /\ \A i \in 1..Len(queue) : queue'[i] = queue[i]
          /\ queue'[Len(queue) + 1] = req
      BY <1>t, <3>1, AppendFacts
    <3>3. \A p \in Projects : InQueue(p) \/ AtSoap(p) => InQueue(p)'
      BY <3>2 DEF InQueue, AtSoap
    <3> QED BY <3>1, <3>3 DEF BusyIsOwned, Owned, JobPending, AtWorker, workVars
  <2>6. CASE StopDone
    <3>1. \A p \in Projects : ~JobPending(p) /\ ~AtSoap(p)
      BY <2>6 DEF StopDone, JobPending, InQueue, AtWorker, AtSoap
    <3> QED BY <2>6, <3>1 DEF StopDone, stored, BusyIsOwned, Owned
  <2>7. CASE AssertNotBusy \/ (SetBusy /\ status[req.prj] \notin Stable)
    BY <2>1, <2>7 DEF AssertNotBusy, SetBusy, stored
  <2>8. CASE SetBusy /\ status[req.prj] \in Stable
    <3>1. /\ soap = "take" /\ soap' = "put" /\ req' = req
          /\ status' = [status EXCEPT ![req.prj] = "busy"]
          /\ UNCHANGED <<upload, queue, workVars>>
      BY <2>8 DEF SetBusy
    <3>2. \A p \in Projects : /\ p # req.prj => status'[p] = status[p]
                             /\ p = req.prj => AtSoap(p)'
      BY <1>t, <3>1 DEF AtSoap
    <3> QED BY <3>1, <3>2 DEF BusyIsOwned, Owned, JobPending, InQueue, AtWorker, AtSoap,
                             workVars
  <2> QED BY <1>3, <2>2, <2>3, <2>4, <2>5, <2>6, <2>7, <2>8 DEF SoapStep
<1>4. CASE WorkerStep
  <2>1. CASE GetStop \/ GetJob
    <3>1. /\ worker = "idle" /\ queue # <<>> /\ queue' = Tail(queue)
          /\ UNCHANGED <<dir, status, upload, soap, req>>
      BY <2>1 DEF GetStop, GetJob, stored, soapVars
    <3>2. /\ Len(queue) \in Nat /\ Len(queue) > 0 /\ Len(queue') = Len(queue) - 1
          /\ \A i \in 1..Len(queue') : queue'[i] = queue[i + 1]
          /\ Head(queue) = queue[1] /\ queue[1] \in Jobs \cup {StopItem}
      BY <1>t, <3>1, TailFacts
    <3>3. \A p \in Projects : InQueue(p) => InQueue(p)' \/ queue[1].prj = p
      <4> SUFFICES ASSUME NEW p \in Projects, NEW i \in 1..Len(queue), queue[i].prj = p
                   PROVE  InQueue(p)' \/ queue[1].prj = p
        BY DEF InQueue
      <4>1. CASE i = 1
        BY <4>1
      <4>2. CASE i # 1
        <5>1. i - 1 \in 1..Len(queue') /\ queue'[i - 1] = queue[i]
          BY <3>2, <4>2
        <5> QED BY <5>1 DEF InQueue
      <4> QED BY <4>1, <4>2
    <3>4. \A p \in Projects : queue[1].prj = p /\ status[p] = "busy" => AtWorker(p)'
      <4> SUFFICES ASSUME NEW p \in Projects, queue[1].prj = p, status[p] = "busy"
                   PROVE  AtWorker(p)'
        OBVIOUS
      <4>1. queue[1] # StopItem
        BY JobFacts, NoProjectAssumption
      <4>2. Exists(p)
        BY DEF RowInv, RowsMatchDirs, RequestKnows, Exists
      <4> QED BY <2>1, <3>2, <4>1, <4>2 DEF GetStop, GetJob, AtWorker
    <3> QED BY <3>1, <3>3, <3>4 DEF BusyIsOwned, Owned, JobPending, AtWorker, AtSoap
  <2>2. ASSUME UNCHANGED <<queue, upload, soap, req>>, worker' \notin Active,
               \A p \in Projects : status'[p] = "busy" => status[p] = "busy" /\ ~AtWorker(p)
        PROVE  BusyIsOwned'
    BY <2>2 DEF BusyIsOwned, Owned, JobPending, InQueue, AtSoap
  <2>3. CASE UpdateFilesFail
    <3>1. status[job.prj] = "none" /\ worker = "files" /\ UNCHANGED <<queue, upload, soap, req, status>>
      BY <2>3 DEF UpdateFilesFail, NoLostOwner, NoFailedCommit, stored, soapVars
    <3>2. CASE job.kind = "update_pbuilder"
      BY <2>3, <3>1, <3>2, BusyFrame DEF UpdateFilesFail
    <3>3. CASE job.kind # "update_pbuilder"
      BY <2>2, <2>3, <3>1, <3>3 DEF UpdateFilesFail, Die, AtWorker
    <3> QED BY <3>2, <3>3
  <2>4. CASE ReleaseRead
    <3>1. UNCHANGED <<queue, upload, soap, req, status>> /\ worker = "release"
      BY <2>4 DEF ReleaseRead, stored, soapVars
    <3>2. CASE status[job.prj] = "busy"
      BY <2>4, <3>1, <3>2, BusyFrame DEF ReleaseRead
    <3>3. CASE status[job.prj] # "busy"
      BY <2>2, <2>4, <3>1, <3>3 DEF ReleaseRead, Die, AtWorker
    <3> QED BY <3>2, <3>3
  <2>5. CASE ReleaseCommit
    <3>1. verdict \in {"build_done", "build_failed"} /\ job.prj \in Projects
      BY <2>5, JobFacts DEF ReleaseCommit, RowInv, TypeOK
    <3>2. /\ UNCHANGED <<queue, upload, soap, req>> /\ worker' \notin Active
          /\ status' = IF status[job.prj] = "none" THEN status
                       ELSE [status EXCEPT ![job.prj] = verdict]
      BY <2>5 DEF ReleaseCommit, Die, soapVars
    <3>3. \A p \in Projects : status'[p] = "busy" => status[p] = "busy" /\ p # job.prj
      BY <1>t, <3>1, <3>2
    <3> QED BY <2>2, <3>2, <3>3 DEF AtWorker
  <2>6. CASE ReleaseFail
    BY <2>6 DEF ReleaseFail, NoLostOwner, NoFailedCommit
  <2>7. ASSUME \/ \E o \in {"ok", "error", "exception", "exit"} : RunJob(o)
               \/ Judge \/ UpdateFiles
        PROVE  BusyIsOwned'
    BY <2>7, BusyFrame DEF RunJob, Judge, UpdateFiles, stored, soapVars
  <2> QED BY <1>4, <2>1, <2>3, <2>4, <2>5, <2>6, <2>7 DEF WorkerStep
<1>5. CASE Stop
  <2>1. /\ soap = "idle" /\ queue' = Append(queue, StopItem) /\ soap' = "stop"
        /\ UNCHANGED <<status, upload, workVars>>
    BY <1>5 DEF Stop, NoLostOwner, stored
  <2>2. /\ Len(queue) \in Nat /\ Len(queue') = Len(queue) + 1
        /\ \A i \in 1..Len(queue) : queue'[i] = queue[i]
    BY <1>t, <2>1, AppendFacts
  <2>3. \A p \in Projects : InQueue(p) => InQueue(p)'
    BY <2>2 DEF InQueue
  <2> QED BY <2>1, <2>3 DEF BusyIsOwned, Owned, JobPending, AtWorker, AtSoap, workVars
<1>6. CASE \E lost \in SUBSET Projects : Crash(lost)
  BY <1>6 DEF Crash, NoLostOwner, NoKill
<1>7. CASE Start \/ UNCHANGED vars
  BY <1>7, BusyFrame DEF Start, vars, stored, soapVars, workVars
<1> QED BY <1>1, <1>2, <1>3, <1>4, <1>5, <1>6, <1>7 DEF Next

\* No path through the handlers leaks the flag: whatever jobs do, sys.exit
\* included, and even when the status of projects at work is reset, a project
\* is busy only while somebody works on it who will give it back.
THEOREM BusyIsOwnedHolds ==
    ASSUME NoLostOwner
    PROVE  Spec => []BusyIsOwned
<1>1. RowInv /\ BusyIsOwned /\ [Next]_vars => RowInv' /\ BusyIsOwned'
  BY RowInvNext, BusyNext DEF NoLostOwner
<1>2. Init => BusyIsOwned
  BY DEF Init, BusyIsOwned
<1> QED BY <1>1, <1>2, RowInit, PTL DEF Spec

-----------------------------------------------------------------------------
(* The daemon implements the lock ProjectLock.  A step either makes some   *)
(* holders go away, or it moves one project to or from nobody.             *)

Jobber(p) == JobPending(p) \/ AtSoap(p)

\* The holders of all projects, what the lock's variable stands for.
Held == [p \in Projects |-> Holder(p)]

\* How the holder is read off the state when IInv holds.
LEMMA HolderFacts ==
    ASSUME IInv, NEW p \in Projects
    PROVE  /\ Holder(p) \in {"nobody", "job", "client", "blocked"}
           /\ Holder(p) = "job" <=> Jobber(p)
           /\ Holder(p) = "client" <=> upload[p] # "none"
           /\ Holder(p) = "nobody" <=> status[p] # "busy"
<1>1. Owned(p) => status[p] = "busy"
  BY DEF IInv, OwnedIsBusy
<1>2. ~(Jobber(p) /\ upload[p] # "none")
  BY DEF IInv, OneOwner, Jobber
<1> QED BY <1>1, <1>2 DEF Holder, Owned, Jobber

\* The same after a step.
LEMMA HolderFactsNext ==
    ASSUME IInv', NEW p \in Projects
    PROVE  /\ Holder(p)' \in {"nobody", "job", "client", "blocked"}
           /\ Holder(p)' = "job" <=> Jobber(p)'
           /\ Holder(p)' = "client" <=> upload'[p] # "none"
           /\ Holder(p)' = "nobody" <=> status'[p] # "busy"
<1>1. Owned(p)' => status'[p] = "busy"
  BY DEF IInv, OwnedIsBusy
<1>2. ~(Jobber(p)' /\ upload'[p] # "none")
  BY DEF IInv, OneOwner, Jobber
<1> QED BY <1>1, <1>2 DEF Holder, Owned, Jobber

\* Holders that go away.
LEMMA LockLeave ==
    ASSUME \A p \in Projects : Holder(p)' \in {Holder(p), "blocked"}
    PROVE  [Lock!Next]_Held
<1> DEFINE gone == {p \in Projects : Holder(p)' # Holder(p)}
<1>1. CASE gone = {}
  <2>1. \A p \in Projects : Holder(p)' = Holder(p)
    BY <1>1
  <2> QED BY <2>1 DEF Held
<1>2. CASE gone # {}
  <2>1. Held' = [p \in Projects |-> IF p \in gone THEN "blocked" ELSE Held[p]]
    BY DEF Held
  <2>2. \A p \in gone : Held[p] # "blocked"
    BY DEF Held
  <2>3. Lock!Leave(gone)
    BY <1>2, <2>1, <2>2 DEF Lock!Leave, Held
  <2> QED BY <2>3 DEF Lock!Next
<1> QED BY <1>1, <1>2

\* One project goes from nobody to somebody, or to nobody.
LEMMA LockMove ==
    ASSUME IInv, IInv', NEW p \in Projects,
           status[p] # "busy" \/ status'[p] # "busy",
           \A q \in Projects \ {p} : Holder(q)' = Holder(q)
    PROVE  [Lock!Next]_Held
<1>1. /\ Holder(p) \in {"nobody", "job", "client", "blocked"}
      /\ Holder(p)' \in {"nobody", "job", "client", "blocked"}
      /\ Holder(p) = "nobody" \/ Holder(p)' = "nobody"
  BY HolderFacts, HolderFactsNext
<1>2. CASE Holder(p)' \in {Holder(p), "blocked"}
  BY <1>2, LockLeave
<1>3. CASE Holder(p)' \notin {Holder(p), "blocked"}
  <2>1. Held' = [Held EXCEPT ![p] = Holder(p)'] /\ Held[p] = Holder(p)
    BY DEF Held
  <2>2. CASE Holder(p) = "nobody"
    <3>1. Holder(p)' \in {"job", "client"}
      BY <1>1, <1>3, <2>2
    <3>2. Lock!Take(p, Holder(p)')
      BY <2>1, <2>2 DEF Lock!Take, Held
    <3> QED BY <3>1, <3>2 DEF Lock!Next
  <2>3. CASE Holder(p)' = "nobody" /\ Holder(p) = "blocked"
    BY <2>1, <2>3 DEF Lock!Reset, Lock!Next, Held
  <2>4. CASE Holder(p)' = "nobody" /\ Holder(p) \in {"job", "client"}
    BY <2>1, <2>4 DEF Lock!GiveBack, Lock!Next, Held
  <2> QED BY <1>1, <1>3, <2>2, <2>3, <2>4
<1> QED BY <1>2, <1>3

\* A step that leaves the statuses alone and makes nobody an owner.
LEMMA QuietStep ==
    ASSUME IInv, IInv', [Next]_vars, status' = status,
           \A p \in Projects : upload'[p] \in {upload[p], "none"},
           Enqueue \/ \A p \in Projects : AtSoap(p)' => AtSoap(p)
    PROVE  [Lock!Next]_Held
<1>1. ASSUME NEW p \in Projects PROVE Jobber(p)' => Jobber(p)
  <2>1. Enqueue => ~AtSoap(p)'
    BY DEF Enqueue, AtSoap
  <2> QED BY <2>1, PendingNext DEF IInv, Jobber
<1>2. \A p \in Projects : Holder(p)' \in {Holder(p), "blocked"}
  BY <1>1, HolderFacts, HolderFactsNext
<1> QED BY <1>2, LockLeave

\* What makes the holder of a project stay.
LEMMA HolderStays ==
    ASSUME IInv, IInv', NEW q \in Projects,
           status'[q] = status[q], upload'[q] = upload[q], Jobber(q)' <=> Jobber(q)
    PROVE  Holder(q)' = Holder(q)
BY HolderFacts, HolderFactsNext

\* A step of the SOAP thread that changes the status of one project, which is
\* free before or after it.
LEMMA MoveStep ==
    ASSUME IInv, IInv', NEW p \in Projects, UNCHANGED <<queue, worker, job>>,
           status[p] # "busy" \/ status'[p] # "busy",
           \A q \in Projects \ {p} :
               status'[q] = status[q] /\ upload'[q] = upload[q] /\ (AtSoap(q)' <=> AtSoap(q))
    PROVE  [Lock!Next]_Held
<1>1. ASSUME NEW q \in Projects \ {p} PROVE Holder(q)' = Holder(q)
  <2>1. (InQueue(q)' <=> InQueue(q)) /\ (AtWorker(q)' <=> AtWorker(q))
    BY DEF InQueue, AtWorker
  <2>2. Jobber(q)' <=> Jobber(q)
    BY <2>1 DEF Jobber, JobPending
  <2> QED BY <2>2, HolderStays
<1> QED BY <1>1, LockMove

\* Every step of the daemon is one of the lock, or invisible to it.
LEMMA LockStep ==
    ASSUME IInv, IInv', [Next]_vars, NoForeignRelease
    PROVE  [Lock!Next]_Held
<1>t. /\ status \in [Projects -> Statuses]
      /\ upload \in [Projects -> {"none", "recipe", "package"}]
      /\ soap \in {"create", "xml", "del"} => req.prj \in Projects
  BY DEF IInv, TypeOK
<1>1. ASSUME NEW p \in Projects, Request(p) PROVE [Lock!Next]_Held
  <2>0. UNCHANGED <<queue, worker, job>>
    BY <1>1, RequestFrame
  <2>1. ASSUME NEW k \in {"new_project", "create_project"}, CreateDir(p, k)
        PROVE  [Lock!Next]_Held
    BY <2>1, QuietStep DEF CreateDir, AtSoap
  <2>2. ASSUME NEW k \in Kinds, RequestJob(p, k) PROVE [Lock!Next]_Held
    BY <2>2, QuietStep DEF RequestJob, stored, AtSoap
  <2>3. ASSUME \/ FinishCdrom(p) \/ ResetProject(p)
               \/ \E f \in {"recipe", "package"} : UploadStart(p, f)
               \/ \E content \in {"valid", "broken"} : UploadFinish(p, content) /\ Exists(p)
        PROVE  [Lock!Next]_Held
    <3>1. UNCHANGED <<soap, req>>
      BY <2>3 DEF FinishCdrom, ResetProject, UploadStart, UploadFinish, soapVars
    <3>2. \A q \in Projects \ {p} : status'[q] = status[q] /\ upload'[q] = upload[q]
      BY <1>t, <2>3 DEF FinishCdrom, ResetProject, UploadStart, UploadFinish
    <3>3. status[p] # "busy" \/ status'[p] # "busy"
      BY <1>t, <2>3 DEF FinishCdrom, Openable, ResetProject, UploadStart, UploadFinish
    <3> QED BY <2>0, <3>1, <3>2, <3>3, MoveStep DEF AtSoap
  <2>4. ASSUME \/ UploadAbandon(p) \/ DelStart(p)
               \/ \E content \in {"valid", "broken"} : UploadFinish(p, content) /\ ~Exists(p)
        PROVE  [Lock!Next]_Held
    <3>1. status' = status /\ \A q \in Projects : upload'[q] \in {upload[q], "none"}
      BY <1>t, <2>4 DEF UploadAbandon, DelStart, UploadFinish, stored
    <3>2. soap' # "put" \/ UNCHANGED <<soap, req>>
      BY <2>4 DEF UploadAbandon, DelStart, UploadFinish, soapVars
    <3> QED BY <3>1, <3>2, QuietStep DEF AtSoap
  <2>5. CASE EmptyUpload(p)
    BY <2>5 DEF EmptyUpload, NoForeignRelease
  <2> QED BY <1>1, <2>1, <2>2, <2>3, <2>4, <2>5 DEF Request
<1>2. ASSUME NEW p \in Projects, Rmtree(p) PROVE [Lock!Next]_Held
  <2>1. UNCHANGED <<status, upload, soap, req>>
    BY <1>2 DEF Rmtree, soapVars
  <2> QED BY <2>1, QuietStep DEF AtSoap
<1>3. CASE SoapStep
  <2>1. CASE CreateCommit \/ CreateSetXml \/ DelCommit
    <3>1. /\ soap \in {"create", "xml", "del"} /\ soap' # "put"
          /\ UNCHANGED <<upload, queue, worker, job>>
          /\ \A q \in Projects \ {req.prj} : status'[q] = status[q]
      BY <1>t, <2>1 DEF CreateCommit, CreateSetXml, DelCommit, workVars
    <3>2. status[req.prj] # "busy"
      BY <3>1 DEF IInv, InOrder
    <3> QED BY <1>t, <3>1, <3>2, MoveStep DEF AtSoap
  <2>2. CASE Enqueue
    BY <2>2, QuietStep DEF Enqueue, stored
  <2>3. CASE CreateFail \/ CreateSetXmlFail \/ DelFail \/ StopDone
    <3>1. UNCHANGED <<status, upload>> /\ soap' # "put"
      BY <2>3 DEF CreateFail, CreateSetXmlFail, DelFail, StopDone, LoseMemory, stored
    <3> QED BY <3>1, QuietStep DEF AtSoap
  <2>4. CASE AssertNotBusy \/ (SetBusy /\ status[req.prj] \notin Stable)
    <3>1. UNCHANGED <<status, upload>> /\ soap' # "put"
      BY <2>4 DEF AssertNotBusy, SetBusy, stored
    <3> QED BY <3>1, QuietStep DEF AtSoap
  <2>5. CASE SetBusy /\ status[req.prj] \in Stable
    <3>1. /\ soap = "take" /\ req' = req /\ UNCHANGED <<upload, queue, worker, job>>
          /\ status' = [status EXCEPT ![req.prj] = "busy"] /\ status[req.prj] # "busy"
      BY <2>5 DEF SetBusy, workVars
    <3>2. req.prj \in Projects
      BY <3>1, JobFacts DEF IInv, TypeOK
    <3>3. \A q \in Projects \ {req.prj} : ~AtSoap(q) /\ ~AtSoap(q)'
      BY <3>1 DEF AtSoap
    <3> QED BY <1>t, <3>1, <3>2, <3>3, MoveStep
  <2> QED BY <1>3, <2>1, <2>2, <2>3, <2>4, <2>5 DEF SoapStep
<1>4. CASE WorkerStep
  <2>1. CASE ReleaseCommit
    <3>1. job.prj \in Projects /\ verdict \in {"build_done", "build_failed"}
      BY <2>1, JobFacts DEF ReleaseCommit, IInv, TypeOK
    <3>2. /\ worker = "commit" /\ worker' \notin Active
          /\ UNCHANGED <<queue, upload, soap, req>>
          /\ status' = IF status[job.prj] = "none" THEN status
                       ELSE [status EXCEPT ![job.prj] = verdict]
      BY <2>1 DEF ReleaseCommit, Die, soapVars
    <3>3. status'[job.prj] # "busy"
      BY <1>t, <3>1, <3>2
    <3>4. \A q \in Projects \ {job.prj} : Jobber(q)' <=> Jobber(q)
      BY <3>2 DEF Jobber, JobPending, InQueue, AtWorker, AtSoap
    <3>5. \A q \in Projects \ {job.prj} : Holder(q)' = Holder(q)
      BY <1>t, <3>1, <3>2, <3>4, HolderStays
    <3> QED BY <3>1, <3>3, <3>5, LockMove
  <2>2. CASE ~ReleaseCommit
    <3>1. UNCHANGED <<status, upload, soap, req>>
      BY <1>4, <2>2
         DEF WorkerStep, GetStop, GetJob, RunJob, Judge, UpdateFiles, UpdateFilesFail,
             ReleaseRead, ReleaseFail, stored, soapVars
    <3> QED BY <3>1, QuietStep DEF AtSoap
  <2> QED BY <2>1, <2>2
<1>5. CASE Stop \/ Start \/ UNCHANGED vars \/ \E lost \in SUBSET Projects : Crash(lost)
  <2>1. UNCHANGED <<status, upload>> /\ (soap' # "put" \/ UNCHANGED <<soap, req>>)
    BY <1>5 DEF Stop, Start, vars, Crash, LoseMemory, stored, soapVars
  <2> QED BY <2>1, QuietStep DEF AtSoap
<1> QED BY <1>1, <1>2, <1>3, <1>4, <1>5 DEF Next

\* The daemon with its kills, failing commits, abandoned uploads, interrupts and
\* sys.exit implements ProjectLock: a project is taken only from nobody, given back
\* only by its holder or by a reset once the holder is gone, and is otherwise
\* left blocked.  No reset at work and no empty upload.
THEOREM RefinesLockHolds ==
    ASSUME NoForeignRelease
    PROVE  Spec => RefinesLock
<1>1. Init => Lock!Init
  BY DEF Init, Lock!Init, Holder, JobPending, InQueue, AtWorker, AtSoap, Active
<1>2. IInv /\ IInv' /\ [Next]_vars => [Lock!Next]_[p \in Projects |-> Holder(p)]
  BY LockStep DEF Held
<1>3. IInv /\ [Next]_vars => IInv'
  BY IInvNext
<1> QED BY <1>1, <1>2, <1>3, IInvInit, PTL DEF Spec, RefinesLock, Lock!Spec
=============================================================================
