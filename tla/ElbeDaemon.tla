----------------------------- MODULE ElbeDaemon -----------------------------
(***************************************************************************)
(* The ELBE build daemon: the project database (ElbeDB), the project       *)
(* manager, the SOAP service (ESoap) and the worker thread (AsyncWorker).  *)
(*                                                                         *)
(* Two threads run side by side.  The SOAP thread is wsgiref's simple      *)
(* server and handles one request at a time; `soap' is its program counter *)
(* inside the request `req'.  The worker thread takes jobs from `queue';   *)
(* `worker' is its program counter inside `job'.  They meet in the status  *)
(* column of the projects table, where 'busy' serves as a lock: a request  *)
(* takes it (set_busy) and the worker, much later, gives it back           *)
(* (reset_busy).  A third kind of thread, started by del_project, removes  *)
(* the directory of a deleted project.                                     *)
(*                                                                         *)
(* A refused request (no such project, busy, unreadable XML) answers with  *)
(* a SOAP fault and leaves this state alone: most guards below are the     *)
(* conditions under which the handlers get past their early returns.       *)
(*                                                                         *)
(* A database transaction of the SOAP thread is one step.  The only other  *)
(* writer of a status is the worker's reset_busy, which is split in two    *)
(* because SQLite reads the row outside of the writing transaction.        *)
(***************************************************************************)
EXTENDS Naturals, Sequences, FiniteSets

CONSTANTS
    Projects,   \* build directories /var/cache/elbe/<uuid7>
    NoProject,  \* the project of a request or job slot that is not in use
    Kinds,      \* the job classes of asyncworker.py that clients ask for
    Faults,     \* what may go wrong in this model
    MaxQueue    \* bound: no job request is sent with this many jobs queued

AllKinds == {"build", "sysroot", "sdk", "cdroms", "chroot_tar", "pdebuild",
             "create_pbuilder", "update_pbuilder"}

\* crash        the daemon is killed (SIGTERM too: it installs no handler)
\* interrupt    SIGINT in a request for a job, after set_busy for example
\* abandon      a client gives up between two parts of an upload
\* empty_upload an empty file is uploaded: part -1 without a part 0
\* reset_live   reset_project is called on a project somebody works on
\* exit         pdebuild leaves through sys.exit
\* dbfail       a commit of ElbeDB fails (OperationalError)
AllFaults == {"crash", "interrupt", "abandon", "empty_upload", "reset_live",
              "exit", "dbfail"}

ASSUME NoProjectAssumption == NoProject \notin Projects
ASSUME KindsAssumption == Kinds \subseteq AllKinds
ASSUME FaultsAssumption == Faults \subseteq AllFaults
ASSUME MaxQueueAssumption == MaxQueue \in Nat

VARIABLES
    status,   \* projects.status of each project, "none" without a row
    dir,      \* its build directory
    xml,      \* the source.xml in that directory
    upload,   \* the upload a client has under way: nothing, a recipe, a package
    up,       \* the daemon process runs
    soap,     \* where the SOAP thread is
    req,      \* the project and operation it is working for
    queue,    \* AsyncWorker.queue
    level,    \* LoggingQueue._max_level of each project: below ERROR or not
    worker,   \* where the worker thread is
    job,      \* the job it executes
    outcome,  \* how the job's own work ended
    verdict   \* the local variable `success' of execute

stored == <<status, dir, xml>>
soapVars == <<soap, req>>
workVars == <<worker, job, outcome, verdict>>
vars == <<status, dir, xml, upload, up, soap, req, queue, level,
          worker, job, outcome, verdict>>

Stable == {"empty_project", "needs_build", "has_changes", "build_done",
           "build_failed"}
Statuses == Stable \cup {"busy", "none"}
Dirs == {"unused", "present", "removing", "partial", "gone"}
Rpcs == Kinds \cup {"new_project", "create_project", "del_project", "stop"}

\* A job in the queue; None, which ends the worker, is StopItem.
StopItem == [prj |-> NoProject, kind |-> "stop"]
Jobs == [prj : Projects, kind : Kinds]
NoJob == StopItem

Active == {"run", "judge", "files", "release", "commit"}

Exists(p) == dir[p] \in {"present", "removing", "partial"}

\* db.load_project succeeds: a row, and a source.xml that ElbeXML accepts.
Loadable(p) == status[p] # "none" /\ Exists(p) /\ xml[p] = "valid"

\* open_project(builddir, allow_busy=False) succeeds.
Openable(p) == Loadable(p) /\ status[p] # "busy"

InQueue(p) == \E i \in 1..Len(queue) : queue[i].prj = p
AtWorker(p) == worker \in Active /\ job.prj = p
JobPending(p) == InQueue(p) \/ AtWorker(p)
AtSoap(p) == soap = "put" /\ req.prj = p
Owned(p) == JobPending(p) \/ AtSoap(p) \/ upload[p] # "none"

Init ==
    /\ status = [p \in Projects |-> "none"]
    /\ dir = [p \in Projects |-> "unused"]
    /\ xml = [p \in Projects |-> "none"]
    /\ upload = [p \in Projects |-> "none"]
    /\ up = TRUE
    /\ soap = "idle"
    /\ req = NoJob
    /\ queue = <<>>
    /\ level = [p \in Projects |-> "ok"]
    /\ worker = "idle"
    /\ job = NoJob
    /\ outcome = "none"
    /\ verdict = "none"

-----------------------------------------------------------------------------
(* Creating projects: ESoap.new_project and ESoap.create_project.          *)

\* new_project and create_project pick a fresh uuid and makedirs it.
CreateDir(p, k) ==
    /\ up /\ soap = "idle"
    /\ dir[p] = "unused"
    /\ dir' = [dir EXCEPT ![p] = "present"]
    /\ soap' = "create"
    /\ req' = [prj |-> p, kind |-> k]
    /\ UNCHANGED <<status, xml, upload, up, queue, level, workVars>>

\* The commit that adds the row; create_project goes on to set_xml.
CreateCommit ==
    /\ soap = "create"
    /\ status' = [status EXCEPT ![req.prj] = "empty_project"]
    /\ soap' = IF req.kind = "create_project" THEN "xml" ELSE "idle"
    /\ req' = IF req.kind = "create_project" THEN req ELSE NoJob
    /\ UNCHANGED <<dir, xml, upload, up, queue, level, workVars>>

\* The commit fails: the directory just made is removed again.
CreateFail ==
    /\ "dbfail" \in Faults
    /\ soap = "create"
    /\ dir' = [dir EXCEPT ![req.prj] = "gone"]
    /\ soap' = "idle" /\ req' = NoJob
    /\ UNCHANGED <<status, xml, upload, up, queue, level, workVars>>

\* The status db.set_xml leaves behind.
AfterSetXml(s) ==
    CASE s \in {"empty_project", "build_failed"} -> "needs_build"
      [] s = "build_done" -> "has_changes"
      [] OTHER -> s

\* create_project: the XML validates and is copied to source.xml.
CreateSetXml ==
    /\ soap = "xml"
    /\ xml' = [xml EXCEPT ![req.prj] = "valid"]
    /\ status' = [status EXCEPT ![req.prj] = AfterSetXml(@)]
    /\ soap' = "idle" /\ req' = NoJob
    /\ UNCHANGED <<dir, upload, up, queue, level, workVars>>

\* create_project: set_xml raises, so the new project is deleted again.
CreateSetXmlFail ==
    /\ soap = "xml"
    /\ dir' = [dir EXCEPT ![req.prj] = "removing"]
    /\ soap' = "del"
    /\ UNCHANGED <<status, xml, upload, up, req, queue, level, workVars>>

-----------------------------------------------------------------------------
(* Asking for a job: open_project(allow_busy=False), then the job's enqueue. *)

\* open_project loads the project (and for pdebuild there is an environment) ...
RequestJob(p, k) ==
    /\ up /\ soap = "idle"
    /\ Len(queue) < MaxQueue
    /\ Loadable(p)
    /\ soap' = "open"
    /\ req' = [prj |-> p, kind |-> k]
    /\ UNCHANGED <<stored, upload, up, queue, level, workVars>>

\* ... and asks is_busy only then: the worker may have given it back meanwhile.
AssertNotBusy ==
    /\ soap = "open"
    /\ IF status[req.prj] \in Stable
       THEN soap' = "take" /\ UNCHANGED req
       ELSE soap' = "idle" /\ req' = NoJob
    /\ UNCHANGED <<stored, upload, up, queue, level, workVars>>

\* Mutant: a job class whose enqueue forgets set_busy.
SetBusy_Forgotten ==
    /\ soap = "take"
    /\ soap' = "put"
    /\ UNCHANGED <<stored, upload, up, req, queue, level, workVars>>

\* set_busy, at the start of the job's enqueue.
SetBusy ==
    /\ soap = "take"
    /\ IF status[req.prj] \in Stable
       THEN /\ status' = [status EXCEPT ![req.prj] = "busy"]
            /\ soap' = "put" /\ UNCHANGED req
       ELSE soap' = "idle" /\ req' = NoJob /\ UNCHANGED status
    /\ UNCHANGED <<dir, xml, upload, up, queue, level, workVars>>

\* Mutant: reset_level is forgotten.
Enqueue_KeepsLevel ==
    /\ soap = "put"
    /\ queue' = Append(queue, req)
    /\ soap' = "idle" /\ req' = NoJob
    /\ UNCHANGED <<stored, upload, up, level, workVars>>

\* AsyncWorkerJob.enqueue: forget the level of earlier jobs, queue.put.
Enqueue ==
    /\ soap = "put"
    /\ level' = [level EXCEPT ![req.prj] = "ok"]
    /\ queue' = Append(queue, req)
    /\ soap' = "idle" /\ req' = NoJob
    /\ UNCHANGED <<stored, upload, up, workVars>>

-----------------------------------------------------------------------------
(* The other requests that change a project.                               *)

\* finish_cdrom: set_upload_cdrom rewrites source.xml and calls set_xml.
FinishCdrom(p) ==
    /\ up /\ soap = "idle"
    /\ Openable(p)
    /\ status' = [status EXCEPT ![p] = AfterSetXml(@)]
    /\ UNCHANGED <<dir, xml, upload, up, soapVars, queue, level, workVars>>

\* Mutant: upload_file without the is_busy and set_busy checks.
UploadStart_NoCheck(p, f) ==
    /\ up /\ soap = "idle"
    /\ upload[p] = "none" /\ status[p] # "none" /\ Exists(p)
    /\ status' = [status EXCEPT ![p] = "busy"]
    /\ upload' = [upload EXCEPT ![p] = f]
    /\ xml' = IF f = "recipe" THEN [xml EXCEPT ![p] = "broken"] ELSE xml
    /\ UNCHANGED <<dir, up, soapVars, queue, level, workVars>>

\* upload_file part 0: set_busy, then open for writing, which truncates the
\* file.  Without the directory open raises, after the project became busy.
\* Bound: one client uploads to a project at a time.
UploadStart(p, f) ==
    /\ up /\ soap = "idle"
    /\ upload[p] = "none"
    /\ status[p] \notin {"busy", "none"}
    /\ status' = [status EXCEPT ![p] = "busy"]
    /\ IF Exists(p)
       THEN /\ upload' = [upload EXCEPT ![p] = f]
            /\ xml' = IF f = "recipe" THEN [xml EXCEPT ![p] = "broken"] ELSE xml
       ELSE UNCHANGED <<upload, xml>>
    /\ UNCHANGED <<dir, up, soapVars, queue, level, workVars>>

\* Mutant: the recipe is validated before reset_busy, so that a file ElbeXML
\* rejects leaves the project busy.
UploadFinish_LateReset(p, content) ==
    /\ up /\ soap = "idle"
    /\ upload[p] # "none"
    /\ upload' = [upload EXCEPT ![p] = "none"]
    /\ xml' = IF upload[p] = "recipe" /\ Exists(p)
              THEN [xml EXCEPT ![p] = content] ELSE xml
    /\ status' = IF /\ status[p] = "busy" /\ Exists(p)
                    /\ upload[p] = "recipe" => content = "valid"
                 THEN [status EXCEPT ![p] = "has_changes"] ELSE status
    /\ UNCHANGED <<dir, up, soapVars, queue, level, workVars>>

\* upload_file part -1, with the parts appended before it: reset_busy to
\* has_changes, then for source.xml open_project and set_xml, which accept
\* the file (and leave has_changes alone) or raise and leave it in place.
UploadFinish(p, content) ==
    /\ up /\ soap = "idle"
    /\ upload[p] # "none"
    /\ upload' = [upload EXCEPT ![p] = "none"]
    /\ xml' = IF upload[p] = "recipe" /\ Exists(p)
              THEN [xml EXCEPT ![p] = content] ELSE xml
    /\ status' = IF status[p] = "busy" /\ Exists(p)
                 THEN [status EXCEPT ![p] = "has_changes"] ELSE status
    /\ UNCHANGED <<dir, up, soapVars, queue, level, workVars>>

\* The client stops between two parts; nobody tells the daemon.
UploadAbandon(p) ==
    /\ "abandon" \in Faults
    /\ upload[p] # "none"
    /\ upload' = [upload EXCEPT ![p] = "none"]
    /\ UNCHANGED <<stored, up, soapVars, queue, level, workVars>>

\* upload_file part -1 for an empty file, which never had a part 0: it gives
\* back a busy flag that is not its own.
EmptyUpload(p) ==
    /\ "empty_upload" \in Faults
    /\ up /\ soap = "idle"
    /\ Exists(p) /\ status[p] = "busy"
    /\ status' = [status EXCEPT ![p] = "has_changes"]
    /\ UNCHANGED <<dir, xml, upload, up, soapVars, queue, level, workVars>>

\* reset_project sets the status whatever it was.  The manual offers it for
\* blocked projects; "reset_live" also allows it while somebody is at work.
ResetProject(p) ==
    /\ up /\ soap = "idle"
    /\ status[p] # "none"
    /\ "reset_live" \in Faults \/ ~Owned(p)
    /\ status' = [status EXCEPT ![p] = IF xml[p] = "none" THEN "empty_project"
                                       ELSE "needs_build"]
    /\ UNCHANGED <<dir, xml, upload, up, soapVars, queue, level, workVars>>

-----------------------------------------------------------------------------
(* Deleting a project.                                                     *)

\* Mutant: del_project does not ask whether the project is busy.
DelStart_Busy(p) ==
    /\ up /\ soap = "idle"
    /\ status[p] # "none"
    /\ dir' = [dir EXCEPT ![p] = IF Exists(p) THEN "removing" ELSE @]
    /\ soap' = "del"
    /\ req' = [prj |-> p, kind |-> "del_project"]
    /\ UNCHANGED <<status, xml, upload, up, queue, level, workVars>>

\* Mutant: del_project removes the row only.
DelStart_NoRmtree(p) ==
    /\ up /\ soap = "idle"
    /\ status[p] \notin {"busy", "none"}
    /\ soap' = "del"
    /\ req' = [prj |-> p, kind |-> "del_project"]
    /\ UNCHANGED <<stored, upload, up, queue, level, workVars>>

\* del_project starts the rmtree thread while the row is still there ...
DelStart(p) ==
    /\ up /\ soap = "idle"
    /\ status[p] \notin {"busy", "none"}
    /\ dir' = [dir EXCEPT ![p] = IF Exists(p) THEN "removing" ELSE @]
    /\ soap' = "del"
    /\ req' = [prj |-> p, kind |-> "del_project"]
    /\ UNCHANGED <<status, xml, upload, up, queue, level, workVars>>

\* ... and commits the deletion of the row afterwards.
DelCommit ==
    /\ soap = "del"
    /\ status' = [status EXCEPT ![req.prj] = "none"]
    /\ soap' = "idle" /\ req' = NoJob
    /\ UNCHANGED <<dir, xml, upload, up, queue, level, workVars>>

\* The commit fails: the row survives the directory.
DelFail ==
    /\ "dbfail" \in Faults
    /\ soap = "del"
    /\ soap' = "idle" /\ req' = NoJob
    /\ UNCHANGED <<stored, upload, up, queue, level, workVars>>

\* The rmtree thread ends.
Rmtree(p) ==
    /\ up
    /\ dir[p] = "removing"
    /\ dir' = [dir EXCEPT ![p] = "gone"]
    /\ xml' = [xml EXCEPT ![p] = "none"]
    /\ UNCHANGED <<status, upload, up, soapVars, queue, level, workVars>>

-----------------------------------------------------------------------------
(* The worker thread: AsyncWorker.run and the execute of the job classes.  *)

\* execute is left by an exception that nothing catches: the thread ends
\* without task_done.
Die ==
    /\ worker' = "dead"
    /\ job' = NoJob
    /\ outcome' = "none"
    /\ verdict' = "none"

\* Mutant: the break after task_done is missing.
GetStop_NoBreak ==
    /\ up /\ worker = "idle"
    /\ queue # <<>> /\ Head(queue) = StopItem
    /\ queue' = Tail(queue)
    /\ UNCHANGED <<stored, upload, up, soapVars, level, workVars>>

\* queue.get returned None: task_done and leave the loop.
GetStop ==
    /\ up /\ worker = "idle"
    /\ queue # <<>> /\ Head(queue) = StopItem
    /\ queue' = Tail(queue)
    /\ worker' = "stopped"
    /\ UNCHANGED <<stored, upload, up, soapVars, level, job, outcome, verdict>>

\* queue.get returned a job: open the log files in its build directory and
\* enter execute.  elbe_logging raises when the directory is not there.
GetJob ==
    /\ up /\ worker = "idle"
    /\ queue # <<>> /\ Head(queue) # StopItem
    /\ queue' = Tail(queue)
    /\ IF Exists(Head(queue).prj)
       THEN /\ worker' = "run"
            /\ job' = Head(queue)
            /\ UNCHANGED <<outcome, verdict>>
       ELSE Die
    /\ UNCHANGED <<stored, upload, up, soapVars, level>>

\* The job's own work: it returns, returns having logged an error, raises an
\* Exception (which is logged as an error), or pdebuild logs an error and
\* calls sys.exit, which no `except Exception' stops.
RunJob(o) ==
    /\ worker = "run"
    /\ o = "exit" => "exit" \in Faults /\ job.kind = "pdebuild"
    /\ level' = IF o = "ok" THEN level ELSE [level EXCEPT ![job.prj] = "error"]
    /\ outcome' = o
    /\ worker' = "judge"
    /\ UNCHANGED <<stored, upload, up, soapVars, queue, job, verdict>>

\* The jobs that look at the level of the messages logged meanwhile.
LevelJudged == AllKinds \ {"create_pbuilder", "update_pbuilder"}

\* The value of `success' when execute reaches its finally clause.
Success(k, o, l) ==
    IF \/ k = "update_pbuilder"
       \/ k = "create_pbuilder" /\ o \in {"ok", "error"}
       \/ k \in LevelJudged /\ o \in {"ok", "error"} /\ l = "ok"
    THEN "build_done" ELSE "build_failed"

\* Mutant: `success' is not initialised before the try statement.
Judge_Unset ==
    /\ worker = "judge"
    /\ verdict' = IF outcome = "exception" THEN verdict
                  ELSE Success(job.kind, outcome, level[job.prj])
    /\ worker' = "files"
    /\ UNCHANGED <<stored, upload, up, soapVars, queue, level, job, outcome>>

\* Mutant: reset_busy in the else branch instead of the finally clause.
Judge_NoFinally ==
    /\ worker = "judge"
    /\ IF outcome = "exception"
       THEN worker' = "idle" /\ job' = NoJob /\ outcome' = "none" /\ verdict' = "none"
       ELSE /\ verdict' = Success(job.kind, outcome, level[job.prj])
            /\ worker' = "files"
            /\ UNCHANGED <<job, outcome>>
    /\ UNCHANGED <<stored, upload, up, soapVars, queue, level>>

\* Mutant: no except clause; the finally clause runs and the thread ends.
Judge_NoExcept ==
    /\ worker = "judge"
    /\ verdict' = Success(job.kind, outcome, level[job.prj])
    /\ outcome' = IF outcome = "exception" THEN "exit" ELSE outcome
    /\ worker' = "files"
    /\ UNCHANGED <<stored, upload, up, soapVars, queue, level, job>>

\* The else branch reads the level; the except branch does not.  The finally
\* clause of UpdatePbuilderJob has no update_project_files, its except branch
\* has.
Judge ==
    /\ worker = "judge"
    /\ verdict' = Success(job.kind, outcome, level[job.prj])
    /\ worker' = IF job.kind = "update_pbuilder" /\ outcome # "exception"
                 THEN "release" ELSE "files"
    /\ UNCHANGED <<stored, upload, up, soapVars, queue, level, job, outcome>>

\* update_project_files finds the row and commits.
UpdateFiles ==
    /\ worker = "files"
    /\ status[job.prj] # "none"
    /\ worker' = "release"
    /\ UNCHANGED <<stored, upload, up, soapVars, queue, level, job, outcome,
                   verdict>>

\* update_project_files raises ElbeDBError out of the finally clause, and
\* reset_busy is skipped.  UpdatePbuilderJob calls it from an except branch:
\* there reset_busy is still made and the exception goes on from there.
UpdateFilesFail ==
    /\ worker = "files"
    /\ status[job.prj] = "none" \/ "dbfail" \in Faults
    /\ IF job.kind = "update_pbuilder"
       THEN /\ worker' = "release"
            /\ outcome' = "exit"
            /\ UNCHANGED <<job, verdict>>
       ELSE Die
    /\ UNCHANGED <<stored, upload, up, soapVars, queue, level>>

\* reset_busy reads the row, and raises unless it says busy.
ReleaseRead ==
    /\ worker = "release"
    /\ IF status[job.prj] = "busy"
       THEN worker' = "commit" /\ UNCHANGED <<job, outcome, verdict>>
       ELSE Die
    /\ UNCHANGED <<stored, upload, up, soapVars, queue, level>>

\* reset_busy commits the new status; without an exception under way the
\* worker goes on to task_done.  An UPDATE that finds no row raises.
ReleaseCommit ==
    /\ worker = "commit"
    /\ IF status[job.prj] = "none" \/ outcome = "exit"
       THEN Die
       ELSE /\ worker' = "idle"
            /\ job' = NoJob
            /\ outcome' = "none"
            /\ verdict' = "none"
    /\ status' = IF status[job.prj] = "none" THEN status
                 ELSE [status EXCEPT ![job.prj] = verdict]
    /\ UNCHANGED <<dir, xml, upload, up, soapVars, queue, level>>

\* The commit of reset_busy fails: the project stays busy.
ReleaseFail ==
    /\ "dbfail" \in Faults
    /\ worker = "commit"
    /\ Die
    /\ UNCHANGED <<stored, upload, up, soapVars, queue, level>>

-----------------------------------------------------------------------------
(* Stopping, crashing and starting the daemon.                             *)

\* SIGINT ends serve_forever; ProjectManager.stop puts None into the queue.
\* "interrupt" lets it hit a request for a job at any point.
Stop ==
    /\ up
    /\ soap = "idle" \/ (soap \in {"open", "take", "put"} /\ "interrupt" \in Faults)
    /\ queue' = Append(queue, StopItem)
    /\ soap' = "stop" /\ req' = NoJob
    /\ UNCHANGED <<stored, upload, up, level, workVars>>

\* What a process loses when it ends.
LoseMemory ==
    /\ up' = FALSE
    /\ soap' = "idle"
    /\ req' = NoJob
    /\ queue' = <<>>
    /\ level' = [p \in Projects |-> "ok"]
    /\ worker' = "idle"
    /\ job' = NoJob
    /\ outcome' = "none"
    /\ verdict' = "none"

\* queue.join and Thread.join return, and the rmtree threads, which are not
\* daemon threads, have ended: the process exits.
StopDone ==
    /\ soap = "stop"
    /\ worker = "stopped" /\ queue = <<>>
    /\ \A p \in Projects : dir[p] # "removing"
    /\ LoseMemory
    /\ UNCHANGED <<stored, upload>>

\* The daemon is killed.  An rmtree under way leaves part of a directory, with
\* or without its source.xml.
Crash(lost) ==
    /\ "crash" \in Faults
    /\ up
    /\ dir' = [p \in Projects |-> IF dir[p] = "removing" THEN "partial" ELSE dir[p]]
    /\ xml' = [p \in Projects |-> IF dir[p] = "removing" /\ p \in lost
                                  THEN "none" ELSE xml[p]]
    /\ LoseMemory
    /\ UNCHANGED <<status, upload>>

\* A new daemon process: ProjectManager starts a worker with an empty queue.
Start ==
    /\ ~up
    /\ up' = TRUE
    /\ UNCHANGED <<stored, upload, soapVars, queue, level, workVars>>

-----------------------------------------------------------------------------
\* The rest of a request that was begun.
SoapStep ==
    \/ CreateCommit \/ CreateFail \/ CreateSetXml \/ CreateSetXmlFail
    \/ AssertNotBusy \/ SetBusy \/ Enqueue
    \/ DelCommit \/ DelFail
    \/ StopDone

WorkerStep ==
    \/ GetStop \/ GetJob
    \/ \E o \in {"ok", "error", "exception", "exit"} : RunJob(o)
    \/ Judge
    \/ UpdateFiles \/ UpdateFilesFail
    \/ ReleaseRead \/ ReleaseCommit \/ ReleaseFail

\* What clients and operators may ask for.
Request(p) ==
    \/ \E k \in {"new_project", "create_project"} : CreateDir(p, k)
    \/ \E k \in Kinds : RequestJob(p, k)
    \/ FinishCdrom(p)
    \/ \E f \in {"recipe", "package"} : UploadStart(p, f)
    \/ \E content \in {"valid", "broken"} : UploadFinish(p, content)
    \/ UploadAbandon(p)
    \/ EmptyUpload(p)
    \/ ResetProject(p)
    \/ DelStart(p)

Next ==
    \/ \E p \in Projects : Request(p) \/ Rmtree(p)
    \/ SoapStep
    \/ WorkerStep
    \/ Stop
    \/ \E lost \in SUBSET Projects : Crash(lost)
    \/ Start

Spec == Init /\ [][Next]_vars

\* The operating system schedules every thread that can run, and the programs
\* a job runs end.  Nothing is assumed of clients and operators.
Fairness ==
    /\ WF_vars(SoapStep)
    /\ WF_vars(WorkerStep)
    /\ \A p \in Projects : WF_vars(Rmtree(p))

FairSpec == Spec /\ Fairness

-----------------------------------------------------------------------------
\* Every variable keeps to the values the code gives it.
TypeOK ==
    /\ status \in [Projects -> Statuses]
    /\ dir \in [Projects -> Dirs]
    /\ xml \in [Projects -> {"none", "valid", "broken"}]
    /\ upload \in [Projects -> {"none", "recipe", "package"}]
    /\ up \in BOOLEAN
    /\ soap \in {"idle", "create", "xml", "open", "take", "put", "del", "stop"}
    /\ req \in [prj : Projects \cup {NoProject}, kind : Rpcs]
    /\ soap \in {"create", "xml", "del"} => req.prj \in Projects
    /\ soap \in {"open", "take", "put"} => req \in Jobs
    /\ queue \in Seq(Jobs \cup {StopItem})
    /\ level \in [Projects -> {"ok", "error"}]
    /\ worker \in Active \cup {"idle", "stopped", "dead"}
    /\ job \in Jobs \cup {NoJob}
    /\ worker \in Active => job \in Jobs
    /\ outcome \in {"none", "ok", "error", "exception", "exit"}
    /\ verdict \in {"none", "build_done", "build_failed"}
    /\ worker \in {"files", "release", "commit"} => verdict # "none"
-----------------------------------------------------------------------------
(* Who holds the busy flag.                                                *)

\* The places that work on a project exclude each other: two queued jobs, the
\* job at the worker, the request about to put a job and a client's upload
\* never belong to the same project.  The status column is the only thing that
\* keeps them apart.
OneOwner ==
    /\ \A i, j \in 1..Len(queue) :
          i # j => queue[i].prj # queue[j].prj
    /\ \A p \in Projects :
          /\ ~(InQueue(p) /\ AtWorker(p))
          /\ ~(JobPending(p) /\ AtSoap(p))
          /\ ~((JobPending(p) \/ AtSoap(p)) /\ upload[p] # "none")

\* As long as anybody is at work on a project the database says so; this is
\* what set_xml, del_project, set_busy and _assert_not_busy rely on.
OwnedIsBusy == \A p \in Projects : Owned(p) => status[p] = "busy"

\* A project is busy only while somebody is at work on it who will give the
\* flag back: no path through the handlers leaks it.
BusyIsOwned == \A p \in Projects : status[p] = "busy" => Owned(p)

\* The worker thread outlives every job: none of the exceptions that execute
\* and elbe_logging let through (row gone, status not busy, directory gone)
\* comes up.  A dead worker leaves every later job queued for ever.
WorkerSurvives == worker # "dead"

\* The status a job leaves behind tells about that job and not about an
\* earlier job of the project whose error level was never cleared.
VerdictOwn ==
    worker \in {"files", "release", "commit"} /\ job.kind \in LevelJudged
        => verdict = IF outcome = "ok" THEN "build_done" ELSE "build_failed"

\* Rows and directories appear and disappear together, up to the request that
\* is under way and the rmtree threads: no project row without its directory
\* and no directory that no project owns.
RowsMatchDirs ==
    \A p \in Projects :
        \/ status[p] # "none" <=> dir[p] = "present"
        \/ soap = "create" /\ req.prj = p
        \/ soap = "del" /\ req.prj = p
        \/ status[p] = "none" /\ dir[p] = "removing"

\* While a job is pending its project belongs to it: its directory and recipe
\* stay, and the only change of its status is the one the job's own reset_busy
\* commits.
PendingUntouched ==
    [][\A p \in Projects : JobPending(p) =>
          /\ dir'[p] = dir[p] /\ xml'[p] = xml[p]
          /\ status'[p] # status[p] => worker = "commit" /\ job.prj = p]_vars

\* Every job that is queued is executed and gives the project back, also when
\* the daemon is asked to stop meanwhile.
JobsFinish ==
    \A p \in Projects : JobPending(p) ~> status[p] # "busy"

\* A stop of the daemon comes to its end: AsyncWorker.stop does not wait for a
\* job that never calls task_done.
StopTerminates == soap = "stop" ~> ~up
\* What the SOAP thread knows about the project it works for, and that the end
\* of the queue is requested by AsyncWorker.stop only.
InOrder ==
    /\ \A p \in Projects : dir[p] = "unused" => status[p] = "none"
    /\ soap = "create" => dir[req.prj] # "unused" /\ status[req.prj] = "none"
    /\ soap = "xml" => status[req.prj] = "empty_project"
    /\ soap = "del" => status[req.prj] # "busy"
    /\ \A i \in 1..Len(queue) : queue[i] = StopItem => soap = "stop"

\* The inductive invariant behind OneOwner and OwnedIsBusy.
IInv == TypeOK /\ OneOwner /\ OwnedIsBusy /\ InOrder

\* The error level belongs to the job: it is cleared when the job is queued, and
\* up to its verdict nobody but the job raises it.  With IInv this is inductive.
LevelsOwn ==
    /\ \A i \in 1..Len(queue) : queue[i] # StopItem => level[queue[i].prj] = "ok"
    /\ worker = "run" => level[job.prj] = "ok"
    /\ worker = "judge" => (level[job.prj] = "ok" <=> outcome = "ok")

\* A directory is removed only together with its row, and the project of a job
\* has one.  Inductive with IInv as long as no commit fails.
DirsKept ==
    /\ soap \in {"create", "xml"} => dir[req.prj] = "present"
    /\ soap \in {"open", "take"} => dir[req.prj] \in {"present", "partial"}
    /\ \A p \in Projects :
          /\ status[p] # "none" /\ dir[p] = "removing" => soap = "del" /\ req.prj = p
          /\ JobPending(p) \/ AtSoap(p) => dir[p] \in {"present", "partial"}

\* What the SOAP thread knows when nobody is killed and no commit fails, even if
\* the status of projects at work is reset: inductive with RowsMatchDirs, and
\* both with BusyIsOwned.
RequestKnows ==
    /\ ~up => soap = "idle"
    /\ soap = "create" => status[req.prj] = "none" /\ dir[req.prj] = "present"
    /\ soap = "xml" => status[req.prj] \notin {"none", "busy"} /\ dir[req.prj] = "present"
    /\ soap = "del" => status[req.prj] # "busy" /\ dir[req.prj] \in {"removing", "gone"}

-----------------------------------------------------------------------------
(* The daemon implements the lock.                                         *)

\* Who holds a project, read off the daemon's state.
Holder(p) ==
    CASE JobPending(p) \/ AtSoap(p) -> "job"
      [] upload[p] # "none" -> "client"
      [] status[p] = "busy" /\ ~Owned(p) -> "blocked"
      [] OTHER -> "nobody"

Lock == INSTANCE ProjectLock WITH holder <- [p \in Projects |-> Holder(p)]

\* Every step of the daemon is a step of the lock or leaves it alone: in
\* particular no request gets at a project between set_busy and reset_busy.
RefinesLock == Lock!Spec

\* And every job gives its project back.
RefinesFairLock == Lock!FairSpec
=============================================================================
