-------------------------------- MODULE Submit --------------------------------
(***************************************************************************)
(* `elbe initvm submit' and the end of `elbe initvm create': an XML file   *)
(* is preprocessed, built in the initvm, the results are downloaded and    *)
(* the project is deleted.  While this goes on the command serves the      *)
(* user's package directories to the build from threads of its own         *)
(* (repodir.py), and other users give commands of Initvm and of `elbe      *)
(* control'.                                                               *)
(*                                                                         *)
(* The daemon is seen from outside: a project has a status, a job that     *)
(* makes it busy, and files.  Every user has at most the project of the    *)
(* last submission; the ones kept from earlier ones are not followed.      *)
(***************************************************************************)
EXTENDS Initvm, Preprocess

CONSTANTS
    Inputs,        \* what is submitted: documents with the variants asked for
    Options,       \* sets of options: "sdk", "skip" (-download), "keep" (-files)
    Files,         \* names of results, "validation.txt" among them
    Products,      \* what a job may have made of them when it ends
    BaseName,      \* the last component of each name: images may be in directories
    MaxInterrupts, \* bound: how often users press Ctrl-C
    SshPort, SoapPort

\* The documentation does not allow both of them.
ASSUME InputsAssumption ==
    \A i \in Inputs :
        i.doc \in Document /\ i.variants \subseteq Names
        /\ ArchivesApart(i.doc, i.variants)
ASSUME FilesAssumption == Products \subseteq SUBSET Files

VARIABLES
    input,    \* what is submitted, or NoInput
    opts,     \* the options of the command
    tmp,      \* the file Repodir writes next to the XML exists
    servers,  \* the web servers of the command that have a thread
    status,   \* of the user's project, "none" without one
    job,      \* what the daemon does for it
    results,  \* its files
    todo,     \* files to download, projects to delete
    got,      \* what was downloaded, and is in the user's directory
    removed,  \* the status the project had when the submission deleted it
    foreign,  \* an `elbe control' of somebody changed the project
    interrupts

NoInput == [doc |-> <<>>, variants |-> {}]

prjVars == <<status, job, results, removed, foreign>>
cmdVars == <<input, opts, tmp, servers, todo, got>>
submitVars == <<prjVars, cmdVars, interrupts>>
vars == <<initvmVars, submitVars>>

Init ==
    /\ InitvmInit
    /\ input = [u \in Users |-> NoInput]
    /\ opts = [u \in Users |-> {}]
    /\ tmp = [u \in Users |-> FALSE]
    /\ servers = [u \in Users |-> {}]
    /\ status = [u \in Users |-> "none"]
    /\ job = [u \in Users |-> "none"]
    /\ results = [u \in Users |-> {}]
    /\ todo = [u \in Users |-> {}]
    /\ got = [u \in Users |-> {}]
    /\ removed = [u \in Users |-> "no"]
    /\ foreign = [u \in Users |-> FALSE]
    /\ interrupts = 0

\* The command goes on; or it raises or exits inside of `with Repodir'.
Leave(u, c) ==
    /\ pc' = [pc EXCEPT ![u] = "leave"]
    /\ input' = [input EXCEPT ![u] = NoInput]
KeepInput == UNCHANGED input
KeepRest == UNCHANGED <<guestVars, fixedVars, cmd, interrupts>>

\* A request to the daemon about a project that exists.
Answers(u) == daemon = "up" /\ status[u] # "none"
Idle(u) == Answers(u) /\ status[u] # "busy"

-----------------------------------------------------------------------------
(* Repodir.__enter__ and preprocess_file.                                  *)

\* The new XML is written next to the old one; a directory without a suite
\* or with a bad key is an error (127), as is an ISO image without a valid
\* source.xml (140, 141).
RepodirEnter(u) ==
    /\ pc[u] = "repodir"
    /\ \/ \E i \in Inputs :
             IF RepodirFails(i.doc)
             THEN End(u, 127) /\ UNCHANGED <<input, tmp>>
             ELSE /\ GoTo(u, "serve")
                  /\ input' = [input EXCEPT ![u] = i]
                  /\ tmp' = [tmp EXCEPT ![u] = TRUE]
       \/ End(u, 140) /\ UNCHANGED <<input, tmp>>
    /\ UNCHANGED <<opts, servers, todo, got, prjVars>> /\ KeepRest

\* One thread after the other.
StartServer(u) ==
    /\ pc[u] = "serve"
    /\ LET missing == Served(input[u].doc) \ servers[u]
       IN  IF missing = {}
           THEN GoTo(u, "preprocess") /\ UNCHANGED servers
           ELSE /\ servers' = [servers EXCEPT ![u] =
                                 @ \union {CHOOSE s \in missing : TRUE}]
                /\ UNCHANGED pc
    /\ UNCHANGED <<input, opts, tmp, todo, got, prjVars>> /\ KeepRest

Rejected(i) == PreprocessFails(i.doc, i.variants)
\* What is uploaded, for an input that is not rejected.
Output(i) == XmlPreprocess(Repodirs(i.doc), i.variants, "none", SshPort, SoapPort)

PreprocessFile(u) ==
    /\ pc[u] = "preprocess"
    /\ IF Rejected(input[u]) THEN Leave(u, 1) ELSE GoTo(u, "new") /\ KeepInput
    /\ UNCHANGED <<opts, tmp, servers, todo, got, prjVars>> /\ KeepRest

-----------------------------------------------------------------------------
(* _submit_and_dl_result: upload and build.                                *)

NewProject(u) ==
    /\ pc[u] = "new"
    /\ IF daemon = "up"
       THEN /\ GoTo(u, "set_xml") /\ KeepInput
            /\ status' = [status EXCEPT ![u] = "empty"]
            /\ job' = [job EXCEPT ![u] = "none"]
            /\ results' = [results EXCEPT ![u] = {}]
            /\ got' = [got EXCEPT ![u] = {}]
            /\ removed' = [removed EXCEPT ![u] = "no"]
            /\ foreign' = [foreign EXCEPT ![u] = FALSE]
       ELSE Leave(u, 1) /\ UNCHANGED <<got, prjVars>>
    /\ UNCHANGED <<opts, tmp, servers, todo>> /\ KeepRest

\* set_xml; the options of the command matter from here on.  The CD-ROM or
\* base image is uploaded next, if there is one.
SetXml(u) ==
    /\ pc[u] = "set_xml"
    /\ IF Idle(u)
       THEN /\ GoTo(u, "upload")
            /\ \E o \in Options : opts' = [opts EXCEPT ![u] = o]
            /\ status' = [status EXCEPT ![u] = "needs_build"]
            /\ input' = [input EXCEPT ![u] = NoInput]
       ELSE Leave(u, 1) /\ UNCHANGED <<opts, status>>
    /\ UNCHANGED <<tmp, servers, todo, got, job, results, removed, foreign>>
    /\ KeepRest
Upload(u) ==
    /\ pc[u] = "upload"
    /\ \/ GoTo(u, "build") /\ KeepInput
       \/ ~Idle(u) /\ Leave(u, 1)
    /\ UNCHANGED <<opts, tmp, servers, todo, got, prjVars>> /\ KeepRest

\* service.build and service.build_sdk: a fault when the project is busy, has
\* no XML or is gone.
Request(u, what, label) ==
    /\ IF Idle(u) /\ status[u] # "empty"
       THEN /\ GoTo(u, label) /\ KeepInput
            /\ status' = [status EXCEPT ![u] = "busy"]
            /\ job' = [job EXCEPT ![u] = what]
       ELSE Leave(u, 1) /\ UNCHANGED <<status, job>>
    /\ UNCHANGED <<opts, tmp, servers, todo, got, results, removed, foreign>>
    /\ KeepRest
Build(u) == pc[u] = "build" /\ Request(u, "build", "wait")
BuildSdk(u) == pc[u] = "build_sdk" /\ Request(u, "sdk", "wait_sdk")

\* wait_busy returns when the build was successful, and raises otherwise or
\* when the retries are used up: the project is kept then (133).
Wait(u) ==
    /\ pc[u] = "wait" /\ ~(Answers(u) /\ status[u] = "busy")
    /\ IF Answers(u) /\ status[u] = "build_done"
       THEN GoTo(u, IF "sdk" \in opts[u] THEN "build_sdk" ELSE "validate")
            /\ KeepInput
       ELSE Leave(u, 133)
    /\ UNCHANGED <<opts, tmp, servers, todo, got, prjVars>> /\ KeepRest

\* Mutant: the failure of the SDK is printed but does not end the command.
WaitSdk_GoOn(u) ==
    /\ pc[u] = "wait_sdk" /\ ~(Answers(u) /\ status[u] = "busy")
    /\ GoTo(u, "validate") /\ KeepInput
    /\ UNCHANGED <<opts, tmp, servers, todo, got, prjVars>> /\ KeepRest

WaitSdk(u) ==
    /\ pc[u] = "wait_sdk" /\ ~(Answers(u) /\ status[u] = "busy")
    /\ IF Answers(u) /\ status[u] = "build_done"
       THEN GoTo(u, "validate") /\ KeepInput
       ELSE Leave(u, 135)
    /\ UNCHANGED <<opts, tmp, servers, todo, got, prjVars>> /\ KeepRest

-----------------------------------------------------------------------------
(* _submit_and_dl_result: the results.                                     *)

\* Without validation.txt the log is printed (136), if there is one (137).
Validate(u) ==
    /\ pc[u] = "validate"
    /\ IF Answers(u) /\ "validation.txt" \in results[u]
       THEN GoTo(u, "list") /\ KeepInput
       ELSE Leave(u, IF Answers(u) THEN 136 ELSE 137)
    /\ UNCHANGED <<opts, tmp, servers, todo, got, prjVars>> /\ KeepRest

List(u) ==
    /\ pc[u] = "list"
    /\ CASE ~Idle(u) -> Leave(u, 1) /\ UNCHANGED todo
         [] Idle(u) /\ "skip" \in opts[u] -> Leave(u, 0) /\ UNCHANGED todo
         [] OTHER -> /\ GoTo(u, "download") /\ KeepInput
                     /\ todo' = [todo EXCEPT ![u] = results[u]]
    /\ UNCHANGED <<opts, tmp, servers, got, prjVars>> /\ KeepRest

\* What is in the directory after f: a file of the same name is overwritten.
Written(files, f) == {g \in files : BaseName[g] # BaseName[f]} \union {f}

\* download_file: a file that is gone or a daemon that is away raises, the
\* fifth broken transfer exits (170).  get_files writes to the base name of
\* the result.
Download(u) ==
    /\ pc[u] = "download" /\ todo[u] # {}
    /\ LET f == CHOOSE x \in todo[u] : TRUE
       IN  IF Answers(u) /\ f \in results[u]
           THEN \/ /\ got' = [got EXCEPT ![u] = Written(@, f)]
                   /\ todo' = [todo EXCEPT ![u] = @ \ {f}]
                   /\ GoTo(u, "download") /\ KeepInput
                \/ Leave(u, 170) /\ todo' = [todo EXCEPT ![u] = {}] /\ UNCHANGED got
           ELSE Leave(u, 1) /\ todo' = [todo EXCEPT ![u] = {}] /\ UNCHANGED got
    /\ UNCHANGED <<opts, tmp, servers, prjVars>> /\ KeepRest
Downloaded(u) ==
    /\ pc[u] = "download" /\ todo[u] = {}
    /\ IF "keep" \in opts[u] THEN Leave(u, 0)
       ELSE GoTo(u, "delete") /\ KeepInput
    /\ UNCHANGED <<opts, tmp, servers, todo, got, prjVars>> /\ KeepRest

Delete(u) ==
    /\ pc[u] = "delete"
    /\ IF Idle(u)
       THEN /\ Leave(u, 0)
            /\ removed' = [removed EXCEPT ![u] = status[u]]
            /\ status' = [status EXCEPT ![u] = "none"]
       ELSE Leave(u, 1) /\ UNCHANGED <<removed, status>>
    /\ UNCHANGED <<opts, tmp, servers, todo, got, job, results, foreign>>
    /\ KeepRest

-----------------------------------------------------------------------------
(* Repodir.__exit__, and Ctrl-C.                                           *)

\* From here on nothing depends on what was downloaded.
RemoveOutput(u) ==
    /\ pc[u] = "leave"
    /\ GoTo(u, "shutdown")
    /\ tmp' = [tmp EXCEPT ![u] = FALSE]
    /\ opts' = [opts EXCEPT ![u] = {}]
    /\ todo' = [todo EXCEPT ![u] = {}]
    /\ got' = [got EXCEPT ![u] = {}]
    /\ removed' = [removed EXCEPT ![u] = "no"]
    /\ results' = [results EXCEPT ![u] = IF status[u] = "none" THEN {} ELSE @]
    /\ UNCHANGED <<input, servers, status, job, foreign>> /\ KeepRest

\* Mutant: the servers are closed without ending their threads.
ShutdownServer_Close(u) ==
    /\ pc[u] = "shutdown"
    /\ GoTo(u, "idle") /\ UNCHANGED servers
    /\ UNCHANGED <<input, opts, tmp, todo, got, prjVars>> /\ KeepRest

ShutdownServer(u) ==
    /\ pc[u] = "shutdown"
    /\ IF servers[u] = {} THEN GoTo(u, "idle") /\ UNCHANGED servers
       ELSE /\ servers' = [servers EXCEPT ![u] = @ \ {CHOOSE s \in @ : TRUE}]
            /\ UNCHANGED pc
    /\ UNCHANGED <<input, opts, tmp, todo, got, prjVars>> /\ KeepRest

Inside == {"preprocess", "new", "set_xml", "upload", "build", "wait", "build_sdk",
           "wait_sdk", "validate", "list", "download", "delete"}

\* KeyboardInterrupt leaves `with Repodir' like any other exception.  While
\* the threads start, and while they are shut down, nobody catches it who
\* would stop the rest of them, and the process waits for those for ever.
Pressed(u) ==
    /\ interrupts < MaxInterrupts
    /\ interrupts' = interrupts + 1
    /\ todo' = [todo EXCEPT ![u] = {}]
    /\ UNCHANGED <<guestVars, fixedVars, cmd, opts, servers, got, prjVars>>
InterruptInside(u) ==
    /\ pc[u] \in Inside /\ Leave(u, 130)
    /\ Pressed(u) /\ UNCHANGED tmp
InterruptServers(u) ==
    /\ pc[u] \in {"serve", "shutdown"}
    /\ GoTo(u, IF servers[u] = {} THEN "idle" ELSE "hang")
    /\ tmp' = [tmp EXCEPT ![u] = FALSE]
    /\ input' = [input EXCEPT ![u] = NoInput]
    /\ Pressed(u)
InterruptOther(u) ==
    /\ pc[u] \notin Inside \union {"idle", "serve", "leave", "shutdown", "hang"}
    /\ End(u, 130)
    /\ Pressed(u) /\ UNCHANGED <<tmp, input>>

-----------------------------------------------------------------------------
(* elbe control.                                                           *)

\* One request of another client: it needs the daemon (13) and gets a fault
\* when the project is busy or unknown (6).  That reset_project does not ask
\* for busy is left to ElbeDaemon.
Control(u) ==
    /\ pc[u] = "control"
    /\ IF daemon # "up" THEN End(u, 13) /\ UNCHANGED prjVars
       ELSE \E v \in Users, request \in {"build", "reset_project", "del_project"} :
              IF ~Idle(v) \/ (request = "build" /\ status[v] = "empty")
              THEN End(u, 6) /\ UNCHANGED prjVars
              ELSE /\ End(u, 0)
                   /\ foreign' = [foreign EXCEPT ![v] = TRUE]
                   /\ status' = [status EXCEPT ![v] =
                        CASE request = "build" -> "busy"
                          [] request = "reset_project" -> "needs_build"
                          [] OTHER -> "none"]
                   /\ job' = [job EXCEPT ![v] =
                        IF request = "build" THEN "build" ELSE @]
                   /\ results' = [results EXCEPT ![v] =
                        IF request = "build" THEN @ ELSE {}]
                   /\ UNCHANGED removed
    /\ UNCHANGED cmdVars /\ KeepRest

\* del_all_projects: the list first, then one request after the other; the
\* first fault ends the command.
ControlDeleteAll(u) ==
    /\ pc[u] = "control" /\ daemon = "up"
    /\ GoTo(u, "del_all")
    /\ todo' = [todo EXCEPT ![u] = {v \in Users : status[v] # "none"}]
    /\ UNCHANGED <<input, opts, tmp, servers, got, prjVars>> /\ KeepRest
DeleteNext(u) ==
    /\ pc[u] = "del_all"
    /\ IF todo[u] = {} THEN End(u, 0) /\ UNCHANGED <<todo, status, results, foreign>>
       ELSE LET v == CHOOSE x \in todo[u] : TRUE
            IN  IF Idle(v)
                THEN /\ todo' = [todo EXCEPT ![u] = @ \ {v}]
                     /\ status' = [status EXCEPT ![v] = "none"]
                     /\ results' = [results EXCEPT ![v] = {}]
                     /\ foreign' = [foreign EXCEPT ![v] = TRUE]
                     /\ GoTo(u, "del_all")
                ELSE /\ End(u, 6)
                     /\ todo' = [todo EXCEPT ![u] = {}]
                     /\ UNCHANGED <<status, results, foreign>>
    /\ UNCHANGED <<input, opts, tmp, servers, got, job, removed>>
    /\ KeepRest

-----------------------------------------------------------------------------
(* The daemon.                                                             *)

\* A build replaces the files, an SDK is added to them; a job that fails
\* leaves what it has got so far.
JobEnds(v) ==
    /\ daemon = "up" /\ job[v] # "none"
    /\ job' = [job EXCEPT ![v] = "none"]
    /\ \E s \in {"build_done", "build_failed"}, new \in Products :
          /\ status' = [status EXCEPT ![v] = s]
          /\ results' = [results EXCEPT ![v] =
                IF job[v] = "sdk" THEN @ \union new ELSE new]
    /\ UNCHANGED <<initvmVars, removed, foreign, cmdVars, interrupts>>

\* With the guest the jobs are gone, but not the status in the database; the
\* projects are gone when nobody has the disk any more.
Lose ==
    /\ job' = IF daemon' = "off" THEN [v \in Users |-> "none"] ELSE job
    /\ status' = IF daemon' = "off" /\ ~disk' THEN [v \in Users |-> "none"] ELSE status
    /\ UNCHANGED <<results, removed, foreign, cmdVars, interrupts>>

-----------------------------------------------------------------------------
SubmitStep(u) ==
    \/ RepodirEnter(u) \/ StartServer(u) \/ PreprocessFile(u)
    \/ NewProject(u) \/ SetXml(u) \/ Upload(u) \/ Build(u) \/ BuildSdk(u)
    \/ Wait(u) \/ WaitSdk(u)
    \/ Validate(u) \/ List(u) \/ Download(u) \/ Downloaded(u) \/ Delete(u)
    \/ RemoveOutput(u) \/ ShutdownServer(u)
    \/ Control(u) \/ ControlDeleteAll(u) \/ DeleteNext(u)

\* What a process does once its command was given.
Process(u) ==
    \/ VMStep(u) /\ UNCHANGED submitVars
    \/ (Destroy(u) \/ Undefine(u) \/ RemoveDirectory(u)) /\ Lose
    \/ SubmitStep(u)

Next ==
    \/ \E u \in Users : \/ (Command(u) \/ NoLibvirt(u)) /\ UNCHANGED submitVars
                        \/ Process(u)
                        \/ InterruptInside(u) \/ InterruptServers(u)
                        \/ InterruptOther(u)
                        \/ JobEnds(u)
    \/ Boot /\ UNCHANGED submitVars
    \/ PowerOff /\ Lose

Spec == Init /\ [][Next]_vars

\* Processes run, a guest boots and shuts down when it was asked to, and the
\* daemon finishes its jobs.
Fairness ==
    /\ \A u \in Users : WF_vars(Process(u)) /\ WF_vars(JobEnds(u))
    /\ WF_vars(Boot /\ UNCHANGED submitVars)
    /\ WF_vars(PowerOff /\ Lose)
FairSpec == Spec /\ Fairness

-----------------------------------------------------------------------------
(* Properties.                                                             *)

\* What is uploaded is what the file says for the variants asked for: the
\* steps of finetuning in their order, nothing missing and nothing else
\* (KeepVariants, Merge and Repodirs work on one tree one after the other),
\* and nothing in it that the daemon's schema does not accept.
AsWanted ==
    \A u \in Users : pc[u] \in {"new", "set_xml"} =>
        LET i == input[u]
            out == Output(i)
        IN  /\ InOrder(i.doc, i.variants, out)
            /\ Complete(i.doc, i.variants, out)
            /\ UpToDate(out)

\* The user has the result, or another one of the project whose base name is
\* the same: results in different directories overwrite each other.
Namesakes(files) == {f \in Files : \E g \in files : BaseName[g] = BaseName[f]}
Saved(u) == Namesakes(got[u] \intersect results[u])

\* Unless another client changed the project meanwhile, a submission deletes
\* it only when the last job succeeded and every result of it was downloaded
\* (Saved names the exception), whatever failed on the way, with the initvm
\* stopped and started in between.
NothingLost ==
    \A u \in Users : removed[u] # "no" /\ ~foreign[u] =>
        removed[u] = "build_done" /\ results[u] \subseteq Saved(u)

\* The process hangs with server threads, or waits for a job that went down
\* with its guest while the project stays busy in the database.
Stuck(u) ==
    \/ pc[u] = "hang"
    \/ pc[u] \in {"wait", "wait_sdk"} /\ status[u] = "busy" /\ job[u] = "none"

\* Whatever the other users do, every command comes to its end, and then no
\* server of its is left and no file beside the XML; except for the two ways
\* to wait for ever that Stuck names.
CommandsEnd ==
    \A u \in Users : pc[u] # "idle" ~>
        Stuck(u) \/ (pc[u] = "idle" /\ servers[u] = {} /\ ~tmp[u])
-----------------------------------------------------------------------------
(* The inductive invariant under NothingLost.                              *)

VMLabels == {"idle", "create", "make", "define", "start", "launch", "ensure",
             "restart", "relaunch", "probe", "stop", "stopping", "ask", "destroy",
             "undefine", "remove", "repodir", "control"}
Labels == VMLabels \union Inside \union {"serve", "leave", "shutdown", "hang", "del_all"}

TypeOK ==
    /\ domain \in {"none", "shutoff", "running", "shutdown"}
    /\ pc \in [Users -> Labels]
    /\ status \in [Users -> {"none", "empty", "needs_build", "busy", "build_done",
                             "build_failed"}]
    /\ job \in [Users -> {"none", "build", "sdk"}]
    /\ foreign \in [Users -> BOOLEAN]
    /\ results \in [Users -> SUBSET Files]
    /\ got \in [Users -> SUBSET Files]
    /\ todo \in [Users -> SUBSET (Files \union Users)]
    /\ DOMAIN removed = Users

\* A job's project is busy, so that nobody but the job changes it.
JobIsBusy(u) == job[u] # "none" => status[u] = "busy"
\* From validation on the project is done or went with the disk.
DoneOrGone(u) ==
    pc[u] \in {"validate", "list", "download", "delete"} /\ ~foreign[u]
        => status[u] \in {"build_done", "none"}
\* A result is downloaded or still to be; none is left to be before the deletion.
NoneSkipped(u) ==
    /\ pc[u] = "download" /\ ~foreign[u] => results[u] \subseteq Saved(u) \union todo[u]
    /\ pc[u] = "delete" /\ ~foreign[u] => results[u] \subseteq Saved(u)
\* What was deleted had been downloaded, and is not built again.
RemovedSafely(u) ==
    removed[u] # "no" =>
        /\ pc[u] = "leave" /\ status[u] = "none"
        /\ foreign[u] \/ (removed[u] = "build_done" /\ results[u] \subseteq Saved(u))

Kept(u) == JobIsBusy(u) /\ DoneOrGone(u) /\ NoneSkipped(u) /\ RemovedSafely(u)
IInv == TypeOK /\ \A u \in Users : Kept(u)

\* Under AsWanted: a submission keeps what it was given until that is uploaded,
\* and xmlpreprocess did not reject it.
InputKept(u) ==
    /\ pc[u] \in {"serve", "preprocess", "new", "set_xml"} => input[u] \in Inputs
    /\ pc[u] \in {"new", "set_xml"} => ~Rejected(input[u])
InputInv ==
    /\ input \in [Users -> Inputs \union {NoInput}]
    /\ \A u \in Users : InputKept(u)
=============================================================================
