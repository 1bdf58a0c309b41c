------------------------------ MODULE Updated ------------------------------
(***************************************************************************)
(* The update daemon of a device in the field (elbe updated).              *)
(*                                                                         *)
(* Two monitor threads look for update packages: one waits for files that  *)
(* are written into the update directory, one for USB drives.  Both handle *)
(* a file under update_lock: check its signature, refuse a downgrade,      *)
(* extract it, and let a forked child install its packages.  The main      *)
(* thread starts the monitors and builds the SOAP application, which writes*)
(* the status file a second time, next to them; then it serves requests,   *)
(* and apply_snapshot runs the same apply_update there, without the lock.  *)
(*                                                                         *)
(* The root file system is normally mounted readonly.  rw_access remembers *)
(* how it was mounted, remounts it for writing, and restores what it       *)
(* remembered; a file that is open for writing makes the kernel refuse to  *)
(* remount readonly, which is only logged.  The look and the remount are   *)
(* two steps, and a second thread may remount between them.                *)
(*                                                                         *)
(* Versions are numbers in the order of the comparison the code makes.     *)
(* What may happen to the daemon is selected by Events and recorded in     *)
(* seen, for the properties that speak about devices it did not happen to. *)
(***************************************************************************)
EXTENDS Naturals, Sequences, FiniteSets

CONSTANTS
    Files,            \* names of update packages, without .gpg
    Packages,         \* what the package of each name may be
    Base,             \* version of /etc/elbe_base.xml, installed at first
    Orig,             \* how the root file system is mounted at boot
    DowngradeAllowed, \* /var/cache/elbe/.downgrade_allowed exists
    Events,           \* what may happen, see EventKinds
    MaxEvents,        \* bound: how many kinds of events happen to a device
    None              \* a name that was not used yet

\* The threads: FileMonitor, USBMonitor, and the main thread.
Monitors == {"dir", "usb"}
Actors == Monitors \cup {"soap"}

\* crash: the power fails; snapshot: a client requests apply_snapshot; disk: an
\* extraction fails; half: the installation fails after it changed packages;
\* missing: the listed packages are not in the cache; stop: SIGTERM. One more is
\* not a choice but observed, early: since the device booted, a monitor passed a
\* file for installation, or SIGTERM came, while the main thread was starting.
EventKinds == {"crash", "snapshot", "disk", "half", "missing", "stop", "early"}

\* What a package does besides bringing packages: nothing, not even that, or one
\* kind of script. A broken one is no zip file, or has no readable new.xml.
Kinds == {"plain", "norepo", "pre", "post", "cmd", "broken"}
Signatures == {"good", "bad", "garbage", "none"}

ASSUME FilesAssumption == IsFiniteSet(Files)
ASSUME BaseAssumption == Base \in Nat \ {0}
ASSUME OrigAssumption == Orig \in {"ro", "rw"}
ASSUME EventsAssumption == Events \subseteq EventKinds \ {"early"} /\ MaxEvents \in Nat
ASSUME AllowedAssumption == DowngradeAllowed \in BOOLEAN
ASSUME PackagesAssumption ==
    /\ DOMAIN Packages = Files
    /\ \A f \in Files :
         Packages[f] \subseteq [signed : Signatures, kind : Kinds, ver : Nat \ {0}]
    /\ \A f \in Files : None \notin Packages[f]

VARIABLES
    \* On disk.
    pkg,       \* the package behind each name, or None
    dir,       \* the files in the update directory, <<name, extension>>
    repos,     \* the versions whose extracted package is in repo_dir
    scripts,   \* which of pre.sh and post.sh are in /var/cache/elbe
    installed, \* the version whose packages are installed
    version,   \* the content of /etc/updated_version, 0 if empty
    \* In the kernel and in the process.
    root,      \* how the root file system is mounted: ro or rw
    file,      \* the content of the status file
    todo,      \* per monitor: files it has been told about, oldest first
    pc,        \* where each thread is
    target,    \* per thread: the version it applies
    result,    \* per thread: what it will write into the status file
    saved,     \* per thread: mount_orig of its current rw_access, or unknown
    lock,      \* who holds update_lock
    nosign,    \* status.nosign
    stop,      \* status.stop
    main,      \* the main thread
    seen       \* history: the events that happened

diskVars == <<pkg, dir, repos, scripts, installed, version>>
mountVars == <<root, saved>>
mainVars == <<nosign, stop, main>>
vars == <<diskVars, mountVars, file, todo, pc, target, result, lock, mainVars,
          seen>>

\* The first UpdateStatus of run_command wrote "ready" before any thread was
\* started; the one of UpdateApplication is about to.
Booted ==
    [a \in Actors |-> IF a = "soap" THEN "finish" ELSE "idle"]
Results == [a \in Actors |-> IF a = "soap" THEN "ready" ELSE "none"]

Init ==
    /\ pkg = [f \in Files |-> None]
    /\ dir = {} /\ repos = {} /\ scripts = {}
    /\ installed = Base /\ version = Base
    /\ root = Orig
    /\ file = "ready"
    /\ todo = [m \in Monitors |-> <<>>]
    /\ pc = Booted
    /\ target = [a \in Actors |-> 0]
    /\ result = Results
    /\ saved = [a \in Actors |-> "unknown"]
    /\ lock = "none"
    /\ nosign \in BOOLEAN
    /\ stop = FALSE
    /\ main = "starting"
    /\ seen = {}

Goto(a, place) == pc' = [pc EXCEPT ![a] = place]

Happens(event) ==
    /\ event \in Events
    /\ seen' = seen \cup {event}
    /\ Cardinality(seen' \ {"early"}) <= MaxEvents

\* Something a monitor or a signal does while the main thread starts.
Early == seen' = IF main = "starting" THEN seen \cup {"early"} ELSE seen

-----------------------------------------------------------------------------
(* Mounts.                                                                 *)

\* Threads with a file open for writing: the status file, or whatever apt has
\* open until the child ends; and those that open and close files.
Holding == {"commit", "trunc", "write", "put"}
Writing == {"extract", "cache"}

Forget(a) == saved' = [saved EXCEPT ![a] = "unknown"]

\* rw_access.__init__
LookUp(a) ==
    /\ pc[a] \in {"prepare", "enter", "finish"} /\ saved[a] = "unknown"
    /\ saved' = [saved EXCEPT ![a] = root]
    /\ UNCHANGED <<diskVars, root, file, todo, pc, target, result, lock, mainVars, seen>>

\* rw_access.__enter__
RemountRw(a) ==
    /\ saved[a] # "unknown"
    /\ root' = IF saved[a] = "ro" THEN "rw" ELSE root
    /\ UNCHANGED saved

\* Mutant: how the file system is mounted is looked up on leaving.
Restore_LooksUp(a) ==
    /\ root' = root
    /\ Forget(a)

\* rw_access.__exit__. While another thread extracts, or apt fetches, a file may be
\* open or not.
Restore(a) ==
    LET others == {pc[b] : b \in Actors \ {a}}
    IN  /\ root' \in IF saved[a] = "rw" \/ others \cap Holding # {} THEN {root}
                     ELSE IF others \cap Writing # {} THEN {root, "ro"}
                     ELSE {"ro"}
        /\ Forget(a)

-----------------------------------------------------------------------------
(* The world around the daemon.                                            *)

Ext(p) == IF p.signed = "none" THEN "plain" ELSE "gpg"

AllPackages == UNION {Packages[f] : f \in Files}
Versions == {p.ver : p \in AllPackages} \cup {Base}
Contents(fs) == {c \in [fs -> AllPackages] : \A f \in fs : c[f] \in Packages[f]}

\* A new file in the update directory is closed after it was written.
Drop(f, p) ==
    /\ pkg[f] = None
    /\ pkg' = [pkg EXCEPT ![f] = p]
    /\ dir' = dir \cup {<<f, Ext(p)>>}
    /\ todo' = [todo EXCEPT !["dir"] = Append(@, <<f, Ext(p)>>)]
    /\ UNCHANGED <<repos, scripts, installed, version, mountVars, file, pc,
                   target, result, lock, mainVars, seen>>

\* A drive with update packages is mounted. Bound: one drive at a time.
PlugIn(packages) ==
    /\ todo["usb"] = <<>>
    /\ \A f \in DOMAIN packages : pkg[f] = None
    /\ pkg' = [f \in Files |-> IF f \in DOMAIN packages THEN packages[f] ELSE pkg[f]]
    /\ \E order \in [1 .. Cardinality(DOMAIN packages) -> DOMAIN packages] :
         /\ \A i, j \in DOMAIN order : order[i] = order[j] => i = j
         /\ todo' = [todo EXCEPT !["usb"] =
                       [i \in DOMAIN order |-> <<order[i], Ext(packages[order[i]])>>]]
    /\ UNCHANGED <<dir, repos, scripts, installed, version, mountVars, file, pc,
                   target, result, lock, mainVars, seen>>

\* The power fails; the device boots and starts the daemon. Nobody tells it of
\* the files that are still in the update directory. Bound: once.
Crash ==
    /\ "crash" \in Events \ seen
    /\ seen' = (seen \ {"early"}) \cup {"crash"}
    /\ Cardinality(seen') <= MaxEvents
    /\ root' = Orig
    /\ file' = "ready"
    /\ todo' = [m \in Monitors |-> <<>>]
    /\ pc' = Booted
    /\ target' = [a \in Actors |-> 0]
    /\ result' = Results
    /\ saved' = [a \in Actors |-> "unknown"]
    /\ lock' = "none"
    /\ stop' = FALSE
    /\ main' = "starting"
    /\ UNCHANGED <<diskVars, nosign>>

-----------------------------------------------------------------------------
(* handle_update_file up to the extraction.                                *)

Current(m) == Head(todo[m])
Package(m) == pkg[Current(m)[1]]
Plain(m) == <<Current(m)[1], "plain">>

\* The rest of the files after one was handled; the walk over a drive ends when
\* the daemon is to stop.
Rest(m) == IF m = "usb" /\ stop THEN <<>> ELSE Tail(todo[m])

\* handle_update_file, or the request, returns.
Leave(a) ==
    /\ Goto(a, "idle")
    /\ lock' = IF lock = a THEN "none" ELSE lock
    /\ target' = [target EXCEPT ![a] = 0]
    /\ result' = [result EXCEPT ![a] = "none"]

\* os.remove of a file that was handled, if it came by way of the directory.
Removed(m) == IF m = "dir" THEN dir \ {Plain(m)} ELSE dir

\* An exception leaves handle_update_file and, with it, the run of the thread;
\* in a request it is answered with a fault.
Die(a) ==
    /\ Goto(a, IF a = "soap" THEN "idle" ELSE "dead")
    /\ lock' = IF lock = a THEN "none" ELSE lock
    /\ target' = [target EXCEPT ![a] = 0]
    /\ result' = [result EXCEPT ![a] = "none"]

\* is_update_file: on a drive an unsigned file is passed over unless it is a zip
\* with a new.xml. (If that is unreadable, action_select will find out.)
Skip ==
    /\ pc["usb"] = "idle" /\ todo["usb"] # <<>>
    /\ Current("usb")[2] = "plain" /\ Package("usb").kind = "broken"
    /\ todo' = [todo EXCEPT !["usb"] = Rest("usb")]
    /\ UNCHANGED <<diskVars, mountVars, file, pc, target, result, lock, mainVars,
                   seen>>

Take(m) ==
    /\ pc[m] = "idle" /\ todo[m] # <<>>
    /\ Goto(m, "lock")
    /\ UNCHANGED <<diskVars, mountVars, file, todo, target, result, lock,
                   mainVars, seen>>

\* update_lock, and unsign_file for a signed file. It writes the unsigned file
\* next to it, which in the update directory is news for the monitor.
Unsign(m) ==
    /\ Current(m)[2] = "gpg"
    /\ LET left == IF m = "dir" THEN dir \ {Current(m)} ELSE dir
       IN  CASE Package(m).signed = "good" ->
                  /\ Goto(m, "select")
                  /\ lock' = m
                  /\ dir' = IF m = "dir" THEN left \cup {Plain(m)} ELSE dir
                  /\ todo' = IF m = "dir"
                             THEN [todo EXCEPT ![m] = Append(@, Plain(m))] ELSE todo
                  /\ UNCHANGED <<target, result>>
             [] Package(m).signed = "bad" ->
                  /\ Leave(m)
                  /\ dir' = left
                  /\ todo' = [todo EXCEPT ![m] = Rest(m)]
             [] OTHER ->
                  /\ Die(m)
                  /\ UNCHANGED <<dir, todo>>

Accept(m) ==
    /\ Current(m)[2] = "plain" /\ nosign
    /\ Goto(m, "select")
    /\ lock' = m
    /\ UNCHANGED <<dir, todo, target, result>>

Ignore(m) ==
    /\ Current(m)[2] = "plain" /\ ~nosign
    /\ Leave(m)
    /\ todo' = [todo EXCEPT ![m] = Rest(m)]
    /\ UNCHANGED dir

\* Mutant: there is no lock between the monitors.
Acquire_NoLock(m) ==
    /\ pc[m] = "lock"
    /\ Unsign(m) \/ Accept(m) \/ Ignore(m)
    /\ UNCHANGED <<pkg, repos, scripts, installed, version, mountVars, file,
                   mainVars, seen>>

Acquire(m) ==
    /\ pc[m] = "lock" /\ lock = "none"
    /\ Unsign(m) \/ Accept(m) \/ Ignore(m)
    /\ UNCHANGED <<pkg, repos, scripts, installed, version, mountVars, file,
                   mainVars, seen>>

\* is_downgrade
Downgrade(v) == v < (IF version = 0 THEN Base ELSE version)

Refused(p) == p.kind = "broken" \/ (Downgrade(p.ver) /\ ~DowngradeAllowed)

\* action_select up to reject_downgrade. A monitor may be told of the unsigned
\* file after that was removed, and ZipFile raises.
Select(m) ==
    /\ pc[m] = "select"
    /\ CASE m = "dir" /\ Plain(m) \notin dir ->
              Die(m) /\ UNCHANGED <<dir, todo, seen>>
         [] Refused(Package(m)) ->
              /\ Leave(m)
              /\ dir' = Removed(m)
              /\ todo' = [todo EXCEPT ![m] = Rest(m)]
              /\ UNCHANGED seen
         [] OTHER ->
              /\ Goto(m, "prepare")
              /\ target' = [target EXCEPT ![m] = Package(m).ver]
              /\ Early
              /\ UNCHANGED <<dir, todo, result, lock>>
    /\ UNCHANGED <<pkg, repos, scripts, installed, version, mountVars, file,
                   mainVars>>

-----------------------------------------------------------------------------
(* The rest of action_select.                                              *)

PrepareBegin(m) ==
    /\ pc[m] = "prepare"
    /\ Goto(m, "extract")
    /\ RemountRw(m)
    /\ UNCHANGED <<diskVars, file, todo, target, result, lock, mainVars, seen>>

\* Mutant: an OSError while extracting is only logged.
ExtractFails_GoesOn(m) ==
    /\ pc[m] = "extract"
    /\ \/ root = "ro" /\ UNCHANGED <<repos, seen>>
       \/ /\ root = "rw" /\ Happens("disk")
          /\ repos' \in {repos, repos \cup {target[m]}}
    /\ Restore(m)
    /\ Goto(m, "enter")
    /\ UNCHANGED <<pkg, dir, scripts, installed, version, file, todo, target,
                   result, lock, mainVars>>

\* An OSError while extracting ends the handling; new.xml may be there already.
ExtractFails(m) ==
    /\ pc[m] = "extract"
    /\ \/ root = "ro" /\ UNCHANGED <<repos, seen>>
       \/ /\ root = "rw" /\ Happens("disk")
          /\ repos' \in {repos, repos \cup {target[m]}}
    /\ Restore(m)
    /\ Leave(m)
    /\ dir' = Removed(m)
    /\ todo' = [todo EXCEPT ![m] = Rest(m)]
    /\ UNCHANGED <<pkg, scripts, installed, version, file, mainVars>>

\* execute() splits bytes at a string: a script in cmd/ ends the thread. Without
\* a repo/ there is nothing more to do.
Extract(m) ==
    /\ pc[m] = "extract" /\ root = "rw"
    /\ repos' = repos \cup {target[m]}
    /\ scripts' = scripts \cup ({Package(m).kind} \cap {"pre", "post"})
    /\ Restore(m)
    /\ CASE Package(m).kind = "cmd" -> Die(m) /\ UNCHANGED <<dir, todo>>
         [] Package(m).kind = "norepo" ->
              /\ Leave(m)
              /\ dir' = Removed(m)
              /\ todo' = [todo EXCEPT ![m] = Rest(m)]
         [] OTHER -> Goto(m, "enter") /\ UNCHANGED <<dir, todo, target, result, lock>>
    /\ UNCHANGED <<pkg, installed, version, file, mainVars, seen>>

-----------------------------------------------------------------------------
(* apply_update, for a monitor or for a request.                           *)

Ends(a, how) ==
    /\ Goto(a, "exit")
    /\ result' = [result EXCEPT ![a] = how]

\* apply_snapshot. Bound: once.
Request(v) ==
    /\ main = "serving" /\ pc["soap"] = "idle"
    /\ "snapshot" \notin seen /\ Happens("snapshot")
    /\ target' = [target EXCEPT !["soap"] = v]
    /\ Goto("soap", "enter")
    /\ UNCHANGED <<diskVars, mountVars, file, todo, result, lock, mainVars>>

Unreadable(a) == a = "soap" /\ target[a] \notin repos \cup {Base}

\* Mutant: a request without an xml file goes on without a result.
ApplyEnter_NoResult(a) ==
    /\ pc[a] = "enter"
    /\ RemountRw(a)
    /\ CASE Unreadable(a) -> Goto(a, "exit") /\ UNCHANGED result
         [] "pre" \in scripts -> Ends(a, "error")
         [] OTHER -> Goto(a, "cache") /\ UNCHANGED result
    /\ UNCHANGED <<diskVars, file, todo, target, lock, mainVars, seen>>

\* An xml file that cannot be read makes apply_update return as if all went
\* well; pre.sh always raises, in execute().
ApplyEnter(a) ==
    /\ pc[a] = "enter"
    /\ RemountRw(a)
    /\ CASE Unreadable(a) -> Ends(a, "OK")
         [] "pre" \in scripts -> Ends(a, "error")
         [] OTHER -> Goto(a, "cache") /\ UNCHANGED result
    /\ UNCHANGED <<diskVars, file, todo, target, lock, mainVars, seen>>

\* The child: the package cache and set_progress. On a readonly file system, or
\* if apt fails, it ends with an exception, perhaps before set_progress.
UpdateCache(a) ==
    /\ pc[a] = "cache"
    /\ \/ root = "rw" /\ file' = "in_progress" /\ Goto(a, "commit") /\ UNCHANGED result
       \/ file' \in {file, "in_progress"} /\ Ends(a, "error")
    /\ UNCHANGED <<diskVars, mountVars, todo, target, lock, mainVars, seen>>

\* Mutant: the exit code of the child is not looked at.
Commit_IgnoresExit(a) ==
    /\ pc[a] = "commit"
    /\ \/ /\ installed' = target[a]
          /\ Goto(a, "trunc")
          /\ UNCHANGED <<result, seen>>
       \/ /\ Ends(a, "OK")
          /\ UNCHANGED <<installed, seen>>
       \/ /\ Happens("half")
          /\ Ends(a, "OK")
          /\ installed' = target[a]
    /\ UNCHANGED <<pkg, dir, repos, scripts, version, mountVars, file, todo,
                   target, lock, mainVars>>

\* The child: install and purge. mark_install only logs what is not available.
Commit(a) ==
    /\ pc[a] = "commit"
    /\ \/ /\ installed' = target[a]
          /\ Goto(a, "trunc")
          /\ UNCHANGED <<result, seen>>
       \/ /\ Happens("missing")
          /\ Goto(a, "trunc")
          /\ UNCHANGED <<result, installed>>
       \/ /\ Ends(a, "error")
          /\ UNCHANGED <<installed, seen>>
       \/ /\ Happens("half")
          /\ Ends(a, "error")
          /\ installed' = target[a]
    /\ UNCHANGED <<pkg, dir, repos, scripts, version, mountVars, file, todo,
                   target, lock, mainVars>>

\* The child: open(..., 'w') of the version file.
Truncate(a) ==
    /\ pc[a] = "trunc"
    /\ version' = 0
    /\ Goto(a, "write")
    /\ UNCHANGED <<pkg, dir, repos, scripts, installed, mountVars, file, todo,
                   target, result, lock, mainVars, seen>>

\* The child writes the version and ends; post.sh always raises, as pre.sh does.
WriteVersion(a) ==
    /\ pc[a] = "write"
    /\ version' = target[a]
    /\ Ends(a, IF "post" \in scripts THEN "error" ELSE "OK")
    /\ UNCHANGED <<pkg, dir, repos, scripts, installed, mountVars, file, todo,
                   target, lock, mainVars, seen>>

\* Mutant: the handling returns when apply_update raises.
ApplyExit_NoFinish(a) ==
    /\ pc[a] = "exit"
    /\ Restore(a)
    /\ IF result[a] = "error"
       THEN /\ Leave(a)
            /\ IF a = "soap"
               THEN UNCHANGED <<dir, todo>>
               ELSE dir' = Removed(a) /\ todo' = [todo EXCEPT ![a] = Rest(a)]
       ELSE Goto(a, "finish") /\ UNCHANGED <<dir, todo, target, result, lock>>
    /\ UNCHANGED <<pkg, repos, scripts, installed, version, file, mainVars, seen>>

ApplyExit(a) ==
    /\ pc[a] = "exit"
    /\ Restore(a)
    /\ Goto(a, "finish")
    /\ UNCHANGED <<diskVars, file, todo, target, result, lock, mainVars, seen>>

-----------------------------------------------------------------------------
(* set_finished and the end of the handling, or the start of the main      *)
(* thread: both write the status file.                                     *)

FinishEnter(a) ==
    /\ pc[a] = "finish"
    /\ RemountRw(a)
    /\ Goto(a, "open")
    /\ UNCHANGED <<diskVars, file, todo, target, result, lock, mainVars, seen>>

\* The file is opened in __enter__, so that __exit__ does not follow if it fails;
\* the main thread does not get to serve then.
OpenStatus(a) ==
    /\ pc[a] = "open"
    /\ IF root = "ro"
       THEN /\ Die(a) /\ Forget(a)
            /\ main' = IF a = "soap" /\ main = "starting" THEN "gone" ELSE main
            /\ UNCHANGED file
       ELSE /\ Goto(a, "put")
            /\ file' = "empty"
            /\ UNCHANGED <<target, result, lock, saved, main>>
    /\ UNCHANGED <<diskVars, root, todo, nosign, stop, seen>>

PutStatus(a) ==
    /\ pc[a] = "put"
    /\ file' = result[a]
    /\ Restore(a)
    /\ Leave(a)
    /\ IF a = "soap"
       THEN UNCHANGED <<dir, todo>>
       ELSE dir' = Removed(a) /\ todo' = [todo EXCEPT ![a] = Rest(a)]
    /\ UNCHANGED <<pkg, repos, scripts, installed, version, mainVars, seen>>

-----------------------------------------------------------------------------
(* Start and stop.                                                         *)

Serve ==
    /\ main = "starting" /\ pc["soap"] = "idle"
    /\ main' = "serving"
    /\ UNCHANGED <<diskVars, mountVars, file, todo, pc, target, result, lock,
                   nosign, stop, seen>>

\* The handler takes three arguments and is given two. Its TypeError ends
\* serve_forever, and only then run_command sets stop. (A signal that arrives
\* during a request is not modelled.)
Sigterm ==
    /\ "stop" \in Events
    /\ main = "serving" /\ pc["soap"] = "idle"
    /\ main' = "joining" /\ stop' = TRUE
    /\ UNCHANGED <<diskVars, mountVars, file, todo, pc, target, result, lock,
                   nosign, seen>>

\* Before serve_forever it ends the main thread, and nobody will stop the monitors.
\* It leaves a status file that was opened, written or not, by way of __exit__
\* unless it arrives in there; and not what was only remounted.
SigtermEarly ==
    /\ "stop" \in Events
    /\ main = "starting"
    /\ main' = "gone"
    /\ Early
    /\ Die("soap")
    /\ IF pc["soap"] = "put"
       THEN file' \in {"empty", "ready"} /\ (Restore("soap") \/ (UNCHANGED root /\ Forget("soap")))
       ELSE Forget("soap") /\ UNCHANGED <<root, file>>
    /\ UNCHANGED <<diskVars, todo, nosign, stop>>

\* Mutant: the observer of the USB monitor is not told to stop.
EndMonitor_DirOnly(m) ==
    /\ m = "dir" /\ stop /\ pc[m] = "idle"
    /\ Goto(m, "done")
    /\ UNCHANGED <<diskVars, mountVars, file, todo, target, result, lock,
                   mainVars, seen>>

EndMonitor(m) ==
    /\ stop /\ pc[m] = "idle"
    /\ Goto(m, "done")
    /\ UNCHANGED <<diskVars, mountVars, file, todo, target, result, lock,
                   mainVars, seen>>

Join ==
    /\ main = "joining"
    /\ \A m \in Monitors : pc[m] \in {"done", "dead"}
    /\ main' = "ended"
    /\ UNCHANGED <<diskVars, mountVars, file, todo, pc, target, result, lock,
                   nosign, stop, seen>>

-----------------------------------------------------------------------------
Apply(a) ==
    \/ LookUp(a)
    \/ ApplyEnter(a) \/ UpdateCache(a) \/ Commit(a) \/ Truncate(a)
    \/ WriteVersion(a) \/ ApplyExit(a)
    \/ FinishEnter(a) \/ OpenStatus(a) \/ PutStatus(a)

Handle(m) ==
    \/ Take(m) \/ Acquire(m) \/ Select(m)
    \/ PrepareBegin(m) \/ ExtractFails(m) \/ Extract(m)
    \/ Apply(m)
    \/ EndMonitor(m)

Next ==
    \/ \E f \in Files : \E p \in Packages[f] : Drop(f, p)
    \/ \E fs \in (SUBSET Files) \ {{}} : \E ps \in Contents(fs) : PlugIn(ps)
    \/ Crash
    \/ Skip
    \/ \E m \in Monitors : Handle(m)
    \/ \E v \in Versions : Request(v)
    \/ Apply("soap")
    \/ Serve
    \/ Sigterm \/ SigtermEarly
    \/ Join

Spec == Init /\ [][Next]_vars

\* The threads are scheduled, and the programs they run end.
Fairness ==
    /\ \A m \in Monitors : WF_vars(Handle(m))
    /\ WF_vars(Skip)
    /\ WF_vars(Apply("soap"))
    /\ WF_vars(Serve) /\ WF_vars(Join)

FairSpec == Spec /\ Fairness

-----------------------------------------------------------------------------
(* Properties.                                                             *)

Places == {"idle", "lock", "select", "prepare", "extract", "enter", "cache",
           "commit", "trunc", "write", "exit", "finish", "open", "put", "done",
           "dead"}

\* The shape of the state. Beyond types: update_lock is held by whoever is past it.
TypeOK ==
    /\ pkg \in [Files -> AllPackages \cup {None}]
    /\ dir \subseteq Files \X {"gpg", "plain"}
    /\ repos \subseteq Nat \ {0} /\ scripts \subseteq {"pre", "post"}
    /\ installed \in Nat \ {0} /\ version \in Nat
    /\ root \in {"ro", "rw"} /\ saved \in [Actors -> {"ro", "rw", "unknown"}]
    /\ file \in {"ready", "empty", "in_progress", "OK", "error"}
    /\ todo \in [Monitors -> Seq(Files \X {"gpg", "plain"})]
    /\ pc \in [Actors -> Places]
    /\ target \in [Actors -> Nat]
    /\ result \in [Actors -> {"none", "ready", "OK", "error"}]
    /\ lock \in Monitors \cup {"none"}
    /\ nosign \in BOOLEAN /\ stop \in BOOLEAN
    /\ main \in {"starting", "serving", "joining", "ended", "gone"}
    /\ seen \subseteq EventKinds

Outside == {"idle", "lock", "select", "prepare", "enter", "finish", "done", "dead"}
AtRest == \A a \in Actors : pc[a] \in {"idle", "lock", "done", "dead"}

\* The main thread entered no block next to a monitor: no request did, and when the
\* daemon started no file was there to be handled yet, nor a signal.
Apart == seen \cap {"snapshot", "early"} = {}

\* reject_downgrade: monitors never install an older version than the one that
\* is installed, whichever of them gets which file first, unless the power
\* failed, an installation failed halfway, or a client asked for a snapshot
\* (which may be requested next to an update that has passed its check).
NoDowngrade ==
    [][installed' < installed =>
         DowngradeAllowed \/ seen' \cap {"crash", "half", "snapshot"} # {}]_vars

\* rw_access: outside of every rw_access block the root file system is mounted
\* as it was at boot, however the blocks were left; as long as the main thread
\* entered none next to a monitor, for a request or while it started.
RootRestored ==
    (\A a \in Actors : pc[a] \in Outside) /\ Apart => root = Orig

\* A device whose status file says OK has the packages of the version it says
\* it has, if all packages were available and no snapshot was requested (a
\* request for one that does not exist ends in OK as well).
OkIsInstalled ==
    file = "OK" /\ seen \cap {"missing", "snapshot"} = {} => installed = version

\* The progress of an update ends: when no thread handles anything, the status
\* file does not say that an update is in progress, even after power failures; as
\* long as the main thread wrote its own status next to no monitor.
ProgressEnds ==
    AtRest /\ Apart => file \notin {"in_progress", "empty"}

\* The way back: what is installed can be applied as a snapshot again, since
\* action_select installs nothing it could not extract into repo_dir.
SnapshotKept == {installed, version} \subseteq repos \cup {Base, 0}

\* A good signed package in the update directory gets its verdict: its version
\* or a newer one is there, or the status file says error; unless the daemon
\* stops, its thread was killed by an exception, or it was disturbed: by a power
\* failure, a failing extraction, a request, or a main thread that was starting and
\* remounted the file system under the extraction.
UpdatesSettle ==
    \A f \in Files : \A p \in Packages[f] :
        p.signed = "good" /\ p.kind = "plain" =>
          (pkg[f] = p /\ <<f, "gpg">> \in dir
           ~> \/ version >= p.ver \/ file = "error"
              \/ stop \/ pc["dir"] = "dead"
              \/ seen \cap {"crash", "disk"} # {} \/ ~Apart)

\* shutdown: once the daemon is told to stop, the monitors end, dead or alive,
\* whatever they were waiting for, and the process with them.
StopTerminates == stop ~> main = "ended" \/ "crash" \in seen

-----------------------------------------------------------------------------
(* The inductive invariant behind the safety properties.                   *)

Locked == Places \ {"idle", "lock", "done", "dead"}
Applying == Locked \ {"select"}
Inside == Places \ Outside
Ended == {"exit", "finish", "open", "put"}

\* A monitor handles the first of the files it was told about, and all of these
\* are packages.
TodoKnown ==
    /\ \A m \in Monitors : pc[m] \in Locked \cup {"lock"} => todo[m] # <<>>
    /\ \A m \in Monitors : \A i \in DOMAIN todo[m] :
         pkg[todo[m][i][1]] \in AllPackages
    /\ pc["soap"] \in Applying \cup {"idle"}

\* Without requests the main thread only writes its own status, before it serves.
MainStarts ==
    "snapshot" \notin seen =>
      /\ pc["soap"] \in {"finish", "open", "put", "idle"}
      /\ pc["soap"] # "idle" => main = "starting" /\ result["soap"] = "ready"

\* Whoever applies a version knows it, and its result once the child has ended.
Prepared ==
    \A a \in Actors :
      /\ pc[a] \in Applying \ Ended => target[a] # 0
      /\ pc[a] \in Ended => result[a] # "none"

\* update_lock is held by the only monitor that is past it.
LockHeld == \A m \in Monitors : pc[m] \in Locked => lock = m

\* What is being installed was extracted.
TargetKept ==
    \A a \in Actors :
      \/ pc[a] \in {"cache", "commit", "trunc", "write"}
      \/ a \in Monitors /\ pc[a] = "enter"
      => target[a] \in repos \cup {Base}

\* While the main thread stays apart: at most one thread is at blocks, and one that
\* looked remembers how the file system was mounted at boot, and has it writable
\* inside of its block.
MountKept ==
    Apart =>
      /\ main = "starting" => \A m \in Monitors : pc[m] \notin Applying
      /\ \A a \in Actors :
           /\ saved[a] \in {"unknown", Orig}
           /\ pc[a] \in Inside => saved[a] = Orig /\ root = "rw"

\* On an undisturbed device: the version file is not older than what is
\* installed, except while it is being rewritten; nor is what is to be installed.
VersionKept ==
    ~DowngradeAllowed /\ seen \cap {"crash", "half", "snapshot"} = {} =>
      /\ \/ version >= installed
         \/ \E m \in Monitors : pc[m] \in {"trunc", "write"}
      /\ \A m \in Monitors :
           pc[m] \in {"prepare", "extract", "enter", "cache", "commit", "trunc", "write"}
             => target[m] >= installed

\* While the main thread stays apart: an update in progress is the one a monitor
\* is at.
StatusKept ==
    Apart =>
      /\ file = "in_progress" =>
           \E m \in Monitors :
             pc[m] \in {"commit", "trunc", "write", "exit", "finish", "open"}
      /\ file = "empty" => \E a \in Actors : pc[a] = "put"

\* Without requests and missing packages: the status file says OK only while
\* nothing is being installed, and a result is OK only once version and packages
\* agree.
OkKept ==
    seen \cap {"missing", "snapshot"} = {} =>
      /\ file = "OK" =>
           /\ installed = version
           /\ \A m \in Monitors : pc[m] \notin {"commit", "trunc", "write"}
      /\ \A m \in Monitors :
           /\ pc[m] \in {"trunc", "write"} => installed = target[m]
           /\ pc[m] \in {"exit", "finish", "open", "put"} /\ result[m] = "OK"
                => installed = version

IInv ==
    /\ TypeOK /\ TodoKnown /\ Prepared /\ LockHeld
    /\ TargetKept /\ SnapshotKept
    /\ MainStarts /\ MountKept /\ RootRestored
    /\ VersionKept
    /\ StatusKept /\ ProgressEnds
    /\ OkKept /\ OkIsInstalled
=============================================================================
