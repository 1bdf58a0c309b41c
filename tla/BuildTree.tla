------------------------------ MODULE BuildTree ------------------------------
(* The file trees of one project (elbepack/elbeproject.py, rfs.py,            *)
(* efilesystem.py): the build environment `chroot', the `target' that is      *)
(* extracted from it, and the sysroots of an SDK. Every job enters and leaves *)
(* these trees as context managers: files of the host are copied over the     *)
(* tree's own, /proc, /sys and /dev are mounted, and the repository of the    *)
(* project moves into the tree, so that apt can use it there.                 *)
(*                                                                            *)
(* A job is the list of operations still to do (todo), most of them commands  *)
(* that may fail, and the list of contexts it has entered (stack), which a    *)
(* failure leaves in reverse order.                                           *)
EXTENDS CdRepo, Sequences

CONSTANTS
    Saved,       \* files with an Excursion that restores them
    Writers,     \* trees whose packages or commands may write such a file
    HostHas,     \* files of Excursed that exist on the host
    Own, Host,   \* whose file it is: of the tree, or a copy of the host's
    None,
    MaxFaults,   \* bound: kills, reboots, and failures on the way in or out of a tree
    MaxLater     \* bound: jobs while a tree is spoilt

Trees == {"chroot", "target", "sysroot", "host"}
Excursed == Saved \union {"policy-rc.d"}    \* the one whose origin is elsewhere

ASSUME FilesAssumption ==
    /\ "resolv.conf" \in Saved /\ "policy-rc.d" \notin Saved
    /\ HostHas \subseteq Excursed /\ "policy-rc.d" \in HostHas
    /\ Writers \subseteq Trees
    /\ Own # Host /\ Own # None /\ Host # None
    /\ MaxFaults \in Nat /\ MaxLater \in Nat

VARIABLES
    phase,       \* "idle", "load" (ElbeProject.__init__) or "run"
    todo, stack, \* the job
    there,       \* trees that exist
    version,     \* trees with an etc/elbe_version
    built,       \* ghost: the packages of the chroot were committed: no, yes, or torn
                 \* (a removal was cut short)
    mounts,      \* how often /proc, /sys, /dev and /dev/pts are mounted
    file, orig,  \* the excursed files, and what is saved as <name>.orig
    home,        \* builddir/repo: none, new (without a pool), pool
    inside,      \* trees that hold the repository and its local.list
    had,         \* ghost: files the tree itself has
    faults,      \* how many there were
    spoilt,      \* ghost: trees that one hit on the way in or out, or while entered
    later        \* jobs started since there is a spoilt tree

treevars == <<there, version, built, mounts, file, orig, had>>
repovars == <<home, inside>>
vars == <<phase, todo, stack, treevars, repovars, faults, spoilt, later, cdvars>>
-----------------------------------------------------------------------------
(* Jobs as lists of operations; T is the tree of the one at hand.             *)
Next1(name) == phase # "idle" /\ todo # <<>> /\ Head(todo).op = name
T == Head(todo).t

Op(name, t) == <<[op |-> name, t |-> t]>>
Rmtree(t) == Op("rmtree", t)
Work(t) == Op("work", t)

\* `with env:' of a BuildEnv, and `with rfs:' of a ChRootFilesystem.
InEnv(t, body) == Op("borrow", t) \o Op("enter", t) \o body \o Op("leave", t)
InRfs(t, body) == Op("enter rfs", t) \o body \o Op("leave", t)

\* initialize_dirs adds the keys and writes the sources.list in the tree, and
\* create_apt_prefs the preferences.
InitializeDirs(t) == InRfs(t, Work(t))
CreateAptPrefs(t) == Work(t)

\* seed_etc sets the password, the names and the console of the target.
SeedEtc(t) == Work(t)

\* BuildEnv.__init__: debootstrap unless there is an etc/elbe_version.
BuildEnv(t, clean) ==
    (IF clean THEN Rmtree(t) ELSE <<>>)
        \o Op("debootstrap", t) \o InitializeDirs(t) \o CreateAptPrefs(t)

Load == Op("repo", "chroot") \o Op("open", "chroot") \o Rmtree("sysroot")

InstallPackages(t) ==
    InEnv(t, Work(t) \o Op("end_excursion", t) \o Op("commit", t))

CleanTarget == Rmtree("target") \o Op("mkdir", "target")

\* Mutant: the tree counts as complete before its packages are installed.
Build_EarlyVersion ==
    Op("ensure", "chroot") \o Op("pbuild", "chroot") \o Op("version", "chroot")
        \o InstallPackages("chroot") \o CleanTarget
        \o Op("extract", "target") \o Work("target")

Build ==
    Op("ensure", "chroot") \o Op("pbuild", "chroot")
        \o InstallPackages("chroot") \o Op("version", "chroot") \o CleanTarget
        \o Op("extract", "target") \o Work("target") \o InstallPackages("chroot")
        \o Op("finetuning", "target") \o Work("target")
        \o Op("cdroms", "chroot") \o Op("finetuning", "target") \o Work("target")

BuildSysroot ==
    Rmtree("sysroot") \o Op("mkdir", "sysroot") \o BuildEnv("sysroot", TRUE)
        \o InstallPackages("sysroot") \o InEnv("sysroot", Op("commit", "sysroot"))
        \o Op("version", "sysroot") \o InRfs("sysroot", Work("sysroot")) \o Work("sysroot")

BuildHostSysroot ==
    Rmtree("host") \o Op("mkdir", "host") \o BuildEnv("host", TRUE)
        \o InEnv("host", Op("commit", "host")) \o Op("strip", "host")

\* build_sysroot is a job of its own and the first half of build_sdk.
BuildSdk == BuildSysroot \o Op("sdk", "host")

\* `elbe chroot' and `elbe chroot --target'.
Shells == {InEnv("chroot", Op("commit", "chroot"))}
            \union (IF "target" \in there THEN {InRfs("target", Op("commit", "target"))}
                    ELSE {})

Jobs == {Build, BuildSdk, Op("cdroms", "chroot"), Op("include", "chroot")}
            \union (IF "chroot" \in there THEN Shells ELSE {})

\* Finetuning actions (elbepack/finetuning.py): rm, mkdir, cp, mv, ln and their
\* variants work on the tree from outside; adduser and addgroup, file,
\* raw_cmd, command and purge, buildenv_command, and updated.
PlainAction == Work("target")
UserAction == InRfs("target", Work("target"))
FileAction == Op("commit", "target")
CommandAction == InRfs("target", Op("commit", "target"))
BuildenvCommand == InEnv("chroot", Op("commit", "chroot"))
UpdatedAction ==
    InRfs("target", Work("target")) \o InEnv("chroot", Work("chroot")) \o Work("target")

has_full_buildenv == "chroot" \in version

Finetuning == {<<>>, PlainAction, UserAction, FileAction, CommandAction, BuildenvCommand,
               UpdatedAction}

\* The sources of a <pbuilder> section are fetched in the chroot.
Pbuild == {<<>>, InEnv("chroot", Work("chroot")) \o Op("include", "chroot")}

\* The binary CD - which fails when there is one - the source CDs, both or none, of
\* the sysroot if there is one. The
\* sources of other trees are added: of the chroot, and of what a build of the
\* SDK that failed has left.
MkCdrom(t) ==
    LET other(o) == IF o # t /\ o \in there
                    THEN BuildEnv(o, FALSE) \o InEnv(o, SeedEtc(o)) ELSE <<>>
        binary == Work(t)
        source == other("chroot") \o other("host")
                    \o Op("open cd", t) \o Op("fill cd", t) \o Op("burn cd", t)
    IN {<<>>, binary, source, binary \o source}
BuildCdroms ==
    LET t == IF "sysroot" \in there THEN "sysroot" ELSE "chroot"
    IN {BuildEnv(t, FALSE) \o InEnv(t, SeedEtc(t)) \o InEnv(t, Op("mk cdrom", t))}

\* What an operation stands for depends on the trees or on the recipe.
Meaning(name) ==
    CASE name = "open" -> {IF "chroot" \in there THEN BuildEnv("chroot", FALSE) ELSE <<>>}
      [] name = "ensure" ->
            {IF has_full_buildenv THEN <<>>
             ELSE Op("mkdir", "chroot") \o BuildEnv("chroot", TRUE)}
      [] name = "pbuild" -> Pbuild
      [] name = "finetuning" -> Finetuning
      [] name = "cdroms" -> BuildCdroms
      [] name = "mk cdrom" -> MkCdrom(T)
      [] name = "sdk" -> {<<>>, BuildHostSysroot \o Work("host") \o Rmtree("host")}
      [] name = "run" -> Jobs
Composed == {"open", "ensure", "pbuild", "finetuning", "cdroms", "mk cdrom", "sdk"}
-----------------------------------------------------------------------------
Init ==
    /\ phase = "idle" /\ todo = <<>> /\ stack = <<>>
    /\ there = {} /\ version = {} /\ built = "no"
    /\ mounts = [t \in Trees |-> 0]
    /\ file = [t \in Trees |-> [f \in Excursed |-> None]] /\ orig = file
    /\ had = [t \in Trees |-> {}]
    /\ home = "none" /\ inside = {}
    /\ faults = 0 /\ spoilt = {} /\ later = 0
    /\ CdInit

Done == todo' = Tail(todo) /\ UNCHANGED <<phase, stack>>
Same == UNCHANGED <<faults, spoilt, later>>
Rest == UNCHANGED cdvars /\ Same

\* One of the faults that the bound is for; what it hit is spoilt.
Fault(hit) ==
    /\ faults < MaxFaults /\ faults' = faults + 1 /\ spoilt' = spoilt \union hit
    /\ UNCHANGED later

Start ==
    /\ phase = "idle" /\ (spoilt # {} => later < MaxLater)
    /\ \/ phase' = "load" /\ todo' = Load \o Op("run", "chroot")
       \/ phase' = "run" /\ todo' = Rmtree("target") \o Rmtree("chroot")   \* reset_project
    /\ later' = IF spoilt # {} THEN later + 1 ELSE 0
    /\ UNCHANGED <<stack, treevars, repovars, cdvars, faults, spoilt>>

Run == /\ Next1("run")
       /\ phase' = "run" /\ \E body \in Meaning("run") : todo' = body
       /\ UNCHANGED <<stack, treevars, repovars>> /\ Rest

Expand ==
    /\ \E name \in Composed : Next1(name) /\ \E p \in Meaning(name) : todo' = p \o Tail(todo)
    /\ UNCHANGED <<phase, stack, treevars, repovars>> /\ Rest

End == /\ phase # "idle" /\ todo = <<>> /\ stack = <<>>
       /\ phase' = "idle" /\ CloseRepo
       /\ UNCHANGED <<todo, stack, treevars, repovars>> /\ Same

\* Mutant: an exception skips the contexts the job has entered.
Raise_NoUnwind == todo' = <<>> /\ stack' = <<>> /\ UNCHANGED phase

\* An exception ends the program; Leave then takes the contexts off the stack.
Raise == todo' = <<>> /\ UNCHANGED <<phase, stack>>

\* A command fails, or whatever else the operation at hand may raise.
Fail ==
    /\ \E name \in {"work", "end_excursion", "extract", "include", "open cd", "fill cd",
                     "burn cd"} : Next1(name)
    /\ Raise
    /\ UNCHANGED <<treevars, repovars>> /\ Rest

DoWork == Next1("work") /\ Done /\ UNCHANGED <<treevars, repovars>> /\ Rest

\* ProjectRepo opens the repository or creates an empty one.
OpenProjectRepo ==
    /\ Next1("repo") /\ Done
    /\ home' = IF home = "none" THEN "new" ELSE home
    /\ UNCHANGED <<treevars, inside>> /\ Rest

\* A package that was built or uploaded.
IncludePackage ==
    /\ Next1("include") /\ Done
    /\ home' = "pool"
    /\ UNCHANGED <<treevars, inside>> /\ Rest

Mkdir ==
    /\ Next1("mkdir") /\ Done
    /\ there' = there \union {T}
    /\ UNCHANGED <<version, built, mounts, file, orig, had, repovars>> /\ Rest

\* What becomes of the packages of the chroot when something is done to a tree.
Becomes(t, b) == built' = IF t = "chroot" THEN b ELSE built

\* The content of a tree, with what was left in it, is removed.
Wiped(t) ==
    /\ there' = there \ {t} /\ Becomes(t, "no")
    /\ version' = version \ {t} /\ inside' = inside \ {t}
    /\ file' = [file EXCEPT ![t] = [f \in Excursed |-> None]]
    /\ orig' = [orig EXCEPT ![t] = [f \in Excursed |-> None]]
    /\ had' = [had EXCEPT ![t] = {}]
    /\ spoilt' = spoilt \ {t}
    /\ UNCHANGED <<mounts, home, faults, later, cdvars>>

\* A removal that an error or a kill has cut short: anything may still be there,
\* the etc/elbe_version too.
Torn(t) ==
    /\ Becomes(t, "torn")
    /\ version' \in {version, version \ {t}} /\ inside' \in {inside, inside \ {t}}
    /\ \E gone \in SUBSET Excursed :
          /\ file' = [file EXCEPT ![t] = [f \in Excursed |-> IF f \in gone THEN None ELSE @[f]]]
          /\ orig' = [orig EXCEPT ![t] = [f \in Excursed |-> IF f \in gone THEN None ELSE @[f]]]
          /\ had' = [had EXCEPT ![t] = @ \ gone]
    /\ Raise /\ UNCHANGED <<there, mounts, home, cdvars>>

\* What is mounted below the tree is emptied with it, and cannot be removed.
RemovalFails(t) == Torn(t) /\ IF mounts[t] = 0 THEN Fault({}) ELSE Same

RemoveTree ==
    /\ Next1("rmtree")
    /\ \/ mounts[T] = 0 /\ Wiped(T) /\ Done
       \/ RemovalFails(T)

\* build_host_sysroot removes /dev, /etc, /proc ... of the finished tree.
Strip ==
    /\ Next1("strip")
    /\ \/ /\ mounts[T] = 0 /\ Done
          /\ version' = version \ {T} /\ Becomes(T, "no")
          /\ file' = [file EXCEPT ![T] = [f \in Excursed |-> IF f \in Saved THEN None ELSE @[f]]]
          /\ orig' = [orig EXCEPT ![T] = [f \in Excursed |-> None]]
          /\ had' = [had EXCEPT ![T] = {}]
          /\ UNCHANGED <<there, mounts, repovars>> /\ Rest
       \/ RemovalFails(T)

\* debootstrap writes a policy-rc.d and later removes the host's resolv.conf. A
\* command that fails removes the tree, another exception leaves it as it is.
Debootstrap ==
    /\ Next1("debootstrap")
    /\ \/ T \in version /\ Done /\ UNCHANGED <<treevars, repovars>> /\ Rest
       \/ /\ T \notin version /\ Done
          /\ there' = there \union {T} /\ Becomes(T, "no")
          /\ file' = [file EXCEPT ![T]["policy-rc.d"] = Own, ![T]["resolv.conf"] = None]
          /\ had' = [had EXCEPT ![T] = @ \ Excursed]
          /\ UNCHANGED <<version, mounts, orig, repovars>> /\ Rest
       \/ T \notin version /\ mounts[T] = 0 /\ Wiped(T) /\ Raise
       \/ T \notin version /\ RemovalFails(T)
       \/ /\ T \notin version /\ Raise
          /\ there' = there \union {T} /\ Becomes(T, "no")
          /\ UNCHANGED <<version, mounts, file, orig, had, repovars>> /\ Rest
-----------------------------------------------------------------------------
(* Contexts.                                                                 *)

\* BuildEnv.__enter__ up to cdrom_mount: a repository with packages moves into
\* the tree. mv refuses to replace the one that is there.
Lends(t) == t \notin {"host", "target"} /\ home = "pool"
Borrow ==
    /\ Next1("borrow")
    /\ IF ~Lends(T) THEN Done /\ UNCHANGED repovars
       ELSE IF T \in inside THEN Raise /\ UNCHANGED repovars
       ELSE home' = "none" /\ inside' = inside \union {T} /\ Done
    /\ UNCHANGED treevars /\ Rest

\* Excursion.do for some files: the tree's own is saved, the host's copied in its
\* place.
Excurse(t, saved, copied) ==
    /\ orig' = [orig EXCEPT ![t] = [f \in Excursed |->
                    IF f \in saved \intersect Saved /\ file[t][f] # None THEN file[t][f] ELSE @[f]]]
    /\ file' = [file EXCEPT ![t] = [f \in Excursed |->
                    IF f \in copied \intersect HostHas THEN Host
                    ELSE IF f \in saved \intersect Saved THEN None ELSE @[f]]]

Enters == Next1("enter") \/ Next1("enter rfs")

\* __enter__ of the tree: the excursions, then the mounts.
Enter ==
    /\ Enters
    /\ stack' = <<[t |-> T, env |-> Head(todo).op = "enter", ended |-> {}]>> \o stack
    /\ todo' = Tail(todo) /\ UNCHANGED phase
    /\ Excurse(T, Excursed, Excursed)
    /\ mounts' = [mounts EXCEPT ![T] = @ + 1]
    /\ there' = there \union {T}
    /\ UNCHANGED <<version, built, had, repovars>> /\ Rest

\* A command of __enter__ fails: the entry for the repository, the mount of the
\* CD-ROM, a copy, a mount, or a key at the end. There is no __exit__ then, and
\* nothing of what was done is undone.
EnterFails ==
    /\ Enters /\ Raise
    /\ \/ Excurse(T, {}, {}) /\ UNCHANGED mounts /\ Fault({T} \intersect inside)
       \/ /\ \E f \in Excursed, saved \in SUBSET Excursed :
                f \in saved /\ Excurse(T, saved, saved \ {f})
          /\ UNCHANGED mounts /\ Fault({T})
       \/ /\ Excurse(T, Excursed, Excursed)
          /\ mounts' \in {mounts, [mounts EXCEPT ![T] = @ + 1]} /\ Fault({T})
    /\ there' = there \union {T}
    /\ UNCHANGED <<version, built, had, repovars, cdvars>>

\* _undo_excursion: a file that was modified is kept; .orig goes in any case.
Unmodified(t, f) == file[t][f] = Host \/ (file[t][f] = None /\ f \notin HostHas)

\* Mutant: the copy of the host's file is removed, the saved one not restored.
Undone_NoRestore(t, f) == IF ~Unmodified(t, f) THEN file[t][f] ELSE None

Undone(t, f) ==
    IF ~Unmodified(t, f) THEN file[t][f]
    ELSE IF f \in Saved THEN orig[t][f] ELSE None

Undo(t, fs) ==
    /\ file' = [file EXCEPT ![t] = [f \in Excursed |-> IF f \in fs THEN Undone(t, f) ELSE @[f]]]
    /\ orig' = [orig EXCEPT ![t] = [f \in Excursed |-> IF f \in fs THEN None ELSE @[f]]]

\* install_packages: the packages may want to manage resolv.conf.
EndExcursion ==
    /\ Next1("end_excursion")
    /\ Undo(T, {"resolv.conf"} \ Head(stack).ended)
    /\ stack' = <<[Head(stack) EXCEPT !.ended = @ \union {"resolv.conf"}]>> \o Tail(stack)
    /\ todo' = Tail(todo)
    /\ UNCHANGED <<phase, there, version, built, mounts, had, repovars>> /\ Rest

\* __exit__, at the end of the block or while an exception is on its way: undo,
\* umount, and the repository goes home - if nothing has taken its place there.
\* One that was left in a spoilt tree takes the place of the one that is lent.
Leaves == stack # <<>> /\ (Next1("leave") \/ todo = <<>>)
Leave ==
    /\ Leaves
    /\ LET frame == Head(stack)
           t == frame.t
           back == frame.env /\ t \in inside
       IN /\ Undo(t, Excursed \ frame.ended)
          /\ mounts' = [mounts EXCEPT ![t] = @ - 1]
          /\ stack' = Tail(stack)
          /\ todo' = IF todo = <<>> \/ (back /\ home # "none") THEN <<>> ELSE Tail(todo)
          /\ home' = IF back /\ home = "none" THEN "pool" ELSE home
          /\ inside' = IF back /\ home = "none" THEN inside \ {t} ELSE inside
          /\ spoilt' = IF back /\ home = "none" /\ t \in spoilt THEN spoilt \union inside
                       ELSE spoilt
    /\ UNCHANGED <<phase, there, version, built, had, faults, later, cdvars>>

\* A step of __exit__ fails: for one of the files, whose copy may be removed then,
\* or at an umount. The other ones are done all the same, but the repository is not
\* moved back, which may be the step that fails.
UndoBreaks(t, due, f) ==
    LET others == due \ {f}
    IN /\ file' = [file EXCEPT ![t] = [g \in Excursed |->
                       IF g \in others THEN Undone(t, g) ELSE IF g = f THEN None ELSE @[g]]]
       /\ orig' = [orig EXCEPT ![t] = [g \in Excursed |-> IF g \in others THEN None ELSE @[g]]]
LeaveFails ==
    /\ Leaves
    /\ LET frame == Head(stack)
           t == frame.t
           due == Excursed \ frame.ended
       IN \/ /\ Undo(t, due)
             /\ mounts' = [mounts EXCEPT ![t] = @ - 1] /\ Fault({t} \intersect inside)
          \/ Undo(t, due) /\ UNCHANGED mounts /\ Fault({t})
          \/ /\ \E f \in due : \/ Undo(t, due \ {f})
                            \/ UndoBreaks(t, due, f)
             /\ mounts' = [mounts EXCEPT ![t] = @ - 1] /\ Fault({t})
    /\ stack' = Tail(stack) /\ todo' = <<>>
    /\ UNCHANGED <<phase, there, version, built, had, repovars, cdvars>>
-----------------------------------------------------------------------------
\* Packages, a shell or a finetuning action: any of the files may be written, also
\* when it fails then. (A package that apt does not know is logged and left out.)
Commit ==
    /\ Next1("commit")
    /\ \E written \in SUBSET (IF T \in Writers THEN Saved ELSE {}) :
          /\ file' = [file EXCEPT ![T] = [f \in Excursed |-> IF f \in written THEN Own ELSE @[f]]]
          /\ had' = [had EXCEPT ![T] = @ \union written]
    /\ \/ Done /\ Becomes(T, IF built = "torn" THEN "torn" ELSE "yes")
       \/ Raise /\ UNCHANGED built
    /\ UNCHANGED <<there, version, mounts, orig, repovars>> /\ Rest

\* dump_elbeversion; an IOError is only logged. (Nobody reads the target's.)
DumpVersion ==
    /\ Next1("version") /\ Done
    /\ version' \in {version, version \union {T}}
    /\ UNCHANGED <<there, built, mounts, file, orig, had, repovars>> /\ Rest

\* extract_target copies the chroot as it is.
Extract ==
    /\ Next1("extract") /\ Done
    /\ file' = [file EXCEPT !["target"] = file["chroot"]]
    /\ orig' = [orig EXCEPT !["target"] = orig["chroot"]]
    /\ had' = [had EXCEPT !["target"] = had["chroot"]]
    /\ spoilt' = IF "chroot" \in spoilt THEN spoilt \union {"target"} ELSE spoilt
    /\ UNCHANGED <<there, version, built, mounts, repovars, faults, later, cdvars>>

\* mk_source_cdrom for one component.
SourceCd ==
    /\ \/ Next1("open cd") /\ OpenRepo /\ Done
       \/ /\ Next1("fill cd") /\ left # {} /\ UNCHANGED <<phase, todo, stack>>
          /\ \E p \in left : IncludeDsc(p) \/ SkipDsc(p)
       \/ Next1("fill cd") /\ left = {} /\ Done /\ UNCHANGED cdvars
       \/ Next1("fill cd") /\ (\E p \in left : VolumeFails(p)) /\ Raise
       \/ Next1("burn cd") /\ BuildIso /\ Done
    /\ UNCHANGED <<treevars, repovars>> /\ Same
-----------------------------------------------------------------------------
\* The daemon is killed; a reboot of the initvm takes the mounts as well.
InUse == {stack[i].t : i \in DOMAIN stack} \union (IF Next1("enter") THEN {T} ELSE {})
Kill ==
    /\ phase # "idle" /\ Fault(InUse)
    /\ phase' = "idle" /\ todo' = <<>> /\ stack' = <<>>
    /\ mounts' \in {mounts, [t \in Trees |-> 0]} /\ CloseRepo
    /\ UNCHANGED <<there, version, built, file, orig, had, repovars>>

\* The bound on later jobs is not a deadlock.
Terminating == phase = "idle" /\ spoilt # {} /\ later = MaxLater /\ UNCHANGED vars

Next ==
    \/ Start \/ Run \/ Expand \/ End \/ Fail \/ DoWork
    \/ OpenProjectRepo \/ IncludePackage \/ Mkdir \/ RemoveTree \/ Strip \/ Debootstrap
    \/ Borrow \/ Enter \/ EnterFails \/ EndExcursion \/ Leave \/ LeaveFails
    \/ Commit \/ DumpVersion \/ Extract \/ SourceCd
    \/ Kill \/ Terminating

Spec == Init /\ [][Next]_vars
-----------------------------------------------------------------------------
(* Properties.                                                               *)

\* Whichever command of a job fails, a tree nobody works in has nothing mounted,
\* no file of the host and no saved one, the files it had of its own, and not
\* the repository of the project; so has the target that is copied from it. A
\* kill of the daemon, or a failure of one of the steps that enter or leave a tree, spoils
\* that: for this tree and its copies, until the tree is removed, and for no other.
TreeLeftClean ==
    \A t \in Trees \ (InUse \union spoilt) :
        /\ mounts[t] = 0 /\ t \notin inside
        /\ \A f \in Excursed : file[t][f] # Host /\ orig[t][f] = None
        /\ \A f \in had[t] : file[t][f] = Own

\* Where a job is about to remove a tree, or its /dev and /proc, those of the
\* host are not mounted in it - the removal would empty them - and the repository
\* of the project is not in it; but for a spoilt tree.
Removing == \/ Next1("rmtree") \/ Next1("strip")
            \/ Next1("debootstrap") /\ T \notin version
RemovedUnused == Removing /\ T \notin spoilt => mounts[T] = 0 /\ T \notin inside

\* A chroot that counts as a full build environment had its packages committed,
\* whatever failed, or was killed, before - unless a removal of it was cut short,
\* which may leave the etc/elbe_version of a tree that is no longer complete.
Installed == built \in {"yes", "torn"}
FullIsInstalled == has_full_buildenv => Installed

\* Every source package that was added without an error is on an image.
BurntComplete == [][isos' \notin {isos, {}} => added \subseteq UNION isos']_vars

\* The inductive invariant behind FullIsInstalled: where a job declares the
\* chroot complete, it has just left it after installing its packages.
Declared == [op |-> "version", t |-> "chroot"]
Installs == [op |-> "commit", t |-> "chroot"]
OpNames ==
    {"repo", "open", "run", "rmtree", "work", "borrow", "enter", "enter rfs", "leave",
     "debootstrap", "end_excursion", "commit", "mkdir", "ensure", "pbuild", "extract",
     "finetuning", "cdroms", "strip", "sdk", "include", "open cd", "fill cd",
     "burn cd", "mk cdrom", "version"}
Ops == [op : OpNames, t : Trees]
FullInv ==
    /\ todo \in Seq(Ops)
    /\ built \in {"no", "yes", "torn"}
    /\ FullIsInstalled
    /\ \A i \in DOMAIN todo : todo[i] = Declared =>
          \/ i > 2 /\ todo[i - 1].op = "leave" /\ todo[i - 2] = Installs
          \/ i = 2 /\ todo[1].op = "leave" /\ Installed
          \/ i = 1 /\ Installed

\* The trees that the frames are about; the ones a job is in after an operation,
\* and before each operation it has still to do: last entered, first in the list.
Within(frames) == [k \in DOMAIN frames |-> frames[k].t]
After(o, c) ==
    CASE o.op \in {"enter", "enter rfs"} -> <<o.t>> \o c
      [] o.op = "leave" -> Tail(c)
      [] OTHER -> c
Contexts(frames, ops) ==
    LET c[i \in 0..Len(ops)] == IF i = 0 THEN Within(frames) ELSE After(ops[i], c[i - 1])
    IN c

\* Where an operation may stand: a tree is entered, made, removed and copied while
\* nobody is in it, left by the one who entered last, and the repository is
\* borrowed by the one who enters next.
IsIn(t, c) == \E k \in DOMAIN c : c[k] = t
Fits(o, c) ==
    /\ o.op \in {"borrow", "enter", "enter rfs", "rmtree", "strip", "debootstrap"} => ~IsIn(o.t, c)
    /\ o.op = "extract" => ~IsIn("chroot", c) /\ ~IsIn("target", c)
    /\ o.op \in {"leave", "end_excursion"} => c # <<>> /\ Head(c) = o.t
    /\ o.op \in {"repo", "run", "include"} \union (Composed \ {"mk cdrom"}) => c = <<>>
    /\ o.op = "mk cdrom" => c = <<o.t>>
Placed(ops, i, c) ==
    /\ Fits(ops[i], c)
    /\ ops[i].op = "borrow" =>
          i + 1 \in DOMAIN ops /\ ops[i + 1] = [op |-> "enter", t |-> ops[i].t]
Nested(frames, ops) == \A i \in DOMAIN ops : Placed(ops, i, Contexts(frames, ops)[i - 1])

\* What a file is while nobody works in its tree, and what it will be when the
\* excursion is undone.
OwnFile(t, f) == file[t][f] # Host /\ orig[t][f] = None /\ (f \in had[t] => file[t][f] = Own)
Restorable(t, f) == Undone(t, f) # Host /\ (f \in had[t] => Undone(t, f) = Own)
Clean(t) ==
    /\ mounts[t] = 0 /\ \A f \in Excursed : OwnFile(t, f)
    /\ t \in inside => Next1("enter") /\ T = t
Entered(frame) ==
    /\ mounts[frame.t] = 1 /\ (frame.t \in inside => frame.env)
    /\ \A f \in Excursed : IF f \in frame.ended THEN OwnFile(frame.t, f)
                             ELSE Restorable(frame.t, f)

\* The inductive invariant, with FullInv, behind TreeLeftClean and RemovedUnused:
\* a tree is entered once at a time, and what was done to it then can be undone.
TreeTypes ==
    /\ stack \in Seq([t : Trees, env : BOOLEAN, ended : SUBSET Excursed])
    /\ mounts \in [Trees -> Int] /\ inside \subseteq Trees /\ spoilt \subseteq Trees
    /\ file \in [Trees -> [Excursed -> {None, Own, Host}]]
    /\ orig \in [Trees -> [Excursed -> {None, Own, Host}]]
    /\ had \in [Trees -> SUBSET Saved]
Undoable ==
    /\ \A t \in Trees \ spoilt : ~IsIn(t, Within(stack)) => Clean(t)
    /\ \A k \in DOMAIN stack : stack[k].t \notin spoilt => Entered(stack[k])
    /\ inside \ spoilt # {} => home = "none" /\ \A a, b \in inside \ spoilt : a = b
TreeInv ==
    /\ TreeTypes
    /\ phase = "idle" => todo = <<>> /\ stack = <<>>
    /\ Nested(stack, todo)
    /\ \A j, k \in DOMAIN stack : stack[j].t = stack[k].t => j = k
    /\ Undoable
=============================================================================
