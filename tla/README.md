# ELBE: specifications, model checking and proofs

ELBE builds root file systems and images for embedded Debian systems. The
builds run inside a virtual machine (the *initvm*) under a daemon that clients
drive over SOAP. This directory holds TLA+ modules for the parts of ELBE where
threads, processes, failures and long sequences of calls make the code hard to
test, TLC configurations for small instances, and proofs checked by TLAPS.

All paths are relative to the repository; `esoap.py` stands for
`elbepack/daemons/soap/esoap.py`, other file names for files in `elbepack/`.

## 1. Inventory

| Part | Code | State | Operations |
|---|---|---|---|
| Project database | `db.py` | SQLite tables `projects` (status per build directory), `files` | create, delete, reset, `set_xml`, `set_busy`, `reset_busy`, `update_project_files` |
| Project manager | `projectmanager.py` | database, worker | open a project, request jobs, upload CDROMs, add packages |
| SOAP service | `esoap.py`, `commands/daemon.py` | none of its own; one thread serves one request at a time | uploads in parts, job requests, polls |
| Job worker | `asyncworker.py` | job queue, worker thread, the last job | eight job classes, orderly stop |
| Logging | `log.py`, `shellhelper.py` | a bounded queue and an error level per project; a pipe and a reader thread per running command; handlers of a thread | append, pop, reset the level; run a command, read its output, hand a record to the handlers |
| Package cache | `rpcaptcache.py`, `aptpkgutils.py` | an apt cache in a child process, with a pipe of its own | start, mark, commit, drop |
| SOAP client | `soapclient.py`, `commands/control.py`, `commands/prjrepo.py` | retry counters | wait for a job, upload, download, control |
| pbuilder environments | `elbeproject.py`, `pbuilder.py`, `commands/pbuilder.py` | directories and configuration files of a build directory | create, update, build packages |
| Image build | `elbeproject.py`, `rfs.py`, `cdroms.py` | build directory: chroot, target, sysroot, host sysroot, their version files | load, build, sysroot, SDK, CDROMs, shells, reset |
| File trees and mounts | `efilesystem.py`, `filesystem.py` | mounts, diverted files and the borrowed repository of a tree; images and packers | enter, leave, excurse, extract, pack |
| Package repositories | `repomanager.py`, `repodir.py` | reprepro directories, CDROM volumes; web servers for the user's directories | include, new volume, burn; serve, shut down |
| Disk images | `hdimg.py`, `fstab.py` | the partition table and the sectors of a disk, files moved to the file system they belong to, geometry of an fstab entry | move out, partition, write, install the boot loader, move back, ubinize |
| Recipes | `elbexml.py`, `xmlpreprocess.py`, `treeutils.py` | none | preprocess: variants, merge, archives, replacements |
| initvm | `initvm.py`, `initvmaction.py`, `init/` | libvirt domain or QEMU process, directory, the daemon in the guest | create, start, ensure, stop, destroy, submit |
| Update daemon | `updated.py`, `updated_monitors.py` | update lock, mount flags, status file, package state of a device in the field | apply update, apply snapshot, monitor directories and USB |
| Finetuning, dumps, one-shot commands | `finetuning.py`, `dump.py`, `commands/*` | none that outlives a call | |

How they meet:

* Client and daemon: SOAP calls. `wsgiref` serves them one after the other, so
  two requests never overlap, but the calls of two clients, and the parts of an
  upload, interleave.
* SOAP thread and worker thread: the `queue.Queue` of jobs, the rows of the
  database, the message queues of `log.py`, the files of the build directory,
  and the table of open files, which the process of a package cache inherits.
* `del_project` starts a third kind of thread, which removes a directory after
  the request has returned.
* The database outlives the process; the job queue, the message queues and the
  error levels do not. The build directory outlives the jobs, killed ones too.
* A job enters and leaves trees as nested contexts; the image build takes the
  target over from the tree build and changes it while it works on it.
* `elbe initvm` commands of several users share one domain, and the daemon goes
  up and down with it. `submit` is the one that spans everything: it rewrites
  the recipe, serves directories, starts the machine, and drives the daemon.

What is hard about it: the status column doubles as a lock that is taken in one
thread and given back in another, much later; a client that goes away holds it;
a process that dies leaves it set; exceptions have several ways out of a job and
must undo mounts and diverted files on all of them; answers to polls are put
together from two reads that are not atomic; the state of a domain is old when
it is acted on; a pipe ends only when its last holder closes it. `PROJECT.json`
lists each of these hazards with its line and its properties.

Correctness per part:

* Database, manager, service, worker: no project has two owners; whoever works
  on a project finds it busy and untouched; nothing leaks the busy flag; jobs
  are executed and judged by their own messages; rows and directories match;
  the worker survives its jobs; a stop ends.
* Logging and waiting: messages arrive in order and once; those that the queue
  could hold and nobody gets to see are few and can be named; the end of a job
  is not announced before what was logged earlier; the output of a command is in its own job's log when `run`
  returns; `run` returns; waiting ends.
* pbuilder: one environment per project, used only as what it was created.
* Trees: whatever fails, a tree nobody works in has nothing mounted and its own
  files; no tree is removed with the host's mounted in it; what counts as
  complete is.
* CD repositories: a volume fits on a disk, but for what is written after the
  check, and every added package is burnt.
* Images: every file ends in the file system its mount point says; what a file
  system has in its partition stays there; what is offered for download exists.
* Recipes: the output is what the user wrote for the variants asked for.
* initvm and submit: commands end and clean up; no result is deleted before it
  was downloaded.
* Update daemon: one update at a time, file systems writable exactly while
  somebody writes, the status file tells how the last update ended, stop ends.

## 2. Modules

| Module | Models | Extends | Checked as |
|---|---|---|---|
| `ElbeDaemon` | database, manager, service, worker, process | | `MCElbeDaemon` |
| `ProjectLock` | abstract: what the status column promises as a lock | | refined by `ElbeDaemon` |
| `WaitBusy` | message queue, polls, `wait_busy` | | `MCWaitBusy` |
| `LogPipes` | pipes, reader threads, handlers, cache processes | | `MCLogPipes` |
| `Pbuilder` | pbuilder environments and commands | | `MCPbuilder` |
| `CdRepo` | volumes of a source CD-ROM | | with `BuildTree` |
| `BuildTree` | trees of a build directory under all jobs | `CdRepo` | `MCBuildTree` |
| `DiskImage` | `do_hdimg`: file systems, partitions, boot loader, flash | | with `ImageBuild` |
| `ImageBuild` | part of a build after the trees: images, archives, project finetuning, packing | `DiskImage` | `MCImageBuild` |
| `Preprocess` | `xmlpreprocess.py`, `repodir.py` on documents | | with `Submit` |
| `Initvm` | the virtual machine and its commands | | with `Submit` |
| `Submit` | `elbe initvm submit` / `create`, `elbe control`, the daemon seen from outside | `Initvm`, `Preprocess` | `MCSubmit` |
| `Updated` | update daemon of a device: monitors, lock, snapshots, remounts | | `MCUpdated` |
| `ElbeDaemonProofs`, `PbuilderProofs`, `LogPipesProofs`, `BuildTreeProofs`, `ImageBuildProofs`, `SubmitProofs`, `UpdatedProofs`, `WaitBusyProofs` | theorems about the module each is named after, and the ones it extends | | TLAPS |

Every definition that models code is listed with its lines in `PROJECT.json`.
Definitions named `Action_Something` are faulty variants of `Action`; they stand
before it and are used by no specification. They record, for each property, a
mistake in the code that the property would reveal.

The modules lean on each other's results: `BuildTree`, `Pbuilder` and `LogPipes`
run one job at a time and let no two jobs of a project overlap, which is what
`ElbeDaemon` shows (`OneOwner`, `PendingUntouched`); `WaitBusy` takes from it that
jobs end; `Submit` reduces the daemon to a status, a job and files per project.

### ElbeDaemon

The SOAP thread is the program counter `soap` and the request `req`; a request
is split where another thread or a kill can get in between: `CreateDir` /
`CreateCommit` / `CreateSetXml` for a new project, `RequestJob` (load),
`AssertNotBusy` (`is_busy`), `SetBusy` (`set_busy`) and `Enqueue` (`reset_level`,
`queue.put`) for a job, so that the worker may give the project back, or be killed,
between any two of them;
`DelStart` (start `rmtree`) / `DelCommit` (delete the row) for a deletion. An
upload is `UploadStart` (part 0) and `UploadFinish` (the other parts and part
-1), with `upload[p]` as the client's side of it. The worker is `worker`,
`job`, `outcome` and `verdict` (the local `success`): `GetJob`, `RunJob`,
`Judge` (the `except`/`else` branches), `UpdateFiles`, `ReleaseRead` and
`ReleaseCommit` (`reset_busy` in its two halves). Every exception that leaves
`execute` leads to `Die`, because `AsyncWorker.run` catches nothing.

Messages, recipe contents and results are reduced to what the status depends
on: `level` (an error was logged or not), `xml` (none, valid, broken),
`outcome` (returned, returned with an error logged, exception, `sys.exit`).

`Faults` selects what may go wrong: `crash` (a kill; SIGTERM, which systemd
sends, is one, as no handler is installed), `interrupt` (SIGINT between
`set_busy` and `queue.put`), `abandon` (a client stops uploading), `exit`
(pdebuild's `sys.exit`), `dbfail` (a commit fails), `reset_live`
(`reset_project` on a project somebody works on) and `empty_upload` (a file of
length zero is uploaded, which sends part -1 without part 0).

### ProjectLock

One variable: who holds a project (nobody, a job, an uploading client, or
nobody who could ever give it back). `ElbeDaemon!Holder` reads it off the
daemon's state. The refinement says that a holder is never replaced by another,
that only `reset_project` frees a blocked project, and (`FairSpec`) that jobs
give back what they took.

### WaitBusy

One project, its queue, the jobs that log into it, and clients that poll. `Pop`
is `read_loggingQ`, `Reply` the `is_busy` that follows it and what the client
does with the answer; the worker may log and finish in between. `Tell` records up to
which message a client could know of the log when it was told ELBE-FINISH: what
was logged later, or stands behind a blank message, nobody may ever see, and
`NothingVanishes` says that it is only these. A reply may get
lost after the pop (`ReplyLost`), a connection may fail before it
(`ConnectFails`). Messages are numbers in the order of their emission; the set
`Blank` holds those with an empty text, which Python takes for false. Kills of
the daemon, which lose the queue with everything in it, are left to
`ElbeDaemon`.

### Pbuilder

Per project: the directory of each environment (absent, without `base.tgz`,
ready), the configuration files, and how the last job ended. Jobs are single
steps, since `ElbeDaemon` shows that jobs of a project exclude each other, with
a parameter for how far `create_pbuilder` got before it failed. `pbuilder`
itself is taken to need the configuration file it is given and the `base.tgz`
named there.

### LogPipes

Two threads run commands, the worker and the one that serves SOAP requests.
`pc[t]` follows a thread through `run`: `Start` (make the pipe, start the reader,
`Popen`), `Exit`, `Shutdown` (close the write end) and `Join`. A pipe is its content and
`holders`, those that have its write end open: the daemon, the command, a process the
command left behind, and each cache process that was forked meanwhile, because the
fork of `multiprocessing` keeps every file open (`Popen` closes them). `Read` and
`EndOfFile` are the loop of `AsyncLogging.run` with its three cases: complete
lines go to the clients at once, the block to the log at the end of file. A
record carries the thread that made the pipe; `Record` gives it to the handlers
that thread has *now*. `job` outlives `execute`, as in `AsyncWorker.run`, and with it
the package cache (`Dropped`). Bytes are numbers, a newline is 0, and `Lead` and
`Trail` are one character of two bytes: `Decode` is the `decode` of what a single
`os.read` returned, with a replacement for each half of a character that the read has
cut.

### CdRepo and BuildTree

A job is a list of operations (`todo`) and a stack of contexts it has entered,
as `with` statements nest them. An operation either changes the trees or stands
for a shorter list that depends on them or on the recipe (`Meaning`): a build
debootstraps only without a version file, the source CD visits every tree that
exists. `Raise` empties the list, and `Leave` takes the contexts down in reverse
order, each with everything `__exit__` does: undo the excursions, umount, move
the repository home. `Commit` stands for whatever runs inside of a tree and
may write the diverted files itself. `CdRepo` is the repository of a source CD, whose
directories stay when the object that counts volumes is gone.

Commands that run in a tree may fail any number of times. The faults that
`MaxFaults` counts are a kill (with or without a reboot, which takes the mounts), a
failing step on the way into a tree (`EnterFails`: any of the excursions, mounts and key
files of `__enter__`, without an `__exit__` then), one on the way out (`LeaveFails`: one
file is not restored, or a mount is not undone, and the repository is not moved home), and a
removal that stops halfway (`Torn`: any of the files may be left, `etc/elbe_version` too).
A removal of a tree with something mounted in it always ends so (`RemovalFails`), as
`rmtree` cannot remove a mount point, and empties what is mounted. `spoilt`
records the tree that a fault hit while it was entered, and its copies: nothing in the
code repairs that, and `TreeLeftClean` and `RemovedUnused` are stated for the other trees and for
this one once it was removed. `built` is `torn` after a removal that was cut short, the one
thing that `FullIsInstalled` excepts.

The size of a volume of a CD is what `_disk_usage` adds up: the packages with their entries
in the database (`Grows`), the directories and `conf` (`Empty`), and the indices in `dists`, which
are there for as many packages as the last export had seen (`DiskUsage` is therefore a
set). The check precedes the inclusion, and `finalize` exports once more
after it: `VolumesFit` says by how much a volume may be larger than a disk.

### DiskImage and ImageBuild

`DiskImage` is `do_hdimg` from the first `mv` to the last: `MoveOut` / `MoveBack` for
the mount points in the order of `depthlist`, `StartDisk`, one `Create...` action
per sort of partition with its geometry and the sectors it writes, the
mounts for the boot loader and the way out of a failure through the `finally`
clause. `disk` maps a sector to the partition that wrote it last; libparted is
`Accepted`. A file system is as long as its partition, or, if `mksquashfs` or `mkfs.erofs`
made it, as its content (`PartImage`), and `dd` writes all of it: what does
not fit is lost to the partition that comes next, as `WrittenKept` tells. Entries of the fstab
are one file system if their mount points are spelt alike (`Alike`).
`ImageBuild` goes on with archives and the project finetuning actions, each
with its order of changes and its exceptions, up to `pack_images`. Nothing keeps an action from
listing or overwriting what is there already; `twice` records the names that
were put on the list while they were on it. A file of the
build directory is the sequence of its name and suffixes.

### Preprocess, Initvm and Submit

`Preprocess` has one operator per pass of `xmlpreprocess.py` and their composition
in the code's order. An item remembers in `of` what it was made of, so that
the properties compare what arrives with what the user wrote without repeating
the passes. `Document` is the set of all documents, of any length; nothing in the
module is recursive, so that it can be proved about: what goes through a document
element by element is a `FlattenSeq` of one small sequence per element. The passes
reach as far as in the code: keys of mirrors only (`RawKey`), the first
`debootstrapvariant` only (a second one makes the output invalid, `TwoBootstraps`), the
password of root and those of the users that finetuning adds (`Hashed`). Of
the daemon's schema `Invalid` has what the passes rely on: elements and attributes it
does not have at that place are refused with the output of the last pass.

`Initvm` is the domain (`domain`, `defined`, `dir`), the daemon in the guest, and the
place of each user's command. The state is read in one step and acted on in
another, with the domain object of the first: `stale` are the users whose object
stands for a domain that is gone. `destroy` is three steps (`Destroy`, `Undefine`,
`RemoveDirectory`), the second only if the lookup found a domain. `disk` says that the directory is
still the one the guest runs from; without its monitor socket a QEMU machine is
another one (exit 211). QEMU machines share the module: their domain is the process, and what
libvirt refuses they notice at the port.

`Submit` adds the steps of `Repodir`, `preprocess_file` and
`_submit_and_dl_result`, Ctrl-C at every place of them, and `elbe control` of other
users. A daemon that goes down takes its jobs and leaves the status in the
database (`Lose`). Results are saved under their base names (`Written`), so one may
overwrite another; `NothingLost` names that. `foreign` marks a project that another client has changed.

### Updated

Three threads: the two monitors (`dir`, `usb`) and the main thread (`soap`), while it
starts and while it serves a request. It starts the monitors before it builds the
SOAP application, whose constructor makes a second `UpdateStatus` and so remounts and
writes the status file next to them (`main = "starting"`). `pc[a]` is the place of a thread in
`handle_update_file`, `action_select`, `apply_update` and `set_finished`; the
forked child is a part of the thread that joins it (`cache` to `write`), since
that thread does nothing else meanwhile. `root` and `saved` are the mount of the
root file system and the `mount_orig` of the `rw_access` block a thread is in; looking
(`LookUp`) and remounting are two steps. `SigtermEarly` is a signal before the server loop.
`Apart` says that the main thread entered no block next to a monitor: no snapshot was
requested, and no file passed the checks, nor came a signal, while it was starting (`early`).
One file system stands for all: blocks on different ones do not affect each
other, and the blocks inside `apply_update` find it writable. The four blocks of
`action_select` around extraction, scripts, configuration files and `cmd/` are
one (`PrepareBegin`, `Extract`), because what they do differs only in which
files they write.

`Packages` says which packages may appear under which name: signed or not, the
version, and what they bring besides packages. `execute` splits bytes at a
string and raises after each script it runs, so a package with `pre.sh` makes
this update and all later ones end in `error` (the script stays in
`/var/cache/elbe`), one with `post.sh` does so after installing, and one with a
script in `cmd/` kills the monitor thread. `Events` selects what may happen, and
`seen` records what did.

## 3. Runs

| Run | Instance | Shows |
|---|---|---|
| `daemon_lock` | 2 projects, 2 job classes, faults crash, interrupt, abandon, exit, dbfail | `OneOwner`, `OwnedIsBusy`, `VerdictOwn`, `RefinesLock` |
| `daemon_liveness` | 2 projects, 3 job classes, no faults, fair | `BusyIsOwned`, `WorkerSurvives`, `PendingUntouched`, `JobsFinish`, `StopTerminates`, `RefinesFairLock` |
| `daemon_reset` | 2 projects, faults reset_live, empty_upload, exit, abandon | `TypeOK`, `RowsMatchDirs` |
| `daemon_exit_violation` | 2 projects, pdebuild, fault exit, fair | `JobsFinish` fails |
| `wait_busy` | 2 clients, 4 messages, one of them blank, queue of 3, 2 jobs, fair | `PrintedInOrder`, `NothingVanishes`, `FinishLeavesNothingOld`, `WaitEnds` |
| `log_pipes` | 2 jobs, 2 commands, 1 cache process, fair | `OutputLogged`, `RunReturns` |
| `pbuilder_env` | 2 projects | `OneEnvironment`, `BuiltInCreated`, `ReadyIsKept` |
| `build_tree` | 1 project, any sequence of jobs, every command inside failing, 1 fault, 2 source packages | `TreeLeftClean`, `FullIsInstalled`, `VolumesFit`, `RemovedUnused`, `BurntComplete` |
| `image_build` | 4 recipes, every command failing, 3 finetuning actions | `OwnFileSystem`, `WrittenKept`, `ListedExist` |
| `submit` | 2 users, 3 commands, 22 inputs, libvirt and QEMU, 1 Ctrl-C, fair | `AsWanted`, `NothingLost`, `CommandsEnd` |
| `updated` | 2 packages, one of 9 sorts, root mounted readonly, any one event, with and without `--nosign` | `TypeOK`, `RootRestored`, `OkIsInstalled`, `ProgressEnds`, `SnapshotKept`, `NoDowngrade` |
| `updated_liveness` | 2 good packages, a failing extraction or installation, SIGTERM, fair | `UpdatesSettle`, `StopTerminates` |

Bounds. Two projects are what the daemon's properties speak about: one that is
worked on and one whose job waits behind it or is used meanwhile; projects
share nothing but the worker, its queue and the SOAP thread. `MaxQueue` caps
the number of queued jobs when a request is sent; with a job at the worker, one
at the SOAP thread and two queued, every pair of places in `OneOwner` can be
filled. Every project is created and deleted at most once (a new one has a new
uuid). In `wait_busy` four messages and a queue of three make it overflow, and three leave room
for one behind a blank one; two
jobs let a client see the messages of a job started behind its back; each
client meets one socket error, so that it both retries and gives up.
`Pbuilder` is not bounded beyond the number of projects. In `Updated` two packages
meet in the directory, on a drive, or one on each way, in both orders of their
versions; every name is used once, a drive is plugged in when the last one was
handled, power fails once, one snapshot is requested, and at most `MaxEvents`
kinds of events (besides `early`) happen to a device.

In `log_pipes` two commands are one per thread or two of the worker, in one job or
in two; a command prints no complete line, or an empty one and a character of two bytes
behind it, which does not fit into the pipe with it; the cache is forked before, while or after one runs,
and is dropped by its job or kept until the next one. In `build_tree` the number
of jobs is not bounded before a fault hits an entered tree, and one job
(`MaxLater`) follows after that; packages of size 2 and 3, which take one more with their
entries, and disks of 6, of which an empty volume takes 1, let the first package fit, a second
one not, and a check see indices or not. (1.7 million states, about four minutes: the longest run.)
`Saved` has one file, as all excursions with
`restore` are treated alike; only commands in the chroot write it, since the
target is a copy of that. In `image_build` the recipes nest three mount points, one
spelt with a slash at its end, put a file system on a disk twice and under two
labels, write a binary and packed file systems that are longer than their partition, fill an extended
partition, name two archives alike, and share a flash volume; sizes are single sectors, so every
boundary is met. In `submit` three commands allow a `create` or `submit` with, for
example, a stop and a start meanwhile; two of the results have one base name. The inputs cover sections written twice,
variants at both levels, package directories, archives on CD volumes and the
deprecated elements.

Symmetry of projects is used in runs without liveness properties: no definition
orders or names a project. Deadlock is checked except where a stop may
rightly (or, in `daemon_reset` and the violation run, because of a dead worker)
leave the daemon without a next step, where the commands of an instance are used
up (`submit`, `log_pipes`; the latter really may hang, see below), and where a build
ends (`image_build`). `build_tree` has the step `Terminating` for its bound, so that a job that gets
stuck shows. In `daemon_liveness` the check is off so that a stop that hangs shows
as a violation of `StopTerminates`.

Fairness. `ElbeDaemon!Fairness`: the operating system schedules each thread
(weak fairness of the rest of a begun request, of the worker and of each
removal thread) and the programs a job runs end. Nothing is assumed of clients
or operators. `WaitBusy!Fairness`: jobs end (that is `JobsFinish`), the daemon
answers a poll it has begun, and its listening socket is a queue, so that a
client that goes on polling is served again and again while others poll too
(strong fairness of `Pop` and `CheckStatus`). No fairness is assumed of socket
errors or of messages. `LogPipes!FairSpec`: the threads and readers are scheduled,
and what a command or a cache process prints is printed and ends. A new job or
the end of a cache is not assumed. `Submit!Fairness`: every process that was started
runs (it polls with time limits of its own), a guest boots and shuts down when
asked, and the daemon ends its jobs while it is up. No command, no interrupt and no
start of the machine is assumed. `Updated!Fairness`: the threads are scheduled and
the programs they run end; a monitor gets the lock in the end because there are
only so many packages.

What the failing run shows (details and quotation in `PROJECT.json`): `sys.exit` in
`ElbeProject.pdebuild` ends the worker thread; the daemon goes on accepting jobs
that nobody will execute, and cannot be stopped in order.

### Observations

Behaviour of the code that the models reproduce and that no run states as a
property, because it is excluded in the properties by name or because nothing in the
code or its documents promises otherwise.

Daemon and clients:

* A pbuilder update that fails with an exception ends in `build_done`
  (`asyncworker.py:266`).
* `wait_busy` counts polls where `docs/elbe-control.rst` speaks of retries; after
  ten polls the first socket error is final.
* `elbe pbuilder build --xmlfile` never uploads the file and ends in a SOAP
  fault (`BuildXmlCreate`, `client` becomes `fault`).
* After a cross environment a native one cannot be used by `pdebuild`:
  `cross_pbuilderrc` stays.
* Messages that are logged behind a blank one, or after the last look of a poll that then
  finds the job done, stay in the queue when nobody polls again (`NothingVanishes` names them).
* `reset_project` or an empty upload during a job makes the job's `reset_busy`
  raise, which ends the worker as `sys.exit` does (add `reset_live` to the
  faults of `daemon_liveness` to see it); and a deletion whose commit fails
  leaves a row whose directory is being removed, so that a job requested
  meanwhile finds no directory and ends the worker in `elbe_logging` (add `dbfail`).

Logs (`RunReturns` names both holders that keep a reader from its end):

* A request's command, `rm -rf` of a sysroot at every load, waits for a cache
  process that was forked while it ran. That process lives until the worker takes
  its next job - which no request can bring, as the SOAP thread waits.
* The output block of a cache process goes to the log of the next job, or
  nowhere when the worker has no job then. Its lines reach the clients in time.
* A command that leaves a daemon behind with its output open never returns.
* Output without any newline is not logged.
* Every read is decoded on its own (`log.py:211`): a character of several bytes that is cut
  by a read is replaced in the log and in what the clients get (`Readings`).

Trees:

* A kill inside of `with env:` leaves the mounts, the diverted files and the
  repository in the chroot. The next entry saves the host's copies as the
  tree's, and removing the tree empties what is bound to its `/dev` and then fails.
* When `__enter__` fails, no `__exit__` runs: a step that fails after the excursions or the
  mounts began leaves those, and one that fails after the repository was moved in leaves that. A
  new repository is made in its place, and no later job can move the old one home. A
  step that fails in `__exit__` leaves the rest of the steps undone.
* A removal that is cut short may leave `etc/elbe_version`: such a chroot counts as a full
  build environment, and is not debootstrapped again (`FullIsInstalled` excepts it).
* A package that cannot be marked for installation is logged and left out; the chroot is
  declared complete all the same.
* A volume of a CD may be larger than the disk by the entries of its last package and by
  the indices, which are written after the check (`VolumesFit`).
* The host's own `resolv.conf` is assumed to stay as it is during a job; a copy
  that differs from it afterwards counts as written by the tree, and is kept.
* `policy-rc.d` is removed on leaving; one the tree had before is not saved.
* Loading debootstraps a chroot without version file, although the comment
  in front of it asks for one.
* A source CD that is made again fails when it needs a second volume, whose
  directory exists (`VolumeFails`), and a second binary CD always fails at `.disk`.
* Loading removes the sysroot, so that CDs are never made for it.

Images:

* `mv dir/*` leaves files that begin with a dot in the parent file system
  (`OwnFileSystem` excepts them), and a mount point with a slash at its end has depth 0.
* Mount points spelt with and without a slash at the end (`/boot`, `/boot/`) are two file systems
  to the code; which one gets the files depends on their order.
* A packed file system (`mksquashfs`, `mkfs.erofs`) or a binary longer than its partition is
  written whole: it runs into the next partition, which then overwrites the rest.
* Removing an artifact leaves its packer behind, and one set for something that
  is no artifact cannot be packed: both end the build in `pack_images`.
* An artifact that is listed when an action adds it is listed twice. `pack_images` takes
  one entry and removes the file, so that the other entry names a file that is gone
  (`ListedExist` excepts these names), or ends the build when it is to pack that one.

Recipes, initvm, submit:

* `preprocess_initvm_ports` compares texts with integers: no default forward is
  ever removed (`SameText`). `<noauth>` appends its option again when a file is preprocessed
  twice.
* `control.connect` is called outside of the `try` in
  `_test_soap_communication`, so that waiting for the daemon may end long before
  its two minutes, with exit code 1 instead of 123.
* `start` of a domain that is shutting down succeeds without doing anything; a
  `start` next to an `ensure` makes the latter fail; a `stop` shuts a machine down again that
  another user has just started; `destroy` next to a `start` leaves a running
  domain without definition and directory.
* A failed `create` leaves its directory, which refuses the next one.
* Results of a project that have one base name overwrite each other in the directory of the
  client, and the project is deleted all the same (`NothingLost` names them).
* Ctrl-C while the file servers start or stop leaves their threads, and the process
  waits for those for ever; so does a client whose project stays busy in the
  database of a guest that went down with the job (`Stuck` names both).

Update daemon:

* `apply_snapshot` does not take `update_lock`, so that with `snapshot` the root
  file system may stay writable or become readonly under an update, and an update may be
  older than a snapshot applied after its check; this is why `OkIsInstalled` and
  `NoDowngrade` are stated for devices without it.
* The main thread starts the monitors and builds the SOAP application after that, whose
  constructor writes the status file once more, in an `rw_access` block without `update_lock`. A
  monitor with a file to handle may then remember a mount that was about to be undone, so that
  the root file system stays writable; it may find it readonly in the middle of an extraction, which
  fails, or when it writes its result, which ends its thread with `in_progress` in the
  status file; or the file is overwritten with `ready`. `RootRestored`, `ProgressEnds` and
  `UpdatesSettle` are therefore stated as long as the main thread stays `Apart`: no
  snapshot, and nothing to handle and no signal while it was starting.
* A snapshot that does not exist is reported as applied (`Unreadable`).
* A monitor thread is killed by a script in `cmd/`, by a `.gpg` file without a
  signature (`op_verify` raises) and, with `--nosign`, by every signed package in
  the directory, since its unsigned copy is reported by inotify and gone when the
  report is read (`Select`).
* `SIGTERM` before the server loop ends the main thread and leaves the monitors
  running (`SigtermEarly`, `main = "gone"`).
* A power failure after an installation leaves an old or an empty version file,
  and then a downgrade is accepted (`NoDowngrade` excepts it).

## 4. Proofs

`ElbeDaemonProofs` proves for any number of projects, any set of job classes,
any set of faults and any queue bound:

* `TypeCorrect`: `Spec => []TypeOK`.
* `OneOwnerHolds`, `OwnedIsBusyHolds`: `Spec => []OneOwner` and
  `Spec => []OwnedIsBusy`, assuming `NoForeignRelease`: neither `reset_live`
  nor `empty_upload` is among the faults. Without that assumption both are
  false. Kills, interrupts, abandoned uploads, `sys.exit` and failing commits
  are all allowed.

The inductive invariant `IInv` joins four parts. `OneOwner` alone is not
inductive: that `SetBusy` and `UploadStart` find no other owner follows from
the status not being busy, which each looks at itself in the step that changes it, so it needs `OwnedIsBusy`. `OwnedIsBusy` in turn
needs `OneOwner`: when `ReleaseCommit` or `UploadFinish` gives a project back,
no other place may still claim it. `InOrder` says what the SOAP thread knows
between its steps: a project that is being created has no owner yet, one that
is being deleted is not busy. `TypeOK` gives the provers the shape of
the queue and of the functions. `TypeNext` and `IInvNext` have one step per
action; lemmas about `Append`, `Head` and `Tail` say which jobs are queued
afterwards.

Four more theorems each add a part to an invariant, and need more or less of the
faults excluded:

| Theorem | Assumes | Rests on |
|---|---|---|
| `VerdictOwnHolds` | `NoForeignRelease` | `IInv` and `LevelsOwn`: the level is cleared while the project belongs to the request, and only its job raises it afterwards |
| `PendingUntouchedHolds` (an action property) | `NoForeignRelease`, `NoFailedCommit` | `IInv` and `DirsKept`: whoever holds the project has its row and its directory, and whoever asks for a job has the directory of the project it loaded |
| `WorkerSurvivesHolds` | the same, and no `exit` among the faults | the same |
| `RowsMatchDirsHolds` | `NoKill`, `NoFailedCommit` | `RequestKnows`: what the SOAP thread saw of row and directory stays true between its steps |
| `BusyIsOwnedHolds` | `NoLostOwner`: no kill, interrupt, abandoned upload or failing commit | `RequestKnows` and `RowsMatchDirs`, but not `OneOwner`: resets of projects at work and empty uploads are allowed |

Each excluded fault really breaks the property (the models show it, see the
observations above). TLC checks `BusyIsOwned`, `WorkerSurvives` and
`PendingUntouched` without faults, the theorems with the ones they allow.

`RefinesLockHolds` (under `NoForeignRelease`) is the refinement: `Spec => RefinesLock`,
without fairness. `Holder` reads the lock off the state. `IInv` makes it a function
of who is at a project (an uploading client is nobody's job, and somebody
who works on a project finds it busy), and a step of the daemon either
frees any number of holders at once (a kill, which leaves them blocked)
or moves one project from or to nobody: the first are `Leave` of `ProjectLock`
(`LockLeave`), the others `Take`, `GiveBack` and `Reset` (`LockMove`).

The assumptions on constants are those of `ElbeDaemon` (`NoProject` is not a
project, the job classes and faults are the listed ones, `MaxQueue` is a
natural number).

`PbuilderProofs` proves for any set of projects, without further assumptions:

* `OneEnvironmentHolds`, `BuiltInCreatedHolds`: `Spec => []OneEnvironment` and
  `Spec => []BuiltInCreated`.
* `ReadyIsKeptHolds`: `Spec => ReadyIsKept`, an action property, from `OneEnvironment`.

`BuiltInCreated` is not inductive: a build finds its environment by the presence
of a directory, and that this is the environment created last is `ReadyIsCreated`,
which in turn needs `OneEnvironment`, because creating one kind of environment
must leave no ready environment of the other. `EnvironmentKeeps` states what
`create_pbuilder` preserves however far it gets, `CreateKeeps` lifts that to the
job; the remaining actions only read the environments.

`LogPipesProofs` proves for any number of jobs and commands, any outputs (texts of
any length, with newlines anywhere), any capacity of a pipe and any length of a read:

* `OutputLoggedHolds`: `Spec => []OutputLogged`.

The inductive invariant `LogInv` (end of `LogPipes`) follows the output of a running
command, read in one of the ways that cut characters allow (`Readings`): the lines its
reader has, the start of a line behind them, what waits in the
pipe and what is still to be printed are together the output (`Underway`), and the
lines the reader has are those that were sent. At the end of file, which
comes only when the command and the daemon have let go of the pipe (`PipeHeld`),
nothing waits, and there is one way to divide the output into complete lines and the
rest (`OneDivision`), so the block is the one `Logged` asks for. `OwnHandler` says that
the handlers do not change while a command of the worker runs: this is where the
proof needs that `run` joins the reader before it returns. A step has a lemma of its
own (`StartKeeps`, `WriteKeeps`, `EndingKeeps`, `ReadKeeps`, `EndKeeps`,
`BookkeepingKeeps`); `OthersKeep` says once for all steps of a pipe that they
touch no other command. The first half of the module is about texts: `LastNLIs`,
`LinesAndRest`, `OneDivision`, `OneMoves`, `ReadText`; and `FlattenAppend`, what
`FlattenSeq` does with one element more. The assumptions on constants say that
threads, jobs and the holders of a pipe are different things.

`BuildTreeProofs` proves about `BuildTree` and `CdRepo`, for any files, any
finite set of source packages of any sizes with any sizes of their entries, and any
size of a disk:

* `VolumesFitHolds`: `Spec => []VolumesFit`, `BurntCompleteHolds`: `Spec => BurntComplete`.
* `FullIsInstalledHolds`: `Spec => []FullIsInstalled`.
* `TreeLeftCleanHolds`: `Spec => []TreeLeftClean`, `RemovedUnusedHolds`: `Spec => []RemovedUnused`.

Kills, failing commands, removals cut short and a failure of any step that enters or leaves
a tree are part of the model; what they break is named in the properties.

`CdInv` (end of `CdRepo`) adds to `VolumesFit` that the volumes of a repository object
exist as long as it adds packages, and that what it added is in one of them. The check
before a package is included measures the volume, with all entries but no more than the
indices of these (`DiskUsage`), so that the entries of the package and the indices come on
top (`MaxEntries`). That the sum of a set with one
element more is the sum and its size is `UsageAdds`, that a larger set has the larger sum
`UsageMore`, and `StoredMore` joins them; the lemmas
before it derive what a sum over a finite set is from its definition.
`FullInv` (end of `BuildTree`) looks at what is left of the job: wherever it will declare the
chroot complete (`Declared`), the step before it leaves the chroot and the one before
that installs the packages, or these are done and the chroot is installed. That
each list an operation stands for has this form (`Programs`) is shown operation by
operation, and lists in a row keep it (`ConcatKeeps`); a job that
fails forgets its list, so that a failure declares nothing.

`TreeLeftClean` says nothing of the trees that a job is in, so `TreeInv` (end of `BuildTree`) does:
whatever was done to the files of an entered tree, undoing the excursion gives back
the tree's own (`Restorable`), its directories are mounted once, and if the repository is
in it, the block that will be left is one that moves it home (`Entered`). That this is
so for every tree that is entered needs a tree to be entered once at a time, and
`Nested` looks at the rest of the job for that: `Contexts` are the trees
the job will be in before each of its operations, and each operation `Fits` them. A tree is
entered, removed, stripped or copied only while the job is not in it, a block is left by
the one who entered last, and the repository is borrowed by the one who enters
next. As for `FullInv`, every list an operation stands for is shown to leave the
contexts as it found them (`Keepers`: `PartsKeep`, `JobsKeep`, `MeaningsKeep`), blocks around
such lists do too (`BlocksKeep`), and so do lists in a row (`LeadsConcat`). `JobNext`
shows that every step keeps `Nested`, `UndoableNext` and `TypesNext` the rest, with a lemma
for every action that touches trees; `OneTreeChanges` and `TreeIsLeft` say once
what their changes have in common. None of it is claimed of a tree in which entering, leaving or a job was cut
off (`spoilt`), nor of the copies of it, until it is removed; the other trees keep it. `EnterFailsStep`,
`LeaveFailsStep` and `TornLeaves` show that nothing else is touched there, `RemovalSteps` that what is
left of a removed tree is as clean as it was. `FilesAssumption` names what is used of the constants: `resolv.conf` is
saved, `policy-rc.d` is not and is always written, and the tree's own file, a copy of
the host's and no file are different things.

`ImageBuildProofs` proves about `DiskImage` and `ImageBuild`, for any recipes, sizes,
numbers of partitions, lengths of what is in them, packers and actions:

* `WrittenKeptHolds`: `Spec => []WrittenKept`.
* `ListedExistHolds`: `Spec => []ListedExist`.
* `OwnFileSystemHolds`: `Spec /\ SlashInOrder => []OwnFileSystem`, for any files,
  mount points and nesting of them.

`DiskInv` (end of `DiskImage`) is what keeps writes apart: everything written so far
ends before the next free sector, within the disk; inside of an extended partition
also before the next free sector of that. What a file system has inside of its partition
(`used`) lies there, and whatever is written later begins behind it, also where it is longer
than its own partition. The assumptions are that of the
schema: sizes are natural numbers and lists are lists (`RecipesAssumption`,
`SectorsAssumption`). `ListInv` (end of `ImageBuild`) says that up to the packers every name
that was not put on the list while it was there is listed once: a packer that replaces a
file takes its name off the list once. Nothing is assumed about the names of
artifacts. Where a packed file takes the name of another one that is listed, it is in `twice`,
and only of such names nothing is claimed.

`MoveInv` (end of `DiskImage`) says where everything is between two moves: `Taken(i)` is
what belongs to a file system, `MovedOut` what the target and the directories
of the file systems hold when some of them are moved out. Every file belongs to at
most one file system (`OneTaker`), and to one if any shows it (`TakerExists`). A
file system is moved out when all that lie inside of it are out, so that what its
directory shows is what belongs to it (`OutShown`); it is moved back when all it
lies in are back, so that its directory exists and nothing below it is in the way (`BackFree`).
Both come down to the place of a mount point in `depthlist`, by `TakerDeeper`: an inner one
comes after the outer one (`DepthFacts`). For the boot loader the list begins with the keys of
`grub.fs` in the order of the partitions (`GrubKeys`), and `GrubFacts` says the same of it.

The hypothesis `SlashInOrder` (end of `DiskImage`) is about the recipe that is built. Every mount
point is to be spelt in one way, and one spelt with a slash at its end has depth 0, and `depthlist` leaves those of
one depth in the order in which they came. So it must not be inside of one of a greater
depth, and the outer one must come before it: in the fstab of the recipe, and, on a disk with a
boot loader, in its partitions. Where no inner mount point is spelt so,
there is nothing to ask of the recipe. The hypothesis is needed: with the fstab of the
recipe `Nested` in the order `/boot/`, `/`, the root file system is moved out before that
of `/boot/` and takes what belongs to it, and TLC finds `OwnFileSystem` violated. All
recipes of `image_build` satisfy the hypothesis, `Nested` by its order.

`UpdatedProofs` proves for every finite set of names, any packages and versions,
any of the events and any bound on them:

* `TypeCorrect`: `Spec => []TypeOK`.
* `NoDowngradeHolds`: `Spec => NoDowngrade`, an action property.
* `RootRestoredHolds`, `SnapshotKeptHolds`, `ProgressEndsHolds`,
  `OkIsInstalledHolds`: `Spec => []` of the property each is named after.
  The exceptions for snapshots, a main thread that is not `Apart`, power failures and the
  rest are part of the properties, not assumptions of the theorems.

`InvariantHolds` states the inductive invariant as a whole (`IInv`, at the end of
`Updated`, where TLC can check it too). Each part rests on the ones before it:

* `TypeOK` is inductive only with `TodoKnown` (a monitor past the lock has a file,
  and it is a package: `Head` and `Tail` of its list are defined) and `Prepared`
  (it has a version and, once the child has ended, a result).
* `LockHeld`: a monitor past the lock holds it; hence the other one is at rest
  (`Alone`), which everything below needs.
* `TargetKept` carries what was extracted to the point where it is installed;
  with it `SnapshotKept` is inductive. It does not need the lock.
* `MainStarts`: without requests the main thread is only in the block of its own status,
  and only while it is starting.
* `MountKept`: a thread inside of a block remembers the mount of the boot and
  sees a writable file system. Two blocks never overlap while the main thread stays
  `Apart`: no monitor gets beyond the check of a file before it serves, and no snapshot is
  requested afterwards. So `RootRestored` holds on entering, and no file keeps the
  remount on leaving from working. It also shows that `set_finished` can open
  the status file.
* `VersionKept`: the version file is not older than what is installed, except while
  it is rewritten, and what passed the check stays no downgrade until it is
  installed. `NoDowngrade` follows for the step that installs.
* `StatusKept` (as long as the main thread stays `Apart`) and `OkKept` say where the monitor is when the status file says
  `in_progress`, `empty` or `OK`; `ProgressEnds` and `OkIsInstalled` follow.

The assumptions on constants are those of `Updated`: the names are finitely many,
and `Packages` gives each name a set of packages that does not contain `None`.

`SubmitProofs` proves for any users, commands, inputs, options and results, and any
number of commands and interrupts:

* `NothingLostHolds`: `Spec => []NothingLost`. That another client changed the
  project is an exception of the property, not an assumption of the theorem.
* `AsWantedHolds`: `Spec => []AsWanted`, for documents with any number of sections
  and items, any variants on both and any variants asked for.

`AsWanted` holds because of the functions of `Preprocess`, and most of its proof is
about them (`PreprocessCorrect`); the invariant `InputInv` (end of `Submit`) only says
that what is uploaded comes from an input that `xmlpreprocess` did not reject. The
functions come down to a few facts about `FlattenSeq`: what a function that respects
concatenation does to it (`CatHom`, with `EachConcat`, `SelectConcat` and `ItemsOfCat`
as its uses). From there:

* `RepodirsKeeps`: what is wanted of each kind stays wanted, because the new `<url>`
  has the variants of its `<repodir>`; in finetuning, where a `<repodir>` is invalid,
  nothing moves.
* `KeepVariantsIs` and `MergeIs`: the contents of a kind are what was wanted of it,
  in its order, and a mergeable kind is left with one section.
* `Same` is what each later pass keeps of a document: its sections, what they are made of,
  and the order of finetuning. `Clean` names the tags and attributes
  that do not occur any more; each pass adds its own. There is a lemma per
  pass (`ProxyAddKeeps` to `CheckScriptKeeps`), most by `MappedClean`, the ones
  that add and remove by `RebuiltClean`; `PassesKeep` puts them together.
* `StartClean`: what the first passes leave satisfies what the later ones start from,
  by the checks in `PreprocessFails`. A `passwd`, for example, is never left over,
  and a `location` only where `CheckScript` looks for it.

It assumes of the inputs (`InputsAssumption`) that they are documents, and that no
section has a wanted `archive` and a wanted `archivedir` for the same volume. The
documentation calls them mutually exclusive (`docs/news/2019-03-14-v300.rst:102-103`)
and nothing checks it: the directory would replace what the archive held.

Under `NothingLost` the inductive invariant `IInv` (end of `Submit`) is a statement per
user. The deletion is safe because of `NoneSkipped` (what is not downloaded is still in `todo`, and nothing
is when the deletion begins; a file that is overwritten by one of the same base name leaves
a namesake, `Written`), which lasts only as long as the results stay what
they were. That is `DoneOrGone`: after the last wait the project is done, or went
with the disk; it cannot be in a job, by `JobIsBusy`, so no job ends and replaces the
results. `RemovedSafely` carries the verdict to the end of the submission, where
nothing builds it again. `VMStepLabel` shows once for all commands of the initvm
that they stay among their own labels; `SubmitKeeps`, `ControlKeeps`,
`InterruptKeeps`, `JobEndsKeeps` and `LoseKeeps` take the rest. The other assumption on
constants is that of `Initvm`: the commands are the listed ones.

`WaitBusyProofs` proves for any number of clients, jobs, messages and socket errors,
any length of the queue and any set of blank messages:

* `PrintedInOrderHolds`, `NothingVanishesHolds`: `Spec => []PrintedInOrder` and
  `Spec => []NothingVanishes`.
* `FinishLeavesNothingOldHolds`: `Spec => FinishLeavesNothingOld`, an action property.

The inductive invariant `IInv` (end of `WaitBusy`) rests on `QueueIsLatest`: the queue
holds the latest messages, one after the other, so that `Passed`, the number of the
newest message that left it, describes its content. `PoppedIsOlder` places the message
of a running poll between what is printed and what waits; `PrintedOnce` needs it when
the client prints. `PassedIsSeen` is `NothingVanishes` for what has left the queue. What waits in it is newer
than what any client was told when its wait ended (`ToldIsPassed`), which is what
`NothingVanishes` says of it: only clients that are still waiting can bring it to light.
`EmptyIsUpToDate` says that a poll which popped nothing missed only what was logged
since. `StillKeeps` covers all steps that leave the messages where they are. Assumed
are a queue of at least one message (1024 in the code) and that `Nobody` is not a
client.

Every invariant and every action property of the runs is proved. Only model-checked is
what is temporal under fairness, which this prover does not reach (`JobsFinish`,
`StopTerminates`, `RefinesFairLock`, `WaitEnds`, `RunReturns`, `CommandsEnd`,
`UpdatesSettle`). Induction theorems with an operator
parameter cannot be used either; where a proof needs induction over data (sums,
`FlattenSeq`), it takes the least element of the set of counterexamples instead
(`NatLeast`, and for subsets of a finite set `SubsetInduction`).

The invariants `IInv`, `LevelsOwn`, `DirsKept`, `RequestKnows`, `LogInv`, `CdInv`, `FullInv`,
`TreeInv`, `DiskInv`, `MoveInv`, `SlashInOrder`, `ListInv` and `InputInv` stand in the modules they are about and not in the
proofs, so that they can be added to the `INVARIANT`s of a configuration; TLC
finds them all true on the instances of section 3 (for the daemon, with the
faults each of them allows).

## 5. Not modelled

`PROJECT.json` has the reasons per part. In the daemon: the `files` table and
queries that change nothing, requests that only write files into the build
directory, the HTTP file server. The names and texts of messages; times; disks
that fill up (a failing program or commit stands for it). In the trees and images:
options of the programs that are run, what a finetuning action does to the files of the target
(it may fail, and run in the tree or in the chroot), reports, licences and SBOMs,
`set_xml` of `ElbeProject` and the chroot tarball, finetuning of the target that makes
an artifact. Requests that load a project next to its running job are left to
`ElbeDaemon`. In `LogPipes`: formats, the filter of colour codes, the line
that names the command. In `Preprocess`: deeper nesting than sections and items, the
schema but for what the passes depend on. In `Initvm`
and `Submit`: the content of the installer, attach, ssh, sync and the command repodir, a second
QEMU machine at the same port, retries and time (a step that may give up stands for
them), exit codes (named at each exit, but not kept). In the update daemon:
configuration files, the monitor connection, progress messages; a `SIGTERM` that
arrives while a request is served, whose `TypeError` ends whatever the request
does and is then swallowed by the request's handler; more than one file system.

Left out as a whole: one-shot local commands, `elbe db` as a second process on the
database of a running daemon, `elbevalidate`, uuid and version strings.

## 6. Open work

1. Requests of the update daemon interrupted by signals.
2. `elbe db` as a second process on the daemon's database.
3. `BuildTree` and `ElbeDaemon` joined: loads next to a running job.
