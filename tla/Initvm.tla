-------------------------------- MODULE Initvm --------------------------------
(***************************************************************************)
(* The virtual machine the builds run in, and the commands of `elbe        *)
(* initvm' that create, start, stop and destroy it (initvm.py).            *)
(*                                                                         *)
(* Users run their commands in processes of their own and share one        *)
(* domain.  libvirt carries out one request after the other, but nothing   *)
(* holds the domain between the request for its state and the request that *)
(* depends on it.  In the guest the daemon serves when the boot is over;   *)
(* the host accepts connections to its port for as long as the domain      *)
(* runs.                                                                   *)
(***************************************************************************)
EXTENDS Naturals, FiniteSets

CONSTANTS
    Users,       \* who runs commands
    Modes,       \* initvms the users may have: subset of {"libvirt", "qemu"}
    Commands,    \* the commands each of them gives
    MaxCommands  \* bound: commands all users give

ASSUME InitvmAssumption ==
    Commands \in
        [Users -> SUBSET {"create", "start", "stop", "destroy", "submit", "control"}]

VARIABLES
    mode,     \* LibvirtInitVM or QemuInitVM (--qemu)
    domain,   \* none, shutoff, running or shutdown, the state libvirt reports
    defined,  \* libvirt has a persistent definition of the domain
    dir,      \* the directory of the initvm exists
    disk,     \* it is the one the guest was last started from: the guest's disk
              \* and QEMU's monitor socket are in it
    stale,    \* who holds a domain object of libvirt whose domain is gone
    daemon,   \* in the guest: off, booting or up
    pc,       \* where the command of each user is
    cmd,      \* the command
    given     \* how many commands were given

initvmVars == <<mode, domain, defined, dir, disk, stale, daemon, pc, cmd, given>>
guestVars == <<domain, defined, dir, disk, stale, daemon>>
fixedVars == <<mode, given>>

InitvmInit ==
    /\ mode \in Modes
    /\ domain = IF mode = "qemu" THEN "shutoff" ELSE "none"
    /\ defined = FALSE
    /\ dir = FALSE
    /\ disk = FALSE
    /\ stale = {}
    /\ daemon = "off"
    /\ pc = [u \in Users |-> "idle"]
    /\ cmd = [u \in Users |-> "none"]
    /\ given = 0

\* Something is bound to the port on the host: _is_soap_port_reachable.
Reachable == domain \in {"running", "shutdown"}

GoTo(u, label) == pc' = [pc EXCEPT ![u] = label]
\* The exit code c is named where the code sets it (1 also stands for a
\* traceback), but nothing depends on it and it is not kept.
End(u, c) == pc' = [pc EXCEPT ![u] = "idle"]
Stay == UNCHANGED guestVars

\* _get_domain finds the domain by its name; from then on the object stands
\* for its UUID, which every create makes anew.  When the domain goes, the
\* requests of those who hold an object of it fail.
LooksUp(u) == stale' = stale \ {u}
Holders == {u \in Users : pc[u] \in {"launch", "relaunch", "stopping", "ask", "undefine"}}
BecomesOff ==
    /\ domain' = IF defined \/ mode = "qemu" THEN "shutoff" ELSE "none"
    /\ daemon' = "off"

\* A command starts with its connection to libvirt.
Command(u) ==
    /\ pc[u] = "idle" /\ given < MaxCommands
    /\ given' = given + 1
    /\ \E c \in Commands[u] :
          /\ cmd' = [cmd EXCEPT ![u] = c]
          /\ GoTo(u, IF c = "submit" THEN "ensure" ELSE c)
    /\ Stay /\ UNCHANGED mode

\* LibvirtInitVM._connect: the 18 retries failed (118), or libvirt refuses.
NoLibvirt(u) ==
    /\ pc[u] = "idle" /\ given < MaxCommands /\ mode = "libvirt"
    /\ given' = given + 1
    /\ End(u, 118)
    /\ Stay /\ UNCHANGED <<mode, cmd>>

\* What follows once the initvm was started, answered the probe, and is
\* known to serve.
AfterEnsure(u) ==
    CASE cmd[u] = "submit" -> GoTo(u, "repodir")
      [] cmd[u] = "create" -> \/ GoTo(u, "repodir")
                              \/ End(u, 0)  \* the XML has no <project>
      [] OTHER -> End(u, 0)
AfterStart(u) ==
    CASE pc[u] \in {"restart", "relaunch"} -> GoTo(u, "probe")  \* within ensure
      [] pc[u] \notin {"restart", "relaunch"} /\ cmd[u] = "start" -> End(u, 0)
      [] OTHER -> GoTo(u, "ensure")
AfterProbe(u) ==
    IF mode = "qemu" THEN AfterStart(u) ELSE AfterEnsure(u)

-----------------------------------------------------------------------------
(* create.                                                                 *)

\* create_initvm: a recipe that is not valid is refused; a directory is not
\* reused, nor one a failed create left behind; and whatever is done in the
\* directory may fail: the download of the installer, the keys, the archives.
CreateDirectory(u) ==
    /\ pc[u] = "create"
    /\ \/ End(u, 1) /\ dir' = dir
       \/ ~dir /\ dir' = TRUE /\ (GoTo(u, "make") \/ End(u, 1))
    /\ UNCHANGED <<domain, defined, disk, stale, daemon, cmd, fixedVars>>

\* An old tmux session (143), a domain of this name (142), or make fails
\* (147).  QemuInitVM registers nothing.
CreateMake(u) ==
    /\ pc[u] = "make"
    /\ IF mode = "libvirt" /\ domain # "none" THEN End(u, 142)
       ELSE \/ GoTo(u, "define")
            \/ End(u, 147)
    /\ Stay /\ UNCHANGED <<cmd, fixedVars>>

\* defineXML refuses a name that somebody else defined meanwhile (146).
CreateDefine(u) ==
    /\ pc[u] = "define"
    /\ CASE mode = "qemu" -> GoTo(u, "start") /\ Stay
         [] mode = "libvirt" /\ domain # "none" -> End(u, 146) /\ Stay
         [] OTHER -> /\ GoTo(u, "start")
                     /\ defined' = TRUE /\ domain' = "shutoff"
                     /\ UNCHANGED <<dir, disk, stale, daemon>>
    /\ UNCHANGED <<cmd, fixedVars>>

-----------------------------------------------------------------------------
(* start and ensure.                                                       *)

\* Already running (122); a domain that is neither running nor shut off, one
\* that is shutting down, is left alone, and that counts as success.
StartLibvirt(u) ==
    /\ pc[u] \in {"start", "restart"} /\ mode = "libvirt"
    /\ CASE domain = "none" -> End(u, 1)
         [] domain = "running" -> End(u, 122)
         [] domain = "shutoff" ->
              GoTo(u, IF pc[u] = "start" THEN "launch" ELSE "relaunch")
         [] domain = "shutdown" -> AfterStart(u)
    /\ LooksUp(u)
    /\ UNCHANGED <<domain, defined, dir, disk, daemon, cmd, fixedVars>>

\* With QEMU a bound port and a monitor socket mean that this very initvm
\* runs already, and a bound port without one that another does (211); no
\* initvm directory is an error (207).
StartQemu(u) ==
    /\ pc[u] = "start" /\ mode = "qemu"
    /\ CASE ~dir -> End(u, 207)
         [] dir /\ Reachable /\ disk -> AfterStart(u)
         [] dir /\ Reachable /\ ~disk -> End(u, 211)
         [] dir /\ ~Reachable -> GoTo(u, "launch")
    /\ Stay /\ UNCHANGED <<cmd, fixedVars>>

\* domain.create(), which fails when the domain is not shut off any more, is
\* gone, or its disk is; of two QEMUs the second cannot bind the port, and
\* make needs the directory.
Launch(u) ==
    /\ pc[u] \in {"launch", "relaunch"}
    /\ LET starts == domain = "shutoff" /\ dir /\ u \notin stale
       IN  /\ IF starts
              THEN /\ domain' = "running" /\ daemon' = "booting" /\ disk' = TRUE
                   /\ UNCHANGED <<defined, dir, stale>>
              ELSE Stay
           /\ CASE mode = "qemu" /\ dir -> GoTo(u, "probe")
                [] mode = "libvirt" /\ starts -> AfterStart(u)
                [] OTHER -> End(u, 1)
    /\ UNCHANGED <<cmd, fixedVars>>

\* The state is read here and again by start.
Ensure(u) ==
    /\ pc[u] = "ensure"
    /\ IF mode = "qemu"
       THEN IF Reachable THEN AfterEnsure(u) ELSE End(u, 206)
       ELSE CASE domain = "none" -> End(u, 1)
              [] domain = "running" -> GoTo(u, "probe")
              [] domain = "shutoff" -> GoTo(u, "restart")
              [] domain = "shutdown" -> End(u, 124)
    /\ Stay /\ UNCHANGED <<cmd, fixedVars>>

\* _test_soap_communication asks for the list of projects until it gets one,
\* or gives up after two minutes (123).  The connection is made outside of
\* the try statement: its own retries may be used up long before (1).
ProbeAnswered(u) ==
    /\ pc[u] = "probe" /\ daemon = "up"
    /\ AfterProbe(u)
    /\ Stay /\ UNCHANGED <<cmd, fixedVars>>
ProbeFails(u) ==
    /\ pc[u] = "probe" /\ daemon # "up"
    /\ \/ End(u, 123)
       \/ End(u, 1) /\ Reachable
    /\ Stay /\ UNCHANGED <<cmd, fixedVars>>

-----------------------------------------------------------------------------
(* stop and destroy.                                                       *)

Stop(u) ==
    /\ pc[u] = "stop"
    /\ IF \/ mode = "libvirt" /\ domain = "running"
          \/ mode = "qemu" /\ Reachable /\ disk
       THEN GoTo(u, "stopping")
       ELSE End(u, CASE domain = "none" /\ mode = "libvirt" -> 1
                     [] ~dir /\ mode = "qemu" -> 207
                     [] mode = "qemu" -> 212
                     [] OTHER -> 125)
    /\ LooksUp(u)
    /\ UNCHANGED <<domain, defined, dir, disk, daemon, cmd, fixedVars>>

\* Once a second: nothing to do while the guest shuts down, done when it is
\* off, asked again otherwise.
StopPoll(u) ==
    /\ pc[u] = "stopping" /\ mode = "libvirt"
    /\ \/ u \in stale /\ End(u, 1)
       \/ u \notin stale /\ domain = "shutoff" /\ End(u, 0)
       \/ u \notin stale /\ domain = "running" /\ GoTo(u, "ask")
    /\ Stay /\ UNCHANGED <<cmd, fixedVars>>

\* domain.shutdown() fails on a domain that is off by now, and has no effect
\* on a guest that is still booting.
StopAsk(u) ==
    /\ pc[u] = "ask"
    /\ IF Reachable /\ u \notin stale
       THEN /\ domain' = IF daemon = "up" THEN "shutdown" ELSE domain
            /\ GoTo(u, "stopping")
            /\ UNCHANGED <<defined, dir, disk, stale, daemon>>
       ELSE End(u, 1) /\ Stay
    /\ UNCHANGED <<cmd, fixedVars>>

\* QEMU gets one powerdown event, unless its socket is gone meanwhile, and
\* two seconds later the port must be free.
StopQemu(u) ==
    /\ pc[u] = "stopping" /\ mode = "qemu"
    /\ IF Reachable
       THEN /\ domain' = IF daemon = "up" /\ disk THEN "shutdown" ELSE domain
            /\ End(u, 1)
            /\ UNCHANGED <<defined, dir, disk, stale, daemon>>
       ELSE End(u, 0) /\ Stay
    /\ UNCHANGED <<cmd, fixedVars>>

\* QemuInitVM.destroy removes the directory and nothing else, and so does
\* LibvirtInitVM.destroy when it finds no domain.
Destroy(u) ==
    /\ pc[u] = "destroy"
    /\ IF mode = "qemu" \/ domain = "none"
       THEN GoTo(u, "remove") /\ Stay
       ELSE /\ GoTo(u, "undefine")
            /\ IF Reachable THEN BecomesOff ELSE UNCHANGED <<domain, daemon>>
            /\ stale' = IF domain' = "none" THEN Holders \union {u} ELSE stale \ {u}
            /\ UNCHANGED <<defined, dir, disk>>
    /\ UNCHANGED <<cmd, fixedVars>>

\* A domain that somebody started in between stays, without its definition.
Undefine(u) ==
    /\ pc[u] = "undefine"
    /\ GoTo(u, "remove")
    /\ IF u \in stale THEN UNCHANGED <<domain, defined, stale>>
       ELSE /\ defined' = FALSE
            /\ domain' = IF domain = "shutoff" THEN "none" ELSE domain
            /\ stale' = IF domain' = "none" THEN Holders ELSE stale
    /\ UNCHANGED <<dir, disk, daemon, cmd, fixedVars>>

\* The directory goes, whose guest ever runs from it by now.
RemoveDirectory(u) ==
    /\ pc[u] = "remove"
    /\ End(u, 0)
    /\ dir' = FALSE /\ disk' = FALSE
    /\ UNCHANGED <<domain, defined, stale, daemon, cmd, fixedVars>>

-----------------------------------------------------------------------------
(* The guest.                                                              *)

Boot ==
    /\ daemon = "booting"
    /\ daemon' = "up"
    /\ UNCHANGED <<domain, defined, dir, disk, stale, pc, cmd, fixedVars>>

\* The guest is down: nothing of the daemon is left but its database.
PowerOff ==
    /\ domain = "shutdown"
    /\ BecomesOff
    /\ stale' = IF domain' = "none" THEN Holders ELSE stale
    /\ UNCHANGED <<defined, dir, disk, pc, cmd, fixedVars>>

\* The steps that take nothing from the daemon.
VMStep(u) ==
    \/ CreateDirectory(u) \/ CreateMake(u) \/ CreateDefine(u)
    \/ StartLibvirt(u) \/ StartQemu(u) \/ Launch(u)
    \/ Ensure(u) \/ ProbeAnswered(u) \/ ProbeFails(u)
    \/ Stop(u) \/ StopPoll(u) \/ StopAsk(u) \/ StopQemu(u)
=============================================================================
