------------------------------ MODULE Pbuilder ------------------------------
(***************************************************************************)
(* The pbuilder environment inside a build directory, and the `elbe        *)
(* pbuilder' commands that create, update and use it.                      *)
(*                                                                         *)
(* A project has a native environment (directory pbuilder, configuration   *)
(* pbuilderrc) or a cross environment (pbuilder_cross, cross_pbuilderrc).  *)
(* Which one it has is nowhere written down: the code asks for directories *)
(* in one place and for configuration files in another.  Jobs of a project *)
(* exclude each other (ElbeDaemon!OneOwner), so a job is one step here,    *)
(* with a parameter for how far it got.                                    *)
(***************************************************************************)
CONSTANT Projects

VARIABLES
    xml,      \* the project: not there yet, without source.xml, with it
    env,      \* env[p][x]: the directory of environment x is absent, has no
              \* base.tgz, or is ready for use
    rc,       \* rc[p]: the environments with a configuration file
    created,  \* history: the environment created last, if that was a success
    result,   \* how the last job of the project ended; a package that was
              \* built is recorded by the environment asked for
    client    \* `elbe pbuilder build --xmlfile': where it is

vars == <<xml, env, rc, created, result, client>>

Cross == {"native", "cross"}

\* How far create_pbuilder gets: the old environments are removed, the new
\* directory is made, the configuration is written, base.tgz is there.
Stages == {"removed", "dirs", "config", "base"}

Init ==
    /\ xml = [p \in Projects |-> "no_project"]
    /\ env = [p \in Projects |-> [x \in Cross |-> "absent"]]
    /\ rc = [p \in Projects |-> {}]
    /\ created = [p \in Projects |-> "none"]
    /\ result = [p \in Projects |-> "none"]
    /\ client = [p \in Projects |-> "none"]

-----------------------------------------------------------------------------
\* new_project, and set_xml at once or later.
NewProject(p) ==
    /\ xml[p] = "no_project"
    /\ xml' = [xml EXCEPT ![p] = "missing"]
    /\ UNCHANGED <<env, rc, created, result, client>>

SetXml(p) ==
    /\ xml[p] = "missing"
    /\ xml' = [xml EXCEPT ![p] = "valid"]
    /\ UNCHANGED <<env, rc, created, result, client>>

\* The state of an environment's directory after create_pbuilder.
DirAfter(stage) ==
    CASE stage = "removed" -> "absent"
      [] stage = "base" -> "ready"
      [] OTHER -> "empty"

\* Mutant: the other environment is kept.
Environment_KeepsOther(p, x, stage) ==
    /\ env' = [env EXCEPT ![p][x] = DirAfter(stage)]
    /\ rc' = IF stage \in {"removed", "dirs"} THEN rc ELSE [rc EXCEPT ![p] = @ \cup {x}]
    /\ created' = [created EXCEPT ![p] = IF stage = "base" THEN x ELSE "none"]

\* ElbeProject.create_pbuilder: both directories go, the one of the new
\* environment is made, its configuration is written, pbuilder --create runs.
\* Configuration files of an earlier environment stay.
Environment(p, x, stage) ==
    /\ env' = [env EXCEPT ![p] =
                 [y \in Cross |-> IF y = x THEN DirAfter(stage) ELSE "absent"]]
    /\ rc' = IF stage \in {"removed", "dirs"} THEN rc ELSE [rc EXCEPT ![p] = @ \cup {x}]
    /\ created' = [created EXCEPT ![p] = IF stage = "base" THEN x ELSE "none"]

\* build_pbuilder and its CreatePbuilderJob.
CreatePbuilder(p, x, stage) ==
    /\ xml[p] = "valid"
    /\ Environment(p, x, stage)
    /\ result' = [result EXCEPT ![p] =
                    IF stage = "base" THEN "created" ELSE "create_failed"]
    /\ UNCHANGED xml

\* build_pdebuild asks for one of the directories, ...
HasPbuilder(p) == \E x \in Cross : env[p][x] # "absent"

\* ... ElbeProject.pdebuild for configuration files, and calls sys.exit when
\* the option does not fit them.
Refused(p, x) == IF x = "cross" THEN "cross" \notin rc[p] ELSE "cross" \in rc[p]

\* Mutant: pbuilder takes any environment of the project.
Usable_Any(p, x) == \E y \in Cross : env[p][y] = "ready"

\* pbuilder finds the configuration it is given, and the base.tgz named there.
Usable(p, x) == x \in rc[p] /\ env[p][x] = "ready"

\* pdebuild_build with environment x: the package builds, or an error is logged.
Built(p, x) == {"error"} \cup (IF Usable(p, x) THEN {x} ELSE {})

\* build_pdebuild and its PdebuildJob.  The exit codes are the code's.
Pdebuild(p, x) ==
    /\ xml[p] = "valid"
    /\ HasPbuilder(p)
    /\ \E r \in IF Refused(p, x)
                THEN {IF x = "cross" THEN "exit116" ELSE "exit117"}
                ELSE Built(p, x) :
          result' = [result EXCEPT ![p] = r]
    /\ UNCHANGED <<xml, env, rc, created, client>>

\* UpdatePbuilderJob uses pbuilderrc, whatever the environment is.
UpdatePbuilder(p) ==
    /\ xml[p] = "valid"
    /\ \E r \in {"error"} \cup (IF Usable(p, "native") THEN {"updated"} ELSE {}) :
          result' = [result EXCEPT ![p] = r]
    /\ UNCHANGED <<xml, env, rc, created, client>>

\* Mutant: build creates the environment anew each time.
PbuildSection_Always(p, stage) ==
    /\ Environment(p, "native", stage)
    /\ result' = [result EXCEPT ![p] = IF stage = "base" THEN "native" ELSE "error"]

\* The pbuild part of ElbeProject.build: create_pbuilder when the directory
\* pbuilder is missing, then pbuild, always with the native environment.
PbuildSection(p, stage) ==
    IF env[p]["native"] = "absent"
    THEN /\ Environment(p, "native", stage)
         /\ result' = [result EXCEPT ![p] = IF stage = "base" THEN "native" ELSE "error"]
    ELSE /\ \E r \in Built(p, "native") : result' = [result EXCEPT ![p] = r]
         /\ UNCHANGED <<env, rc, created>>

\* BuildJob for a recipe with a target/pbuilder section.
BuildPbuilder(p, stage) ==
    /\ xml[p] = "valid"
    /\ PbuildSection(p, stage)
    /\ UNCHANGED <<xml, client>>

-----------------------------------------------------------------------------
(* `elbe pbuilder build --xmlfile'.                                        *)

\* The command asks for a new project; it never uploads the XML file.
BuildXmlNew(p) ==
    /\ xml[p] = "no_project"
    /\ xml' = [xml EXCEPT ![p] = "missing"]
    /\ client' = [client EXCEPT ![p] = "new"]
    /\ UNCHANGED <<env, rc, created, result>>

\* Its build_pbuilder request.  Without a source.xml open_project raises, and
\* the command ends with a SOAP fault.
BuildXmlCreate(p, x, stage) ==
    /\ client[p] = "new"
    /\ \/ /\ CreatePbuilder(p, x, stage)
          /\ client' = [client EXCEPT ![p] = "created"]
       \/ /\ xml[p] = "missing"
          /\ client' = [client EXCEPT ![p] = "fault"]
          /\ UNCHANGED <<xml, env, rc, created, result>>

Next ==
    \E p \in Projects :
        \/ NewProject(p) \/ SetXml(p)
        \/ \E x \in Cross, stage \in Stages :
              CreatePbuilder(p, x, stage) /\ UNCHANGED client
        \/ \E x \in Cross : Pdebuild(p, x)
        \/ UpdatePbuilder(p)
        \/ \E stage \in Stages : BuildPbuilder(p, stage)
        \/ BuildXmlNew(p)
        \/ \E x \in Cross, stage \in Stages : BuildXmlCreate(p, x, stage)

Spec == Init /\ [][Next]_vars

-----------------------------------------------------------------------------
\* The values of the variables; an environment is configured where the jobs
\* that use it look for its configuration.
TypeOK ==
    /\ xml \in [Projects -> {"no_project", "missing", "valid"}]
    /\ env \in [Projects -> [Cross -> {"absent", "empty", "ready"}]]
    /\ rc \in [Projects -> SUBSET Cross]
    /\ created \in [Projects -> Cross \cup {"none"}]
    /\ result \in [Projects -> Cross \cup {"none", "created", "create_failed",
                                           "updated", "exit116", "exit117", "error"}]
    /\ client \in [Projects -> {"none", "new", "created", "fault"}]
    /\ \A p \in Projects, x \in Cross : env[p][x] = "ready" => x \in rc[p]

\* A project never has both environments, whatever sequence of creates, builds
\* and failures it went through: update_project_files lists the packages of
\* pbuilder and looks at pbuilder_cross only if there are none, so a second
\* environment would hide the packages of the first.
OneEnvironment ==
    \A p \in Projects : \E x \in Cross : env[p][x] = "absent"

\* A package is built in the environment that was created last and with
\* success, for the architecture that was asked for, although nothing records
\* which one that is and old configuration files stay behind.
BuiltInCreated ==
    \A p \in Projects : result[p] \in Cross => created[p] = result[p]

\* The inductive invariant behind BuiltInCreated: only the environment created
\* last, and with success, is ready for use.
ReadyIsCreated ==
    \A p \in Projects, x \in Cross : env[p][x] = "ready" => created[p] = x

IInv == TypeOK /\ OneEnvironment /\ ReadyIsCreated /\ BuiltInCreated

\* A native environment, once ready, is taken away by a create job only: the
\* builds of a recipe and the jobs that fail leave it in place.
ReadyIsKept ==
    [][\A p \in Projects :
          env[p]["native"] = "ready" /\ env'[p]["native"] # "ready"
              => result'[p] \in {"created", "create_failed"}]_vars

=============================================================================
