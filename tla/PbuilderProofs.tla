--------------------------- MODULE PbuilderProofs ---------------------------
(***************************************************************************)
(* Theorems about Pbuilder: for any number of projects and any sequence of *)
(* creates, builds and failures a project has one environment, and what is *)
(* built is built in the environment created last.                         *)
(***************************************************************************)
EXTENDS Pbuilder, TLAPS

\* A project without any environment: the invariant holds at the start.
LEMMA IInvInit == Init => IInv
BY DEF Init, IInv, TypeOK, OneEnvironment, ReadyIsCreated, BuiltInCreated, Cross

\* create_pbuilder, whatever it was before and however far it gets, leaves one
\* environment at most, and a ready one only if it is the one just created.
LEMMA EnvironmentKeeps ==
    ASSUME TypeOK, OneEnvironment, ReadyIsCreated,
           NEW p \in Projects, NEW x \in Cross, NEW stage \in Stages,
           Environment(p, x, stage)
    PROVE  /\ env' \in [Projects -> [Cross -> {"absent", "empty", "ready"}]]
           /\ rc' \in [Projects -> SUBSET Cross]
           /\ created' \in [Projects -> Cross \cup {"none"}]
           /\ \A q \in Projects, y \in Cross : env'[q][y] = "ready" => y \in rc'[q]
           /\ OneEnvironment' /\ ReadyIsCreated'
           /\ \A q \in Projects : q # p => created'[q] = created[q]
           /\ stage = "base" => created'[p] = x
<1> USE DEF TypeOK, Cross, Stages
<1>1. DirAfter(stage) \in {"absent", "empty", "ready"}
      /\ (DirAfter(stage) = "ready" <=> stage = "base")
  BY DEF DirAfter
<1>2. env' \in [Projects -> [Cross -> {"absent", "empty", "ready"}]]
  BY <1>1 DEF Environment
<1>3. rc' \in [Projects -> SUBSET Cross]
      /\ created' \in [Projects -> Cross \cup {"none"}]
  BY DEF Environment
<1>4. \A q \in Projects : q # p =>
          env'[q] = env[q] /\ rc'[q] = rc[q] /\ created'[q] = created[q]
  BY DEF Environment
<1>5. \A y \in Cross : env'[p][y] = IF y = x THEN DirAfter(stage) ELSE "absent"
  BY DEF Environment
<1>6. stage = "base" => x \in rc'[p] /\ created'[p] = x
  BY DEF Environment
<1>7. \A q \in Projects, y \in Cross : env'[q][y] = "ready" => y \in rc'[q]
  BY <1>1, <1>4, <1>5, <1>6
<1>8. OneEnvironment'
  BY <1>4, <1>5 DEF OneEnvironment
<1>9. ReadyIsCreated'
  BY <1>1, <1>4, <1>5, <1>6 DEF ReadyIsCreated
<1> QED BY <1>2, <1>3, <1>4, <1>6, <1>7, <1>8, <1>9

\* CreatePbuilderJob, asked for by either command.
LEMMA CreateKeeps ==
    ASSUME IInv, NEW p \in Projects, NEW x \in Cross, NEW stage \in Stages,
           CreatePbuilder(p, x, stage),
           client' \in [Projects -> {"none", "new", "created", "fault"}]
    PROVE  IInv'
<1> USE DEF IInv
<1>1. Environment(p, x, stage) /\ UNCHANGED xml
  BY DEF CreatePbuilder
<1>2. /\ result'[p] \notin Cross
      /\ \A q \in Projects : q # p => result'[q] = result[q]
      /\ result' \in [Projects -> Cross \cup {"none", "created", "create_failed",
                                             "updated", "exit116", "exit117", "error"}]
  BY DEF CreatePbuilder, TypeOK, Cross
<1>3. BuiltInCreated'
  BY <1>1, <1>2, EnvironmentKeeps DEF BuiltInCreated
<1>4. TypeOK'
  BY <1>1, <1>2, EnvironmentKeeps DEF TypeOK
<1> QED BY <1>1, <1>3, <1>4, EnvironmentKeeps

\* Every step of every job and command keeps the invariant.
LEMMA IInvNext == IInv /\ [Next]_vars => IInv'
<1> SUFFICES ASSUME IInv, [Next]_vars PROVE IInv'
  OBVIOUS
<1> USE DEF IInv
<1>1. CASE UNCHANGED vars
  BY <1>1 DEF vars, TypeOK, OneEnvironment, ReadyIsCreated, BuiltInCreated
<1>2. ASSUME NEW p \in Projects, NewProject(p) \/ SetXml(p) \/ BuildXmlNew(p)
      PROVE  IInv'
  <2>1. UNCHANGED <<env, rc, created, result>>
    BY <1>2 DEF NewProject, SetXml, BuildXmlNew
  <2>2. TypeOK'
    BY <1>2, <2>1 DEF TypeOK, NewProject, SetXml, BuildXmlNew
  <2> QED BY <2>1, <2>2 DEF OneEnvironment, ReadyIsCreated, BuiltInCreated
<1>3. ASSUME NEW p \in Projects, NEW x \in Cross, NEW stage \in Stages,
             CreatePbuilder(p, x, stage), UNCHANGED client
      PROVE  IInv'
  BY <1>3, CreateKeeps DEF TypeOK
<1>4. ASSUME NEW p \in Projects, NEW x \in Cross, Pdebuild(p, x)
      PROVE  IInv'
  <2>1. UNCHANGED <<xml, env, rc, created, client>>
    BY <1>4 DEF Pdebuild
  <2>2. PICK r \in {"exit116", "exit117"} \cup Built(p, x) :
            result' = [result EXCEPT ![p] = r]
    BY <1>4 DEF Pdebuild
  <2>3. r \in Cross => created[p] = r
    BY <2>2 DEF Built, Usable, ReadyIsCreated, Cross
  <2>4. BuiltInCreated'
    BY <2>1, <2>2, <2>3 DEF BuiltInCreated, TypeOK
  <2>5. TypeOK'
    BY <2>1, <2>2 DEF TypeOK, Built, Cross
  <2> QED BY <2>1, <2>4, <2>5 DEF OneEnvironment, ReadyIsCreated
<1>5. ASSUME NEW p \in Projects, UpdatePbuilder(p)
      PROVE  IInv'
  <2>1. UNCHANGED <<xml, env, rc, created, client>>
    BY <1>5 DEF UpdatePbuilder
  <2>2. PICK r \in {"error", "updated"} : result' = [result EXCEPT ![p] = r]
    BY <1>5 DEF UpdatePbuilder
  <2>3. BuiltInCreated'
    BY <2>1, <2>2 DEF BuiltInCreated, TypeOK, Cross
  <2>4. TypeOK'
    BY <2>1, <2>2 DEF TypeOK
  <2> QED BY <2>1, <2>3, <2>4 DEF OneEnvironment, ReadyIsCreated
<1>6. ASSUME NEW p \in Projects, NEW stage \in Stages, BuildPbuilder(p, stage)
      PROVE  IInv'
  <2>0. UNCHANGED <<xml, client>> /\ PbuildSection(p, stage) /\ "native" \in Cross
    BY <1>6 DEF BuildPbuilder, Cross
  <2>1. CASE env[p]["native"] = "absent"
    <3>1. /\ Environment(p, "native", stage)
          /\ result' = [result EXCEPT ![p] = IF stage = "base" THEN "native" ELSE "error"]
      BY <2>0, <2>1 DEF PbuildSection
    <3>2. BuiltInCreated'
      BY <2>0, <3>1, EnvironmentKeeps DEF BuiltInCreated, TypeOK, Cross
    <3>3. TypeOK'
      BY <2>0, <3>1, EnvironmentKeeps DEF TypeOK
    <3> QED BY <2>0, <3>1, <3>2, <3>3, EnvironmentKeeps
  <2>2. CASE env[p]["native"] # "absent"
    <3>1. UNCHANGED <<env, rc, created>>
      BY <2>0, <2>2 DEF PbuildSection
    <3>2. PICK r \in Built(p, "native") : result' = [result EXCEPT ![p] = r]
      BY <2>0, <2>2 DEF PbuildSection
    <3>3. r \in Cross => created[p] = r
      BY <2>0, <3>2 DEF Built, Usable, ReadyIsCreated, Cross
    <3>4. BuiltInCreated'
      BY <3>1, <3>2, <3>3 DEF BuiltInCreated, TypeOK
    <3>5. TypeOK'
      BY <2>0, <3>1, <3>2 DEF TypeOK, Built, Cross
    <3> QED BY <3>1, <3>4, <3>5 DEF OneEnvironment, ReadyIsCreated
  <2> QED BY <2>1, <2>2
<1>7. ASSUME NEW p \in Projects, NEW x \in Cross, NEW stage \in Stages,
             BuildXmlCreate(p, x, stage)
      PROVE  IInv'
  <2>0. client' \in [Projects -> {"none", "new", "created", "fault"}]
    BY <1>7 DEF BuildXmlCreate, TypeOK
  <2>1. CASE CreatePbuilder(p, x, stage)
    BY <2>0, <2>1, CreateKeeps
  <2>2. CASE UNCHANGED <<xml, env, rc, created, result>>
    <3>1. TypeOK'
      BY <2>0, <2>2 DEF TypeOK
    <3> QED BY <2>2, <3>1 DEF OneEnvironment, ReadyIsCreated, BuiltInCreated
  <2> QED BY <1>7, <2>1, <2>2 DEF BuildXmlCreate
<1> QED BY <1>1, <1>2, <1>3, <1>4, <1>5, <1>6, <1>7 DEF Next

\* The invariant that the other theorems are read off.
THEOREM Invariance == Spec => []IInv
<1> QED BY IInvInit, IInvNext, PTL DEF Spec

\* A project never has both environments, however creates, builds and their
\* failures follow each other.
THEOREM OneEnvironmentHolds == Spec => []OneEnvironment
<1>1. IInv => OneEnvironment
  BY DEF IInv
<1> QED BY <1>1, Invariance, PTL

\* A package reported as built was built in the environment that was created
\* last, and of the kind that was asked for.
THEOREM BuiltInCreatedHolds == Spec => []BuiltInCreated
<1>1. IInv => BuiltInCreated
  BY DEF IInv
<1> QED BY <1>1, Invariance, PTL

\* Only a create job, or a build that finds no native environment, replaces the
\* environments of a project.
LEMMA ReadyStep ==
    ASSUME TypeOK, [Next]_vars, NEW p \in Projects,
           env[p]["native"] = "ready", env'[p]["native"] # "ready"
    PROVE  result'[p] \in {"created", "create_failed"}
<1> "native" \in Cross
  BY DEF Cross
<1>1. ASSUME NEW q \in Projects, NEW x \in Cross, NEW stage \in Stages, Environment(q, x, stage)
      PROVE  q = p
  BY <1>1 DEF TypeOK, Environment
<1>2. ASSUME NEW q \in Projects, NEW x \in Cross, NEW stage \in Stages,
             CreatePbuilder(q, x, stage)
      PROVE  result'[p] \in {"created", "create_failed"}
  <2>1. q = p
    BY <1>1, <1>2 DEF CreatePbuilder
  <2> QED BY <1>2, <2>1 DEF CreatePbuilder, TypeOK
<1>3. ASSUME NEW q \in Projects, NEW stage \in Stages, BuildPbuilder(q, stage)
      PROVE  FALSE
  <2>1. CASE env[q]["native"] = "absent"
    <3>1. q = p
      BY <1>1, <1>3, <2>1 DEF BuildPbuilder, PbuildSection
    <3> QED BY <2>1, <3>1
  <2>2. CASE env[q]["native"] # "absent"
    BY <1>3, <2>2 DEF BuildPbuilder, PbuildSection
  <2> QED BY <2>1, <2>2
<1> QED BY <1>2, <1>3
       DEF Next, vars, NewProject, SetXml, Pdebuild, UpdatePbuilder, BuildXmlNew, BuildXmlCreate

\* A native environment that is ready for use stays until a create job takes its
\* place: no build of a recipe and no failing job costs it.
THEOREM ReadyIsKeptHolds == Spec => ReadyIsKept
<1> DEFINE Kept == \A p \in Projects :
                      env[p]["native"] = "ready" /\ env'[p]["native"] # "ready"
                          => result'[p] \in {"created", "create_failed"}
<1>1. IInv /\ [Next]_vars => [Kept]_vars
  BY ReadyStep DEF IInv
<1> HIDE DEF Kept
<1>2. Spec => [][Kept]_vars
  BY <1>1, Invariance, PTL DEF Spec
<1> QED BY <1>2 DEF ReadyIsKept, Kept
=============================================================================
